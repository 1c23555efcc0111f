-------------------------- MODULE DocumentLifecycle --------------------------
(***************************************************************************)
(* One logical document of the knowledge base and everything that moves    *)
(* it: update and reparse registration, the candidate an ingestion worker  *)
(* builds, publication, rollback, soft delete, restore, the outbox         *)
(* dispatcher that purges expired tombstones, and the query filter.        *)
(*                                                                         *)
(* Three stores hold the state.  PostgreSQL rows are authoritative; a unit *)
(* of work is one atomic step, and only Document rows are compared and     *)
(* swapped on their revision (save_if_revision), every other row is saved  *)
(* blindly.  MinIO objects and Elasticsearch projections are written by    *)
(* separate calls, so a command is a sequence of steps between which any   *)
(* other command may run.  A command that raises, or whose process dies,   *)
(* takes no further step and leaves the stores as they are.                *)
(***************************************************************************)
EXTENDS Integers, Sequences, FiniteSets

CONSTANTS
    Calls,        \* command requests; a version created by call c has id c
    InitVersion,  \* the version the upload path published
    None,         \* no version, no event
    Dispatchers,  \* concurrent runs of dispatch_lifecycle_outbox
    Readers,      \* concurrent retrieval requests
    Retention,    \* clock ticks between a soft delete and its purge_after
    MaxClock,     \* bound on the clock
    MaxAttempts,          \* RetryPolicy.max_attempts
    ConcurrencyAttempts   \* RetryPolicy.concurrency_attempts

ASSUME NamesAssumption == /\ InitVersion \notin Calls
                          /\ None \notin Calls \cup {InitVersion}

ASSUME BoundsAssumption == /\ Retention \in Nat \ {0}
                           /\ MaxClock \in Nat
                           /\ MaxAttempts \in Nat \ {0}
                           /\ ConcurrencyAttempts \in Nat \ {0}

Versions == Calls \cup {InitVersion}

VARIABLES
    doc,         \* Document row: status, current version, revision, purge_after
    versions,    \* DocumentVersion rows: status ("absent" before the row exists)
    objectKey,   \* DocumentVersion.object_key, named by the version that stored it
    opStatus,    \* LifecycleOperation rows: status ("absent" before the row exists)
    lastDelete,  \* the DELETE operation with the latest updated_at
    cleanup,     \* the delayed cleanup event of each delete: status and attempts
    due,         \* its available_at
    objects,     \* object store: the keys present
    indexed,     \* search index: versions that have records
    searchable,  \* search index: versions whose records are active
    token,       \* search index: lifecycle_fencing_token of a version's records
    clock,       \* the wall clock
    pc,          \* where each command is
    kind,        \* what each command is
    expected,    \* the document revision it read
    target,      \* the version it publishes or restores
    previous,    \* the version it retires
    source,      \* the object a reparse reuses, the delete a restore undoes
    seen,        \* the statuses of target and previous it read
    disp,        \* dispatcher-local state
    query,       \* reader-local state
    timeline,    \* history: what the document exposed at each revision
    kept,        \* history: what the deletes requested, or cancelled, since the
                 \* document was last hidden had hidden
    overdue      \* history: a restore committed after the retention it checked

rows    == <<doc, versions, objectKey, opStatus, lastDelete, cleanup, due>>
index   == <<indexed, searchable, token>>
command == <<kind, expected, target, previous, source, seen>>
history == <<timeline, kept, overdue>>
vars    == <<rows, objects, index, clock, pc, command, disp, query, history>>

NoDeadline == 0     \* purge_after IS NULL; a real deadline is at least Retention

DocStatus     == {"active", "delete_pending", "deleted"}
VersionStatus == {"absent", "registered", "ingesting", "ready", "failed",
                  "superseded", "deleted"}
OpStatus      == {"absent", "pending", "cancel_requested", "succeeded"}
EventStatus   == {"absent", "pending", "published", "cancelled", "dead_letter"}
Phase == {"idle", "stored", "queued", "loaded", "ingesting", "parsed",
          "indexed", "publish", "rollback", "checked", "validated", "promoted",
          "retire", "done", "failed"}

\* _VERSION_TRANSITIONS, and the same-state transition that returns the version
\* unchanged.
MayBecome(status, goal) ==
    \/ goal = status
    \/ goal \in CASE status = "registered" -> {"ingesting", "deleted"}
                  [] status = "ingesting"  -> {"ready", "failed", "deleted"}
                  [] status = "ready"      -> {"superseded", "deleted"}
                  [] status = "failed"     -> {"ingesting", "deleted"}
                  [] status = "superseded" -> {"ready", "deleted"}
                  [] OTHER                 -> {}

Resting == [pc |-> "idle", event |-> None, attempts |-> 0, revision |-> 0,
            found |-> {}, left |-> {}, outcome |-> "pending"]

Init ==
    /\ doc = [status |-> "active", current |-> InitVersion, revision |-> 1,
              purgeAfter |-> NoDeadline]
    /\ versions = [v \in Versions |-> IF v = InitVersion THEN "ready" ELSE "absent"]
    /\ objectKey = [v \in Versions |-> v]
    /\ opStatus = [c \in Calls |-> "absent"]
    /\ lastDelete = None
    /\ cleanup = [c \in Calls |-> [status |-> "absent", attempts |-> 0]]
    /\ due = [c \in Calls |-> 0]
    /\ objects = {InitVersion}
    /\ indexed = {InitVersion}
    /\ searchable = {InitVersion}
    /\ token = [v \in Versions |-> 0]
    /\ clock = 0
    /\ pc = [c \in Calls |-> "idle"]
    /\ kind = [c \in Calls |-> "update"]
    /\ expected = [c \in Calls |-> 0]
    /\ target = [c \in Calls |-> c]
    /\ previous = [c \in Calls |-> InitVersion]
    /\ source = [c \in Calls |-> c]
    /\ seen = [c \in Calls |-> [target |-> "absent", previous |-> "absent"]]
    /\ disp = [d \in Dispatchers |-> Resting]
    /\ query = [q \in Readers |-> [since |-> 1, left |-> {}, answer |-> {}]]
    /\ timeline = <<InitVersion>>
    /\ kept = {}
    /\ overdue = FALSE

Goto(c, from, to) == pc[c] = from /\ pc' = [pc EXCEPT ![c] = to]

\* Mutant: a plain save, the revision not compared.
SaveBlindly(revision, status, current, deadline) ==
    /\ doc' = [status |-> status, current |-> current,
               revision |-> revision + 1, purgeAfter |-> deadline]
    /\ timeline' = Append(timeline, current)

\* save_if_revision: UPDATE ... WHERE revision = expected.
CompareAndSwap(revision, status, current, deadline) ==
    /\ doc.revision = revision
    /\ doc' = [status |-> status, current |-> current,
               revision |-> revision + 1, purgeAfter |-> deadline]
    /\ timeline' = Append(timeline, current)

-----------------------------------------------------------------------------
(* Update and reparse: register a candidate, leave the active version alone. *)

\* update: the object is written under the new version id before any row
\* refers to it.
PutSource(c) ==
    /\ Goto(c, "idle", "stored")
    /\ kind' = [kind EXCEPT ![c] = "update"]
    /\ objects' = objects \cup {c}
    /\ UNCHANGED <<rows, index, clock, expected, target, previous, source, seen,
                   disp, query, history>>

\* reparse: the candidate reuses the object of the version that is current now.
ReadCurrent(c) ==
    /\ doc.current # None
    /\ Goto(c, "idle", "stored")
    /\ kind' = [kind EXCEPT ![c] = "reparse"]
    /\ source' = [source EXCEPT ![c] = objectKey[doc.current]]
    /\ UNCHANGED <<rows, objects, index, clock, expected, target, previous, seen,
                   disp, query, history>>

\* _register: version, operation, job and outbox event in one transaction; the
\* document is only read.
Register(c) ==
    /\ Goto(c, "stored", "queued")
    /\ doc.current # None
    /\ versions' = [versions EXCEPT ![c] = "registered"]
    /\ objectKey' = [objectKey EXCEPT ![c] =
                        IF kind[c] = "reparse" THEN source[c] ELSE c]
    /\ opStatus' = [opStatus EXCEPT ![c] = "pending"]
    /\ expected' = [expected EXCEPT ![c] = doc.revision]
    /\ previous' = [previous EXCEPT ![c] = doc.current]
    /\ UNCHANGED <<doc, lastDelete, cleanup, due, objects, index, clock, kind, target,
                   source, seen, disp, query, history>>

-----------------------------------------------------------------------------
(* The ingestion worker builds the candidate (IngestionPipeline has the      *)
(* stages, retries and redeliveries in full).                                *)

LoadJob(c) ==
    /\ Goto(c, "queued", "loaded")
    /\ seen' = [seen EXCEPT ![c].target = versions[c]]
    /\ UNCHANGED <<rows, objects, index, clock, kind, expected, target, previous,
                   source, disp, query, history>>

MarkIngesting(c) ==
    /\ Goto(c, "loaded", "ingesting")
    /\ IF seen[c].target = "registered"
       THEN /\ versions' = [versions EXCEPT ![c] = "ingesting"]
            /\ seen' = [seen EXCEPT ![c].target = "ingesting"]
       ELSE UNCHANGED <<versions, seen>>
    /\ UNCHANGED <<doc, objectKey, opStatus, lastDelete, cleanup, due, objects, index,
                   clock, kind, expected, target, previous, source, disp, query, history>>

ParseSource(c) ==
    /\ Goto(c, "ingesting", "parsed")
    /\ objectKey[c] \in objects
    /\ UNCHANGED <<rows, objects, index, clock, command, disp, query, history>>

\* Mutant: the records of the version being replaced make room for the new ones.
WriteOverPrevious(c) ==
    /\ Goto(c, "parsed", "indexed")
    /\ indexed' = (indexed \ {previous[c]}) \cup {c}
    /\ searchable' = searchable \ {c, previous[c]}
    /\ token' = [token EXCEPT ![c] = 0]
    /\ UNCHANGED <<rows, objects, clock, command, disp, query, history>>

\* upsert: records of the candidate, inactive and with no fencing token.
WriteCandidate(c) ==
    /\ Goto(c, "parsed", "indexed")
    /\ indexed' = indexed \cup {c}
    /\ searchable' = searchable \ {c}
    /\ token' = [token EXCEPT ![c] = 0]
    /\ UNCHANGED <<rows, objects, clock, command, disp, query, history>>

SaveReady(c) ==
    /\ Goto(c, "indexed", "publish")
    /\ MayBecome(seen[c].target, "ready")
    /\ versions' = [versions EXCEPT ![c] = "ready"]
    /\ UNCHANGED <<doc, objectKey, opStatus, lastDelete, cleanup, due, objects, index,
                   clock, command, disp, query, history>>

\* _record_failure for an error that is not retried.
IngestFails(c) ==
    /\ pc[c] \in {"ingesting", "parsed", "indexed"}
    /\ pc' = [pc EXCEPT ![c] = "failed"]
    /\ versions' = [versions EXCEPT ![c] = IF @ = "ingesting" THEN "failed" ELSE @]
    /\ UNCHANGED <<doc, objectKey, opStatus, lastDelete, cleanup, due, objects, index,
                   clock, command, disp, query, history>>

-----------------------------------------------------------------------------
(* Publication: validate and promote the projection, then swap the document. *)

\* rollback, first unit of work: the document and a superseded target are read.
ReadRollback(c) ==
    /\ Goto(c, "idle", "rollback")
    /\ \E v \in Versions :
        /\ versions[v] = "superseded"
        /\ target' = [target EXCEPT ![c] = v]
    /\ kind' = [kind EXCEPT ![c] = "rollback"]
    /\ expected' = [expected EXCEPT ![c] = doc.revision]
    /\ previous' = [previous EXCEPT ![c] = doc.current]
    /\ UNCHANGED <<rows, objects, index, clock, source, seen, disp, query, history>>

\* rollback, second unit of work: the operation is added.
AddRollback(c) ==
    /\ Goto(c, "rollback", "publish")
    /\ opStatus' = [opStatus EXCEPT ![c] = "pending"]
    /\ UNCHANGED <<doc, versions, objectKey, lastDelete, cleanup, due, objects, index,
                   clock, command, disp, query, history>>

StatusOf(v) == IF v = None THEN "absent" ELSE versions[v]

\* complete_ingestion: load, refuse a document that is not active or has moved.
LoadPublication(c) ==
    /\ Goto(c, "publish", "checked")
    /\ opStatus[c] = "pending"
    /\ doc.status = "active"
    /\ doc.revision = expected[c]
    /\ seen' = [seen EXCEPT ![c] = [target |-> versions[target[c]],
                                    previous |-> StatusOf(previous[c])]]
    /\ UNCHANGED <<rows, objects, index, clock, kind, expected, target, previous,
                   source, disp, query, history>>

\* validate_document_version counts the target's records.
Validate(c) ==
    /\ Goto(c, "checked", "validated")
    /\ target[c] \in indexed
    /\ UNCHANGED <<rows, objects, index, clock, command, disp, query, history>>

\* promote_document_version under the fencing token expected + 1: a higher
\* token on the records turns it into a no-op, missing records into an error.
Promote(c) ==
    LET v == target[c]
        fence == expected[c] + 1
        passes == token[v] <= fence
    IN
    /\ Goto(c, "validated", "promoted")
    /\ v \in indexed
    /\ searchable' = IF passes THEN searchable \cup {v} ELSE searchable
    /\ token' = [token EXCEPT ![v] = IF passes THEN fence ELSE @]
    /\ UNCHANGED <<rows, objects, indexed, clock, command, disp, query, history>>

\* Mutant: the version that enters service is not saved as ready.
PublishPointerOnly(c) ==
    /\ kind[c] # "restore"
    /\ Goto(c, "promoted", "retire")
    /\ MayBecome(seen[c].target, "ready")
    /\ CompareAndSwap(expected[c], "active", target[c], NoDeadline)
    /\ versions' = [u \in Versions |-> IF u = previous[c] THEN "superseded"
                                       ELSE versions[u]]
    /\ opStatus' = [opStatus EXCEPT ![c] = "succeeded"]
    /\ UNCHANGED <<objectKey, lastDelete, cleanup, due, objects, index, clock, command,
                   disp, query, kept, overdue>>

\* complete_ingestion: one transaction saves both versions, swaps the document
\* and completes the operation.
Publish(c) ==
    LET v == target[c]
        p == previous[c]
        retires == p # None /\ p # v
    IN
    /\ kind[c] # "restore"
    /\ Goto(c, "promoted", IF retires THEN "retire" ELSE "done")
    /\ MayBecome(seen[c].target, "ready")
    /\ retires => MayBecome(seen[c].previous, "superseded")
    /\ CompareAndSwap(expected[c], "active", v, NoDeadline)
    /\ versions' = [u \in Versions |-> IF u = v THEN "ready"
                                       ELSE IF retires /\ u = p THEN "superseded"
                                       ELSE versions[u]]
    /\ opStatus' = [opStatus EXCEPT ![c] = "succeeded"]
    /\ UNCHANGED <<objectKey, lastDelete, cleanup, due, objects, index, clock, command,
                   disp, query, kept, overdue>>

\* Mutant: every projection but the one just published is deactivated.
RetireOthers(c) ==
    /\ Goto(c, "retire", "done")
    /\ searchable' = searchable \cap {target[c]}
    /\ UNCHANGED <<rows, objects, indexed, token, clock, command, disp, query,
                   history>>

\* The projection of the version a publication or a delete took out of service
\* is deactivated after the commit, under no fencing token.
Retire(c) ==
    /\ Goto(c, "retire", "done")
    /\ searchable' = searchable \ {previous[c]}
    /\ UNCHANGED <<rows, objects, indexed, token, clock, command, disp, query,
                   history>>

-----------------------------------------------------------------------------
(* Soft delete and restore.                                                  *)

RequestDelete(c) ==
    /\ Goto(c, "idle", "retire")
    /\ doc.status = "active"
    /\ doc.current # None
    /\ CompareAndSwap(doc.revision, "delete_pending", None, clock + Retention)
    /\ kind' = [kind EXCEPT ![c] = "delete"]
    /\ expected' = [expected EXCEPT ![c] = doc.revision]
    /\ target' = [target EXCEPT ![c] = doc.current]
    /\ previous' = [previous EXCEPT ![c] = doc.current]
    /\ opStatus' = [opStatus EXCEPT ![c] = "pending"]
    /\ lastDelete' = c
    /\ kept' = {doc.current}
    /\ cleanup' = [cleanup EXCEPT ![c].status = "pending"]
    /\ due' = [due EXCEPT ![c] = clock + Retention]
    /\ UNCHANGED <<versions, objectKey, objects, index, clock, source, seen, disp,
                   query, overdue>>

\* LifecycleControlService.cancel of a deletion.  No step ever completes a DELETE
\* operation, so it may be cancelled for good; the document is not looked at, and the
\* save makes the operation the latest by updated_at.  A cancel of an update is
\* IngestionPipeline's, one of a rollback changes nothing its publication reads.
CancelDelete(d) ==
    /\ kind[d] = "delete" /\ opStatus[d] \in {"pending", "cancel_requested"}
    /\ opStatus' = [opStatus EXCEPT ![d] = "cancel_requested"]
    /\ lastDelete' = d
    /\ kept' = IF doc.status = "delete_pending" THEN kept \cup {previous[d]} ELSE kept
    /\ UNCHANGED <<doc, versions, objectKey, cleanup, due, objects, index, clock, pc,
                   command, disp, query, timeline, overdue>>

\* Mutant: any deletion of the document is undone.
AnyDeletion(d) == kind[d] = "delete" /\ opStatus[d] # "absent"

\* The last item of kind DELETE among the operations in updated_at order.
LastDeletion(d) == d = lastDelete

\* restore: read the tombstone, its deletion and the version to bring back, and
\* check that retention has not ended yet.
ReadRestore(c) ==
    /\ Goto(c, "idle", "checked")
    /\ doc.status = "delete_pending"
    /\ doc.purgeAfter # NoDeadline /\ clock < doc.purgeAfter
    /\ \E d \in Calls :
        /\ LastDeletion(d)
        /\ versions[previous[d]] # "deleted"
        /\ source' = [source EXCEPT ![c] = d]
        /\ target' = [target EXCEPT ![c] = previous[d]]
        /\ seen' = [seen EXCEPT ![c].target = versions[previous[d]]]
    /\ kind' = [kind EXCEPT ![c] = "restore"]
    /\ expected' = [expected EXCEPT ![c] = doc.revision]
    /\ UNCHANGED <<rows, objects, index, clock, previous, disp, query, history>>

\* restore, last transaction: the version, the document and the operation are
\* saved and a cleanup event that is still pending is cancelled.
CommitRestore(c) ==
    LET d == source[c] IN
    /\ kind[c] = "restore"
    /\ Goto(c, "promoted", "done")
    /\ seen[c].target \in {"ready", "superseded"}
    /\ CompareAndSwap(expected[c], "active", target[c], NoDeadline)
    /\ versions' = [versions EXCEPT ![target[c]] = "ready"]
    /\ opStatus' = [opStatus EXCEPT ![c] = "succeeded"]
    /\ cleanup' = [cleanup EXCEPT ![d].status =
                      IF @ = "pending" THEN "cancelled" ELSE @]
    /\ kept' = {}
    /\ overdue' = (overdue \/ clock >= doc.purgeAfter)
    /\ UNCHANGED <<objectKey, lastDelete, due, objects, index, clock, command, disp,
                   query>>

-----------------------------------------------------------------------------
(* The outbox dispatcher: purge_due for the cleanup events that are due.     *)

\* list_due, then one event of the list taken up.
TakeDueEvent(d) ==
    /\ disp[d].pc = "idle"
    /\ \E e \in Calls :
        /\ cleanup[e].status = "pending"
        /\ due[e] <= clock
        /\ disp' = [disp EXCEPT ![d].pc = "taken", ![d].event = e,
                                ![d].attempts = cleanup[e].attempts]
    /\ UNCHANGED <<rows, objects, index, clock, pc, command, query, history>>

\* _purge reads the document and its versions: an earlier purge is reported as
\* success, a document whose retention runs is refused for good.
ReadTombstone(d) ==
    LET expired == doc.purgeAfter # NoDeadline /\ doc.purgeAfter <= clock
        found == {v \in Versions : versions[v] # "absent"}
    IN
    /\ disp[d].pc = "taken"
    /\ disp' = IF doc.status # "deleted" /\ expired
               THEN [disp EXCEPT ![d].pc = "purging", ![d].revision = doc.revision,
                                 ![d].found = found, ![d].left = found]
               ELSE [disp EXCEPT ![d].pc = "handled",
                                 ![d].outcome = IF doc.status = "deleted"
                                                THEN "published" ELSE "dead_letter"]
    /\ UNCHANGED <<rows, objects, index, clock, pc, command, query, history>>

\* delete_document_version, one version after the other; after the last, the
\* keys the versions name, each once.
DeleteProjection(d) ==
    /\ disp[d].pc = "purging"
    /\ \E v \in disp[d].left :
        /\ indexed' = indexed \ {v}
        /\ searchable' = searchable \ {v}
        /\ token' = [token EXCEPT ![v] = 0]
        /\ disp' = IF disp[d].left = {v}
                   THEN [disp EXCEPT ![d].pc = "erasing",
                            ![d].left = {objectKey[u] : u \in disp[d].found}]
                   ELSE [disp EXCEPT ![d].left = @ \ {v}]
    /\ UNCHANGED <<rows, objects, clock, pc, command, query, history>>

DeleteObject(d) ==
    /\ disp[d].pc = "erasing"
    /\ \E k \in disp[d].left :
        /\ objects' = objects \ {k}
        /\ disp' = IF disp[d].left = {k}
                   THEN [disp EXCEPT ![d].pc = "emptied", ![d].left = {}]
                   ELSE [disp EXCEPT ![d].left = @ \ {k}]
    /\ UNCHANGED <<rows, index, clock, pc, command, query, history>>

CommitPurge(d) ==
    /\ disp[d].pc = "emptied"
    /\ CompareAndSwap(disp[d].revision, "deleted", None, doc.purgeAfter)
    /\ versions' = [v \in Versions |-> IF v \in disp[d].found THEN "deleted"
                                       ELSE versions[v]]
    /\ disp' = [disp EXCEPT ![d].pc = "handled", ![d].outcome = "published"]
    /\ kept' = {}
    /\ UNCHANGED <<objectKey, opStatus, lastDelete, cleanup, due, objects, index, clock,
                   pc, command, query, overdue>>

RetryOr(attempts, limit) == IF attempts + 1 < limit THEN "pending" ELSE "dead_letter"

\* The swap found another revision: a concurrency failure.
PurgeConflicts(d) ==
    /\ disp[d].pc = "emptied"
    /\ doc.revision # disp[d].revision
    /\ disp' = [disp EXCEPT ![d].pc = "handled",
                    ![d].outcome = RetryOr(disp[d].attempts, ConcurrencyAttempts)]
    /\ UNCHANGED <<rows, objects, index, clock, pc, command, query, history>>

\* A store times out half-way through the purge: a transient failure.
PurgeTimesOut(d) ==
    /\ disp[d].pc \in {"purging", "erasing", "emptied"}
    /\ disp' = [disp EXCEPT ![d].pc = "handled",
                    ![d].outcome = RetryOr(disp[d].attempts, MaxAttempts)]
    /\ UNCHANGED <<rows, objects, index, clock, pc, command, query, history>>

\* The event row as listed is saved with its new status, whatever it is by now;
\* the back-off of a retry is left out, so it may be taken up earlier than in the code.
SaveEvent(d) ==
    /\ disp[d].pc = "handled"
    /\ cleanup' = [cleanup EXCEPT ![disp[d].event] =
                      [status |-> disp[d].outcome, attempts |-> disp[d].attempts + 1]]
    /\ disp' = [disp EXCEPT ![d] = Resting]
    /\ UNCHANGED <<doc, versions, objectKey, opStatus, lastDelete, due, objects, index,
                   clock, pc, command, query, history>>

\* The worker process dies; the event stays due.
DispatcherCrash(d) ==
    /\ disp[d].pc # "idle"
    /\ disp' = [disp EXCEPT ![d] = Resting]
    /\ UNCHANGED <<rows, objects, index, clock, pc, command, query, history>>

-----------------------------------------------------------------------------
(* Retrieval: candidates from the index, each confirmed against the rows.    *)

Retrieve(q) ==
    /\ query[q].left = {}
    /\ query' = [query EXCEPT ![q] = [since |-> doc.revision, left |-> searchable,
                                      answer |-> {}]]
    /\ UNCHANGED <<rows, objects, index, clock, pc, command, disp, history>>

\* Mutant: a version that is ready is believed to be the current one.
ConfirmReady(q) ==
    /\ \E v \in query[q].left :
        query' = [query EXCEPT ![q].left = @ \ {v},
                               ![q].answer = IF doc.status = "active" /\ versions[v] = "ready"
                                             THEN @ \cup {v} ELSE @]
    /\ UNCHANGED <<rows, objects, index, clock, pc, command, disp, history>>

Confirm(q) ==
    /\ \E v \in query[q].left :
        LET authoritative == doc.status = "active" /\ doc.current = v IN
        query' = [query EXCEPT ![q].left = @ \ {v},
                               ![q].answer = IF authoritative THEN @ \cup {v} ELSE @]
    /\ UNCHANGED <<rows, objects, index, clock, pc, command, disp, history>>

Tick ==
    /\ clock < MaxClock
    /\ clock' = clock + 1
    /\ UNCHANGED <<rows, objects, index, pc, command, disp, query, history>>

-----------------------------------------------------------------------------
CommandStep(c) ==
    \/ PutSource(c)      \/ ReadCurrent(c)   \/ Register(c)
    \/ LoadJob(c)        \/ MarkIngesting(c) \/ ParseSource(c)
    \/ WriteCandidate(c) \/ SaveReady(c)     \/ IngestFails(c)
    \/ ReadRollback(c)   \/ AddRollback(c)
    \/ LoadPublication(c) \/ Validate(c)     \/ Promote(c)
    \/ Publish(c)        \/ Retire(c)
    \/ RequestDelete(c)  \/ ReadRestore(c)   \/ CommitRestore(c)

DispatcherStep(d) ==
    \/ TakeDueEvent(d)  \/ ReadTombstone(d)  \/ DeleteProjection(d)
    \/ DeleteObject(d)  \/ CommitPurge(d)    \/ PurgeConflicts(d)
    \/ PurgeTimesOut(d) \/ SaveEvent(d)      \/ DispatcherCrash(d)

Next ==
    \/ \E c \in Calls : CommandStep(c) \/ CancelDelete(c)
    \/ \E d \in Dispatchers : DispatcherStep(d)
    \/ \E q \in Readers : Retrieve(q) \/ Confirm(q)
    \/ Tick

Spec == Init /\ [][Next]_vars

-----------------------------------------------------------------------------
(* Properties.                                                               *)

CleanupEvent  == [status : EventStatus, attempts : Nat]
VersionsSeen  == [target : VersionStatus, previous : VersionStatus]
DispatchPhase == {"idle", "taken", "purging", "erasing", "emptied", "handled"}
Outcome       == {"pending", "published", "dead_letter"}
Dispatch == [pc : DispatchPhase, event : Calls \cup {None}, attempts : Nat,
             revision : Nat, found : SUBSET Versions, left : SUBSET Versions,
             outcome : Outcome]
Request  == [since : Nat, left : SUBSET Versions, answer : SUBSET Versions]

\* The shape of every row and every local variable.
TypeOK ==
    /\ doc \in [status : DocStatus, current : Versions \cup {None},
                revision : Nat, purgeAfter : Nat]
    /\ versions \in [Versions -> VersionStatus]
    /\ objectKey \in [Versions -> Versions]
    /\ opStatus \in [Calls -> OpStatus]
    /\ lastDelete \in Calls \cup {None}
    /\ cleanup \in [Calls -> CleanupEvent]
    /\ due \in [Calls -> Nat]
    /\ objects \subseteq Versions
    /\ indexed \subseteq Versions
    /\ searchable \subseteq indexed
    /\ token \in [Versions -> Nat]
    /\ clock \in 0..MaxClock
    /\ pc \in [Calls -> Phase]
    /\ kind \in [Calls -> {"update", "reparse", "rollback", "delete", "restore"}]
    /\ expected \in [Calls -> Nat]
    /\ target \in [Calls -> Versions]
    /\ previous \in [Calls -> Versions \cup {None}]
    /\ source \in [Calls -> Versions]
    /\ seen \in [Calls -> VersionsSeen]
    /\ disp \in [Dispatchers -> Dispatch]
    /\ query \in [Readers -> Request]
    /\ timeline \in Seq(Versions \cup {None})
    /\ kept \subseteq Versions
    /\ overdue \in BOOLEAN

WasServed(v) == \E r \in 1..Len(timeline) : timeline[r] = v

\* What an active document exposes is a version that finished ingestion, and a
\* document that is not active exposes nothing, although version rows are saved
\* blindly by the worker, the publisher, restore and purge.
CurrentIsReady ==
    IF doc.status = "active"
    THEN doc.current # None /\ versions[doc.current] = "ready"
    ELSE doc.current = None

\* A delete hid the version, and the restore that followed brought back another.
PassedOver(v) ==
    \E r \in 2..Len(timeline) - 1 :
        timeline[r] = None /\ timeline[r - 1] = v /\ timeline[r + 1] \notin {None, v}

\* What an earlier version is now: superseded, or still ready if it is one that a
\* restore passed over.
Retired(v) == versions[v] = "superseded" \/ (versions[v] = "ready" /\ PassedOver(v))

\* While a document is active, every version it served before is superseded:
\* one commit retires exactly what the other commits put in service.  Left out is
\* only what a restore passed over, once an older deletion was cancelled: it stays
\* ready (see RestoreUndoesDelete).
OthersAreSuperseded ==
    doc.status = "active" =>
        \A v \in Versions : WasServed(v) /\ v # doc.current => Retired(v)

\* Commands that read the same document revision cannot both take effect, and
\* the one that does is what the next revision exposes.
OneWinnerPerRevision ==
    \A c \in Calls : pc[c] \in {"retire", "done"} =>
        /\ expected[c] < Len(timeline)
        /\ timeline[expected[c] + 1] = IF kind[c] = "delete" THEN None ELSE target[c]
        /\ \A e \in Calls \ {c} :
               pc[e] \in {"retire", "done"} => expected[e] # expected[c]

\* The index is read once, the rows later: an answer still holds only versions
\* the document exposed at some moment of the request.
AnswersWereCurrent ==
    \A q \in Readers : \A v \in query[q].answer :
        \E r \in query[q].since..Len(timeline) : timeline[r] = v

Content(v) == v \in indexed /\ objectKey[v] \in objects

\* The records and the source object of what a document exposes, or of what a
\* restore may still bring back, are never deleted - unless a restore has
\* committed after the retention it had checked.
KeptWhileRecoverable ==
    ~overdue =>
        /\ doc.status = "active" => Content(doc.current)
        /\ doc.status = "delete_pending" /\ clock < doc.purgeAfter
              => \A v \in kept \cup {timeline[Len(timeline) - 1]} : Content(v)

\* A version in service for the first time is searchable: no late step of an
\* earlier publication, no stale promotion and no fencing token hides it.
FirstPublicationSearchable ==
    doc.status = "active" /\ (\A r \in 1..Len(timeline) - 1 : timeline[r] # doc.current)
        => doc.current \in searchable

\* Documented: a restored document is not reclaimed by the cleanup event of the
\* delete it undoes.  It is: restore checks the retention only when it starts,
\* and a purge deletes records and objects before it compares the revision.
RestoredIsNotReclaimed == doc.status = "active" => Content(doc.current)

\* Documented: a restore brings back the version its delete hid.  It need not: it
\* undoes the DELETE operation saved last, and a cancel saves an operation of a delete
\* that was undone long ago.
RestoreUndoesDelete ==
    \A r \in 2..Len(timeline) - 1 :
        timeline[r] = None => timeline[r + 1] \in {None, timeline[r - 1]}

\* Seen through its rows, the whole protocol is a ServedDocument: whatever the
\* interleaving of workers, publishers, restores, cancels and purges, one version
\* after the other is served, a restore brings back exactly what the last delete
\* hid - or what a deletion cancelled since had hidden -, and only an expired
\* tombstone is erased, for good.
Promise == INSTANCE ServedDocument WITH
    First    <- InitVersion,
    phase    <- doc.status,
    shown    <- doc.current,
    past     <- {timeline[r] : r \in 1..Len(timeline)} \ {None},
    deadline <- doc.purgeAfter,
    now      <- clock

ImplementsServedDocument == Promise!Spec
=============================================================================
