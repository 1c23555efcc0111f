---------------------------- MODULE LifecycleBatch ----------------------------
(***************************************************************************)
(* A batch over lifecycle operations: created once per idempotency key and *)
(* refreshed from its operations' statuses, which a refresh reads one      *)
(* after the other while publications and cancels go on.  Nothing is       *)
(* compared when a row is saved: the batch's by overlapping refreshes, an  *)
(* operation's by its publication and by a cancel.                         *)
(***************************************************************************)
EXTENDS Naturals, FiniteSets

CONSTANTS
    Operations, \* the batch's operation_ids
    Requests    \* create (all with one key) and refresh requests, each used once

ASSUME BatchAssumption == IsFiniteSet(Operations)

VARIABLES
    kind,       \* the batch's kind: an update, reparse or rollback is "publish"
    operation,  \* the status of each operation
    publisher,  \* complete_ingestion of each operation
    canceller,  \* cancel of each operation, at most one
    batch,      \* the LifecycleBatch row
    asked,      \* where each request is, and what a refresh has counted
    published,  \* history: operations that were saved as succeeded
    reopened    \* history: those a cancel was saved over

batchVars == <<kind, operation, publisher, canceller, batch, asked, published, reopened>>

Classes == {"succeeded", "failed", "cancelled", "open"}
Nothing == [c \in Classes |-> 0]
NoRow   == [status |-> "absent", counts |-> Nothing]
NewRow  == [status |-> "pending", counts |-> Nothing]
Unasked == [pc |-> "idle", left |-> Operations, counts |-> Nothing, since |-> {}]

\* A delete is left as it is added; a restore is added as succeeded, and so is a purge.
\* The batch may have been created already.
BatchInit ==
    /\ kind \in {"publish", "delete", "restore"}
    /\ operation = [o \in Operations |-> IF kind = "restore" THEN "succeeded" ELSE "pending"]
    /\ published = IF kind = "restore" THEN Operations ELSE {}
    /\ publisher = [o \in Operations |-> "idle"]
    /\ canceller = [o \in Operations |-> "idle"]
    /\ batch \in {NoRow, NewRow}
    /\ asked = [q \in Requests |-> Unasked]
    /\ reopened = {}

-----------------------------------------------------------------------------
(* The operations.                                                           *)

\* complete_ingestion answers an operation that has succeeded; once one is published
\* the document's revision refuses it.  A cancel after the worker's last check, or of
\* a rollback, is not looked at ...
LoadOperation(o) ==
    /\ kind = "publish" /\ publisher[o] = "idle" /\ o \notin published
    /\ publisher' = [publisher EXCEPT ![o] = "loaded"]
    /\ UNCHANGED <<kind, operation, canceller, batch, asked, published, reopened>>

\* ... and overwritten by the commit, unless the publication raises on the way.
CompleteOperation(o) ==
    /\ publisher[o] = "loaded"
    /\ publisher' = [publisher EXCEPT ![o] = "idle"]
    /\ \/ /\ operation' = [operation EXCEPT ![o] = "succeeded"]
          /\ published' = published \cup {o}
       \/ UNCHANGED <<operation, published>>
    /\ UNCHANGED <<kind, canceller, batch, asked, reopened>>

ReadOperation(o) ==
    /\ canceller[o] = "idle" /\ operation[o] # "succeeded"
    /\ canceller' = [canceller EXCEPT ![o] = "read"]
    /\ UNCHANGED <<kind, operation, publisher, batch, asked, published, reopened>>

SaveCancel(o) ==
    /\ canceller[o] = "read"
    /\ canceller' = [canceller EXCEPT ![o] = "saved"]
    /\ operation' = [operation EXCEPT ![o] = "cancel_requested"]
    /\ reopened' = IF operation[o] = "succeeded" THEN reopened \cup {o} ELSE reopened
    /\ UNCHANGED <<kind, publisher, batch, asked, published>>

-----------------------------------------------------------------------------
(* LifecycleBatchService.                                                    *)

Moves(q, from, to) == asked[q].pc = from /\ asked' = [asked EXCEPT ![q].pc = to]

\* create: a batch with the key is answered as it is, ...
LookUpBatch(q) ==
    /\ Moves(q, "idle", IF batch = NoRow THEN "add" ELSE "created")
    /\ UNCHANGED <<kind, operation, publisher, canceller, batch, published, reopened>>

\* ... and one that another request has added by now is a conflict.
AddBatch(q) ==
    /\ Moves(q, "add", IF batch = NoRow THEN "created" ELSE "raised")
    /\ batch' = IF batch = NoRow THEN NewRow ELSE batch
    /\ UNCHANGED <<kind, operation, publisher, canceller, published, reopened>>

BeginRefresh(q) ==
    /\ asked[q].pc = "idle" /\ batch # NoRow
    /\ asked' = [asked EXCEPT ![q].pc = "count",
                              ![q].since = {o \in Operations : operation[o] = "succeeded"}]
    /\ UNCHANGED <<kind, operation, publisher, canceller, batch, published, reopened>>

\* Mutant: a cancel that is requested is taken for one that is done.
ClassAtOnce(status) ==
    CASE status = "succeeded" -> "succeeded"
      [] status \in {"failed", "dead_letter"} -> "failed"
      [] status \in {"cancelled", "cancel_requested"} -> "cancelled"
      [] OTHER -> "open"

ClassOf(status) ==
    CASE status = "succeeded" -> "succeeded"
      [] status \in {"failed", "dead_letter"} -> "failed"
      [] status = "cancelled" -> "cancelled"
      [] OTHER -> "open"

ReadChild(q, o) ==
    /\ asked[q].pc = "count" /\ o \in asked[q].left
    /\ asked' = [asked EXCEPT ![q].left = @ \ {o},
                              ![q].counts[ClassOf(operation[o])] = @ + 1]
    /\ UNCHANGED <<kind, operation, publisher, canceller, batch, published, reopened>>

StatusOf(counts) ==
    LET all == Cardinality(Operations)
    IN  IF counts.succeeded + counts.failed + counts.cancelled < all THEN "running"
        ELSE IF counts.cancelled = all THEN "cancelled"
        ELSE IF counts.succeeded = all THEN "succeeded"
        ELSE IF counts.succeeded > 0 THEN "partial_success"
        ELSE "failed"

SaveRefresh(q) ==
    /\ asked[q].left = {}
    /\ Moves(q, "count", "refreshed")
    /\ batch' = [status |-> StatusOf(asked[q].counts), counts |-> asked[q].counts]
    /\ UNCHANGED <<kind, operation, publisher, canceller, published, reopened>>

\* A transaction fails, or the process dies.
Aborts(q) ==
    /\ \E pc \in {"add", "count"} : Moves(q, pc, "raised")
    /\ UNCHANGED <<kind, operation, publisher, canceller, batch, published, reopened>>

BatchNext ==
    \/ \E o \in Operations : \/ LoadOperation(o) \/ CompleteOperation(o)
                             \/ ReadOperation(o) \/ SaveCancel(o)
    \/ \E q \in Requests : \/ LookUpBatch(q) \/ AddBatch(q) \/ BeginRefresh(q)
                           \/ \E o \in Operations : ReadChild(q, o)
                           \/ SaveRefresh(q) \/ Aborts(q)

BatchSpec == BatchInit /\ [][BatchNext]_batchVars

-----------------------------------------------------------------------------
(* Properties.                                                               *)

\* The shape of the rows and of the requests.
BatchTypeOK ==
    /\ operation \in [Operations -> {"pending", "cancel_requested", "succeeded"}]
    /\ batch.status \in {"absent", "pending", "running", "succeeded", "partial_success",
                         "failed", "cancelled"}
    /\ \A q \in Requests : asked[q].left \subseteq Operations
    /\ published \subseteq Operations /\ reopened \subseteq published

\* A batch tells what its operations did, though a refresh reads them one after the
\* other while they move and overlapping refreshes overwrite each other: it ends only
\* when every operation has been published, it never counts one that was not, and a
\* refresh counts every one that had succeeded when it began, unless a cancel was
\* saved over it (LifecycleBatchService.refresh).
BatchTellsTruth ==
    /\ batch.status \notin {"absent", "pending", "running"} => published = Operations
    /\ batch.counts.succeeded <= Cardinality(published)
    /\ \A q \in Requests : asked[q].pc = "refreshed" =>
          asked[q].counts.succeeded >= Cardinality(asked[q].since \ reopened)
=============================================================================
