------------------------ MODULE DocumentLifecycleSafety ------------------------
(***************************************************************************)
(* The safety of DocumentLifecycle, for any number of requests,            *)
(* dispatchers and readers, any retention and any bound on the clock: its  *)
(* types, and one inductive invariant from which the invariants about the  *)
(* rows and the refinement of ServedDocument follow.  Its idea: a command  *)
(* that has not committed says nothing of the document but what the        *)
(* timeline says at the revision it read; as long as that revision is the  *)
(* last one, what it read is still so.                                     *)
(***************************************************************************)
EXTENDS DocumentLifecycle, TLAPS

-----------------------------------------------------------------------------
(* Type correctness.                                                         *)

\* A delete is one step: once its kind is recorded it has committed, and it has
\* remembered the version it took out of service.  This is what makes the
\* version a restore brings back a version at all.
DeleteShape ==
    /\ \A c \in Calls : kind[c] = "delete" => /\ pc[c] \in {"retire", "done"}
                                              /\ previous[c] \in Versions
    /\ lastDelete # None => kind[lastDelete] = "delete"

TypeInv == TypeOK /\ DeleteShape

\* The statuses and names every step below writes belong to their types.
LEMMA Names ==
    /\ InitVersion \in Versions /\ Calls \subseteq Versions /\ None \notin Versions
    /\ {"absent", "registered", "ingesting", "ready", "failed", "superseded",
        "deleted"} \subseteq VersionStatus
    /\ {"absent", "pending", "published", "cancelled", "dead_letter"}
          \subseteq EventStatus
    /\ Outcome \subseteq EventStatus
    /\ {"absent", "pending", "cancel_requested", "succeeded"} \subseteq OpStatus
BY NamesAssumption DEF Versions, VersionStatus, EventStatus, Outcome, OpStatus

\* The rows as the first upload leaves them.
LEMMA InitTypeInv == Init => TypeInv
<1> SUFFICES ASSUME Init PROVE TypeInv
  OBVIOUS
<1>1. cleanup \in [Calls -> CleanupEvent]
  BY Names DEF Init, CleanupEvent
<1>2. seen \in [Calls -> VersionsSeen]
  BY Names DEF Init, VersionsSeen
<1>3. disp \in [Dispatchers -> Dispatch]
  BY DEF Init, Resting, Dispatch, DispatchPhase, Outcome
<1>4. query \in [Readers -> Request]
  BY DEF Init, Request
<1>5. timeline \in Seq(Versions \cup {None})
  BY Names DEF Init
<1>a. doc \in [status : DocStatus, current : Versions \cup {None},
               revision : Nat, purgeAfter : Nat]
  BY Names DEF Init, DocStatus, NoDeadline
<1>b. versions \in [Versions -> VersionStatus]
  BY Names DEF Init
<1>c. /\ objectKey \in [Versions -> Versions] /\ token \in [Versions -> Nat]
      /\ objects \subseteq Versions /\ indexed \subseteq Versions
      /\ searchable \subseteq indexed
  BY Names DEF Init
<1>d. /\ opStatus \in [Calls -> OpStatus]
      /\ due \in [Calls -> Nat] /\ pc \in [Calls -> Phase]
      /\ kind \in [Calls -> {"update", "reparse", "rollback", "delete", "restore"}]
      /\ expected \in [Calls -> Nat] /\ target \in [Calls -> Versions]
      /\ previous \in [Calls -> Versions \cup {None}]
      /\ source \in [Calls -> Versions]
      /\ lastDelete \in Calls \cup {None} /\ kept \subseteq Versions
  BY Names DEF Init, Phase
<1>e. clock \in 0..MaxClock
  BY BoundsAssumption DEF Init
<1>f. overdue \in BOOLEAN
  BY Zenon DEF Init
<1>6. TypeOK
  BY <1>1, <1>2, <1>3, <1>4, <1>5, <1>a, <1>b, <1>c, <1>d, <1>e, <1>f, Zenon DEF TypeOK
<1>7. DeleteShape
  BY DEF Init, DeleteShape
<1> QED
  BY <1>6, <1>7 DEF TypeInv

\* A compare-and-swap that goes through leaves a well-formed row.
LEMMA SwapType ==
  ASSUME TypeOK, NEW revision \in Nat, NEW status \in DocStatus,
         NEW current \in Versions \cup {None}, NEW deadline \in Nat,
         CompareAndSwap(revision, status, current, deadline)
  PROVE  /\ doc' \in [status : DocStatus, current : Versions \cup {None},
                      revision : Nat, purgeAfter : Nat]
         /\ timeline' \in Seq(Versions \cup {None})
BY DEF TypeOK, CompareAndSwap

\* The steps of a registration and of the ingestion worker.
LEMMA IngestionTypeInv ==
  ASSUME TypeInv, NEW c \in Calls,
         \/ PutSource(c)      \/ ReadCurrent(c)   \/ Register(c)
         \/ LoadJob(c)        \/ MarkIngesting(c) \/ ParseSource(c)
         \/ WriteCandidate(c) \/ SaveReady(c)     \/ IngestFails(c)
  PROVE  TypeInv'
<1> USE Names DEF Goto, rows, index, command, history
<1>1. CASE PutSource(c)
  BY <1>1 DEF PutSource, TypeInv, TypeOK, DeleteShape, Phase
<1>2. CASE ReadCurrent(c)
  BY <1>2 DEF ReadCurrent, TypeInv, TypeOK, DeleteShape, Phase
<1>3. CASE Register(c)
  BY <1>3 DEF Register, TypeInv, TypeOK, DeleteShape, Phase
<1>4. CASE LoadJob(c)
  <2>1. versions[c] \in VersionStatus /\ seen \in [Calls -> VersionsSeen]
    BY DEF TypeInv, TypeOK
  <2>2. seen' = [seen EXCEPT ![c].target = versions[c]]
    BY <1>4 DEF LoadJob
  <2>3. seen' \in [Calls -> VersionsSeen]
    BY <2>1, <2>2 DEF VersionsSeen
  <2> QED
    BY <1>4, <2>3 DEF LoadJob, TypeInv, TypeOK, DeleteShape, Phase
<1>5. CASE MarkIngesting(c)
  <2>1. versions \in [Versions -> VersionStatus] /\ seen \in [Calls -> VersionsSeen]
    BY DEF TypeInv, TypeOK
  <2>2. \/ versions' = versions /\ seen' = seen
        \/ /\ versions' = [versions EXCEPT ![c] = "ingesting"]
           /\ seen' = [seen EXCEPT ![c].target = "ingesting"]
    BY <1>5 DEF MarkIngesting
  <2>3. versions' \in [Versions -> VersionStatus]
    BY <2>1, <2>2
  <2>4. seen' \in [Calls -> VersionsSeen]
    BY <2>1, <2>2 DEF VersionsSeen
  <2> QED
    BY <1>5, <2>3, <2>4 DEF MarkIngesting, TypeInv, TypeOK, DeleteShape, Phase
<1>6. CASE ParseSource(c)
  BY <1>6 DEF ParseSource, TypeInv, TypeOK, DeleteShape, Phase
<1>7. CASE WriteCandidate(c)
  BY <1>7 DEF WriteCandidate, TypeInv, TypeOK, DeleteShape, Phase
<1>8. CASE SaveReady(c)
  BY <1>8 DEF SaveReady, TypeInv, TypeOK, DeleteShape, Phase
<1>9. CASE IngestFails(c)
  BY <1>9 DEF IngestFails, TypeInv, TypeOK, DeleteShape, Phase
<1> QED
  BY <1>1, <1>2, <1>3, <1>4, <1>5, <1>6, <1>7, <1>8, <1>9

\* The steps of a rollback and of the publisher.
LEMMA PublicationTypeInv ==
  ASSUME TypeInv, NEW c \in Calls,
         \/ ReadRollback(c) \/ AddRollback(c) \/ LoadPublication(c)
         \/ Validate(c)     \/ Promote(c)     \/ Publish(c) \/ Retire(c)
  PROVE  TypeInv'
<1> USE Names DEF Goto, rows, index, command, history
<1>1. CASE ReadRollback(c)
  <2>1. PICK v \in Versions : target' = [target EXCEPT ![c] = v]
    BY <1>1 DEF ReadRollback
  <2>2. target' \in [Calls -> Versions]
    BY <2>1 DEF TypeInv, TypeOK
  <2> QED
    BY <1>1, <2>2 DEF ReadRollback, TypeInv, TypeOK, DeleteShape, Phase
<1>2. CASE AddRollback(c)
  BY <1>2 DEF AddRollback, TypeInv, TypeOK, DeleteShape, Phase
<1>3. CASE LoadPublication(c)
  <2>1. versions[target[c]] \in VersionStatus /\ StatusOf(previous[c]) \in VersionStatus
    BY DEF TypeInv, TypeOK, StatusOf
  <2>2. seen' \in [Calls -> VersionsSeen]
    BY <1>3, <2>1 DEF LoadPublication, TypeInv, TypeOK, VersionsSeen
  <2> QED
    BY <1>3, <2>2 DEF LoadPublication, TypeInv, TypeOK, DeleteShape, Phase
<1>4. CASE Validate(c)
  BY <1>4 DEF Validate, TypeInv, TypeOK, DeleteShape, Phase
<1>5. CASE Promote(c)
  <2>1. token' \in [Versions -> Nat] /\ searchable' \subseteq indexed
    <3>1. target[c] \in Versions /\ expected[c] + 1 \in Nat
      BY DEF TypeInv, TypeOK
    <3> QED
      BY <1>5, <3>1 DEF Promote, TypeInv, TypeOK
  <2>2. pc' \in [Calls -> Phase]
    BY <1>5 DEF Promote, TypeInv, TypeOK, Phase
  <2>3. UNCHANGED <<rows, objects, indexed, clock, command, disp, query, history>>
    BY <1>5 DEF Promote
  <2>4. DeleteShape'
    BY <1>5, <2>2, <2>3 DEF Promote, TypeInv, TypeOK, DeleteShape
  <2> QED
    BY <2>1, <2>2, <2>3, <2>4 DEF TypeInv, TypeOK
<1>6. CASE Publish(c)
  <2>1. CompareAndSwap(expected[c], "active", target[c], NoDeadline)
    BY <1>6 DEF Publish
  <2>2. /\ doc' \in [status : DocStatus, current : Versions \cup {None},
                     revision : Nat, purgeAfter : Nat]
        /\ timeline' \in Seq(Versions \cup {None})
    BY <2>1, SwapType DEF TypeInv, TypeOK, DocStatus, NoDeadline
  <2>3. versions' \in [Versions -> VersionStatus]
    BY <1>6 DEF Publish, TypeInv, TypeOK
  <2> QED
    BY <1>6, <2>2, <2>3 DEF Publish, TypeInv, TypeOK, DeleteShape, Phase
<1>7. CASE Retire(c)
  BY <1>7 DEF Retire, TypeInv, TypeOK, DeleteShape, Phase
<1> QED
  BY <1>1, <1>2, <1>3, <1>4, <1>5, <1>6, <1>7

\* Soft delete and restore.
LEMMA DeletionTypeInv ==
  ASSUME TypeInv, NEW c \in Calls,
         RequestDelete(c) \/ ReadRestore(c) \/ CommitRestore(c) \/ CancelDelete(c)
  PROVE  TypeInv'
<1> USE Names DEF Goto, rows, index, command, history
<1>a. clock \in 0..MaxClock /\ TypeOK
  BY Zenon DEF TypeInv, TypeOK
<1>b. clock \in Nat
  BY <1>a, BoundsAssumption
<1>0. /\ cleanup \in [Calls -> CleanupEvent] /\ seen \in [Calls -> VersionsSeen]
      /\ due \in [Calls -> Nat] /\ clock \in Nat /\ expected \in [Calls -> Nat]
      /\ target \in [Calls -> Versions] /\ previous \in [Calls -> Versions \cup {None}]
      /\ source \in [Calls -> Versions] /\ versions \in [Versions -> VersionStatus]
      /\ doc.current \in Versions \cup {None} /\ doc.revision \in Nat
      /\ TypeOK
  BY <1>a, <1>b DEF TypeOK
<1>1. CASE RequestDelete(c)
  <2>1. CompareAndSwap(doc.revision, "delete_pending", None, clock + Retention)
    BY <1>1 DEF RequestDelete
  <2>2. clock + Retention \in Nat /\ "delete_pending" \in DocStatus
    BY <1>0, BoundsAssumption DEF DocStatus
  <2>3. /\ doc' \in [status : DocStatus, current : Versions \cup {None},
                     revision : Nat, purgeAfter : Nat]
        /\ timeline' \in Seq(Versions \cup {None})
    BY <2>1, <2>2, <1>0, SwapType
  <2>4. cleanup' = [cleanup EXCEPT ![c].status = "pending"]
    BY <1>1 DEF RequestDelete
  <2>5. cleanup' \in [Calls -> CleanupEvent]
    BY <2>4, <1>0 DEF CleanupEvent
  <2>6. due' \in [Calls -> Nat]
    BY <1>1, <2>2, <1>0 DEF RequestDelete
  <2>7. /\ target' = [target EXCEPT ![c] = doc.current]
        /\ previous' = [previous EXCEPT ![c] = doc.current]
        /\ expected' = [expected EXCEPT ![c] = doc.revision]
        /\ doc.current # None
    BY <1>1 DEF RequestDelete
  <2>8. /\ target' \in [Calls -> Versions] /\ expected' \in [Calls -> Nat]
        /\ previous' \in [Calls -> Versions \cup {None}]
    BY <2>7, <1>0
  <2>9. TypeOK'
    <3>1. lastDelete' = c /\ kept' \subseteq Versions
      BY <1>1, <1>0 DEF RequestDelete
    <3> QED
      BY <1>1, <2>3, <2>5, <2>6, <2>8, <3>1 DEF RequestDelete, TypeInv, TypeOK, Phase
  <2>10. DeleteShape'
    BY <1>1, <2>7, <1>0 DEF RequestDelete, TypeInv, TypeOK, DeleteShape, Phase
  <2> QED
    BY <2>9, <2>10 DEF TypeInv
<1>2. CASE ReadRestore(c)
  <2>1. PICK d \in Calls : /\ d = lastDelete
                           /\ source' = [source EXCEPT ![c] = d]
                           /\ target' = [target EXCEPT ![c] = previous[d]]
                           /\ seen' = [seen EXCEPT ![c].target = versions[previous[d]]]
    BY <1>2 DEF ReadRestore, LastDeletion
  <2>2. previous[d] \in Versions
    BY <2>1, NamesAssumption DEF TypeInv, DeleteShape
  <2>3. source' \in [Calls -> Versions] /\ target' \in [Calls -> Versions]
    BY <2>1, <2>2, <1>0
  <2>4. versions[previous[d]] \in VersionStatus
    BY <2>2, <1>0
  <2>5. seen' \in [Calls -> VersionsSeen]
    BY <2>1, <2>4, <1>0 DEF VersionsSeen
  <2>6. TypeOK'
    BY <1>2, <2>3, <2>5 DEF ReadRestore, TypeInv, TypeOK, Phase
  <2>7. DeleteShape'
    BY <1>2 DEF ReadRestore, TypeInv, TypeOK, DeleteShape, Phase
  <2> QED
    BY <2>6, <2>7 DEF TypeInv
<1>3. CASE CommitRestore(c)
  <2>1. CompareAndSwap(expected[c], "active", target[c], NoDeadline)
    BY <1>3 DEF CommitRestore
  <2>2. expected[c] \in Nat /\ target[c] \in Versions \cup {None}
    BY <1>0
  <2>3. /\ doc' \in [status : DocStatus, current : Versions \cup {None},
                     revision : Nat, purgeAfter : Nat]
        /\ timeline' \in Seq(Versions \cup {None})
    BY <2>1, <2>2, <1>0, SwapType DEF DocStatus, NoDeadline
  <2>4. PICK status \in EventStatus :
           \/ cleanup' = cleanup
           \/ cleanup' = [cleanup EXCEPT ![source[c]].status = status]
    <3> DEFINE status == IF cleanup[source[c]].status = "pending" THEN "cancelled"
                         ELSE cleanup[source[c]].status
    <3>1. cleanup' = [cleanup EXCEPT ![source[c]].status = status]
      BY <1>3, <1>0 DEF CommitRestore, CleanupEvent
    <3>2. CASE source[c] \in Calls
      <4>1. status \in EventStatus
        BY <3>2, <1>0 DEF CleanupEvent
      <4> QED
        BY <3>1, <4>1
    <3>3. CASE source[c] \notin Calls
      BY <3>1, <3>3, <1>0
    <3> QED
      BY <3>2, <3>3
  <2>5. cleanup' \in [Calls -> CleanupEvent]
    BY <2>4, <1>0 DEF CleanupEvent
  <2>6. versions' \in [Versions -> VersionStatus]
    BY <1>3, <1>0 DEF CommitRestore
  <2>7. overdue' \in BOOLEAN /\ kept' = {}
    BY <1>3, Zenon DEF CommitRestore
  <2>8. TypeOK'
    BY <1>3, <2>3, <2>5, <2>6, <2>7 DEF CommitRestore, TypeInv, TypeOK, Phase
  <2>9. DeleteShape'
    BY <1>3 DEF CommitRestore, TypeInv, TypeOK, DeleteShape, Phase
  <2> QED
    BY <2>8, <2>9 DEF TypeInv
<1>4. CASE CancelDelete(c)
  <2>1. previous[c] \in Versions /\ kind[c] = "delete"
    BY <1>4 DEF CancelDelete, TypeInv, DeleteShape
  <2>2. kept' \subseteq Versions /\ lastDelete' = c
    BY <1>4, <2>1, <1>0 DEF CancelDelete, TypeOK
  <2>3. opStatus' \in [Calls -> OpStatus]
    BY <1>4, <1>0 DEF CancelDelete, TypeOK
  <2> QED
    BY <1>4, <2>1, <2>2, <2>3, <1>0 DEF CancelDelete, TypeInv, TypeOK, DeleteShape
<1> QED
  BY <1>1, <1>2, <1>3, <1>4

\* The outbox dispatcher.
LEMMA DispatcherTypeInv ==
  ASSUME TypeInv, NEW d \in Dispatchers, DispatcherStep(d)
  PROVE  TypeInv'
<1> USE Names DEF rows, index, command, history
<1>0. /\ disp \in [Dispatchers -> Dispatch] /\ disp[d] \in Dispatch
      /\ cleanup \in [Calls -> CleanupEvent]
      /\ versions \in [Versions -> VersionStatus]
      /\ objectKey \in [Versions -> Versions]
      /\ token \in [Versions -> Nat]
      /\ searchable \subseteq indexed /\ indexed \subseteq Versions
      /\ doc.revision \in Nat /\ doc.purgeAfter \in Nat
      /\ TypeOK /\ DeleteShape
  BY DEF TypeInv, TypeOK
<1>1. CASE TakeDueEvent(d)
  <2>1. PICK e \in Calls :
           disp' = [disp EXCEPT ![d].pc = "taken", ![d].event = e,
                                ![d].attempts = cleanup[e].attempts]
    BY <1>1 DEF TakeDueEvent
  <2>2. cleanup[e].attempts \in Nat
    BY <1>0 DEF CleanupEvent
  <2>3. disp' \in [Dispatchers -> Dispatch]
    BY <2>1, <2>2, <1>0 DEF Dispatch, DispatchPhase
  <2> QED
    BY <1>1, <2>3 DEF TakeDueEvent, TypeInv, TypeOK, DeleteShape
<1>2. CASE ReadTombstone(d)
  <2> DEFINE found == {v \in Versions : versions[v] # "absent"}
  <2>1. \/ disp' = [disp EXCEPT ![d].pc = "purging", ![d].revision = doc.revision,
                                ![d].found = found, ![d].left = found]
        \/ disp' = [disp EXCEPT ![d].pc = "handled", ![d].outcome = "published"]
        \/ disp' = [disp EXCEPT ![d].pc = "handled", ![d].outcome = "dead_letter"]
    BY <1>2 DEF ReadTombstone
  <2>2. found \in SUBSET Versions
    OBVIOUS
  <2> HIDE DEF found
  <2>3. disp' \in [Dispatchers -> Dispatch]
    <3>1. CASE disp' = [disp EXCEPT ![d].pc = "purging", ![d].revision = doc.revision,
                                    ![d].found = found, ![d].left = found]
      BY <2>2, <3>1, <1>0 DEF Dispatch, DispatchPhase
    <3>2. CASE disp' = [disp EXCEPT ![d].pc = "handled", ![d].outcome = "published"]
      BY <3>2, <1>0 DEF Dispatch, DispatchPhase, Outcome
    <3>3. CASE disp' = [disp EXCEPT ![d].pc = "handled", ![d].outcome = "dead_letter"]
      BY <3>3, <1>0 DEF Dispatch, DispatchPhase, Outcome
    <3> QED
      BY <2>1, <3>1, <3>2, <3>3
  <2> QED
    BY <1>2, <2>3 DEF ReadTombstone, TypeInv, TypeOK, DeleteShape
<1>3. CASE DeleteProjection(d)
  <2>1. PICK v \in disp[d].left :
          /\ indexed' = indexed \ {v}
          /\ searchable' = searchable \ {v}
          /\ token' = [token EXCEPT ![v] = 0]
          /\ \/ disp' = [disp EXCEPT ![d].pc = "erasing",
                            ![d].left = {objectKey[u] : u \in disp[d].found}]
             \/ disp' = [disp EXCEPT ![d].left = @ \ {v}]
    BY <1>3 DEF DeleteProjection
  <2>2. {objectKey[u] : u \in disp[d].found} \in SUBSET Versions
    BY <1>0 DEF Dispatch
  <2> DEFINE keys == {objectKey[u] : u \in disp[d].found}
  <2> HIDE DEF keys
  <2>3. disp' \in [Dispatchers -> Dispatch]
    <3>1. \/ disp' = [disp EXCEPT ![d].pc = "erasing", ![d].left = keys]
          \/ disp' = [disp EXCEPT ![d].left = disp[d].left \ {v}]
      BY <2>1 DEF keys
    <3>2. keys \in SUBSET Versions
      BY <2>2 DEF keys
    <3> QED
      BY <3>1, <3>2, <1>0 DEF Dispatch, DispatchPhase
  <2>4. /\ token' \in [Versions -> Nat] /\ indexed' \subseteq Versions
        /\ searchable' \subseteq indexed'
    BY <2>1, <1>0
  <2> QED
    BY <1>3, <2>3, <2>4 DEF DeleteProjection, TypeInv, TypeOK, DeleteShape
<1>4. CASE DeleteObject(d)
  <2>1. PICK k \in disp[d].left :
          /\ objects' = objects \ {k}
          /\ \/ disp' = [disp EXCEPT ![d].pc = "emptied", ![d].left = {}]
             \/ disp' = [disp EXCEPT ![d].left = disp[d].left \ {k}]
    BY <1>4, <1>0 DEF DeleteObject
  <2>2. disp' \in [Dispatchers -> Dispatch]
    <3>1. disp[d].left \ {k} \in SUBSET Versions
      BY <1>0 DEF Dispatch
    <3>2. CASE disp' = [disp EXCEPT ![d].pc = "emptied", ![d].left = {}]
      BY <3>2, <1>0 DEF Dispatch, DispatchPhase
    <3>3. CASE disp' = [disp EXCEPT ![d].left = disp[d].left \ {k}]
      BY <3>1, <3>3, <1>0 DEF Dispatch, DispatchPhase
    <3> QED
      BY <2>1, <3>2, <3>3
  <2> QED
    BY <1>4, <2>1, <2>2 DEF DeleteObject, TypeInv, TypeOK, DeleteShape
<1>5. CASE CommitPurge(d)
  <2>1. CompareAndSwap(disp[d].revision, "deleted", None, doc.purgeAfter)
    BY <1>5 DEF CommitPurge
  <2>2. disp[d].revision \in Nat
    BY <1>0 DEF Dispatch
  <2>3. /\ doc' \in [status : DocStatus, current : Versions \cup {None},
                     revision : Nat, purgeAfter : Nat]
        /\ timeline' \in Seq(Versions \cup {None})
    BY <2>1, <2>2, <1>0, SwapType DEF DocStatus
  <2>4. disp' = [disp EXCEPT ![d].pc = "handled", ![d].outcome = "published"]
    BY <1>5 DEF CommitPurge
  <2>5. disp' \in [Dispatchers -> Dispatch]
    BY <2>4, <1>0 DEF Dispatch, DispatchPhase, Outcome
  <2>6. versions' \in [Versions -> VersionStatus]
    BY <1>5, <1>0 DEF CommitPurge
  <2> QED
    BY <1>5, <2>3, <2>5, <2>6 DEF CommitPurge, TypeInv, TypeOK, DeleteShape
<1>6. CASE PurgeConflicts(d) \/ PurgeTimesOut(d)
  <2>1. \A limit : RetryOr(disp[d].attempts, limit) \in Outcome
    BY DEF RetryOr, Outcome
  <2>2. PICK outcome \in Outcome :
           disp' = [disp EXCEPT ![d].pc = "handled", ![d].outcome = outcome]
    BY <1>6, <2>1 DEF PurgeConflicts, PurgeTimesOut
  <2>3. disp' \in [Dispatchers -> Dispatch]
    BY <2>2, <1>0 DEF Dispatch, DispatchPhase
  <2> QED
    BY <1>6, <2>3 DEF PurgeConflicts, PurgeTimesOut, TypeInv, TypeOK, DeleteShape
<1>7. CASE SaveEvent(d)
  <2>1. /\ cleanup' = [cleanup EXCEPT ![disp[d].event] =
                         [status |-> disp[d].outcome, attempts |-> disp[d].attempts + 1]]
        /\ disp' = [disp EXCEPT ![d] = Resting]
    BY <1>7 DEF SaveEvent
  <2>2. [status |-> disp[d].outcome, attempts |-> disp[d].attempts + 1] \in CleanupEvent
    BY <1>0 DEF Dispatch, CleanupEvent, Outcome, EventStatus
  <2>3. cleanup' \in [Calls -> CleanupEvent]
    BY <2>1, <2>2, <1>0
  <2>4. Resting \in Dispatch
    BY DEF Resting, Dispatch, DispatchPhase, Outcome
  <2>5. disp' \in [Dispatchers -> Dispatch]
    BY <2>1, <2>4, <1>0
  <2> QED
    BY <1>7, <2>3, <2>5 DEF SaveEvent, TypeInv, TypeOK, DeleteShape
<1>8. CASE DispatcherCrash(d)
  <2>1. Resting \in Dispatch
    BY DEF Resting, Dispatch, DispatchPhase, Outcome
  <2>2. disp' \in [Dispatchers -> Dispatch]
    BY <1>8, <2>1, <1>0 DEF DispatcherCrash
  <2> QED
    BY <1>8, <2>2 DEF DispatcherCrash, TypeInv, TypeOK, DeleteShape
<1> QED
  BY <1>1, <1>2, <1>3, <1>4, <1>5, <1>6, <1>7, <1>8 DEF DispatcherStep

\* Retrieval requests, the clock and stuttering.
LEMMA ReaderTypeInv ==
  ASSUME TypeInv, \/ \E q \in Readers : Retrieve(q) \/ Confirm(q)
                  \/ Tick
                  \/ UNCHANGED vars
  PROVE  TypeInv'
<1> USE Names DEF rows, index, command, history
<1>0. /\ query \in [Readers -> Request] /\ doc.revision \in Nat
      /\ searchable \in SUBSET Versions
  BY DEF TypeInv, TypeOK
<1>1. ASSUME NEW q \in Readers, Retrieve(q) PROVE TypeInv'
  <2>1. query' \in [Readers -> Request]
    BY <1>1, <1>0 DEF Retrieve, Request
  <2> QED
    BY <1>1, <2>1 DEF Retrieve, TypeInv, TypeOK, DeleteShape
<1>2. ASSUME NEW q \in Readers, Confirm(q) PROVE TypeInv'
  <2>1. PICK v \in query[q].left :
          \/ query' = [query EXCEPT ![q].left = @ \ {v},
                                    ![q].answer = @ \cup {v}]
          \/ query' = [query EXCEPT ![q].left = @ \ {v}, ![q].answer = @]
    BY <1>2 DEF Confirm
  <2>2. v \in Versions
    BY <1>0 DEF Request
  <2>3. query' \in [Readers -> Request]
    BY <2>1, <2>2, <1>0 DEF Request
  <2> QED
    BY <1>2, <2>3 DEF Confirm, TypeInv, TypeOK, DeleteShape
<1>3. CASE Tick
  BY <1>3, BoundsAssumption DEF Tick, TypeInv, TypeOK, DeleteShape
<1>4. CASE UNCHANGED vars
  BY <1>4 DEF vars, TypeInv, TypeOK, DeleteShape
<1> QED
  BY <1>1, <1>2, <1>3, <1>4

\* Every step keeps the types: one case per action.
LEMMA StepTypeInv == TypeInv /\ [Next]_vars => TypeInv'
BY IngestionTypeInv, PublicationTypeInv, DeletionTypeInv, DispatcherTypeInv,
   ReaderTypeInv DEF Next, CommandStep

\* Every row and every local variable keeps its shape, whatever the
\* interleaving of commands, workers, dispatchers and readers: in particular a
\* restore always names a version, the one the deletion it undoes retired.
THEOREM TypeCorrect == Spec => []TypeOK
<1>1. Spec => []TypeInv
  BY InitTypeInv, StepTypeInv, PTL DEF Spec
<1>2. TypeInv => TypeOK
  BY DEF TypeInv
<1> QED
  BY <1>1, <1>2, PTL

-----------------------------------------------------------------------------
(* The inductive invariant.                                                  *)

Committed(c) == pc[c] \in {"retire", "done"}

\* The command has read the document and has neither committed nor failed.
Pending(c) == pc[c] \in {"queued", "loaded", "ingesting", "parsed", "indexed",
                         "rollback", "publish", "checked", "validated", "promoted"}

\* The command has checked the document and is on its way to the swap.
Checked(c) == pc[c] \in {"checked", "validated", "promoted"}

\* A command's revision is one of the timeline, and what it retires is what the
\* document exposed then.
ReadsTimeline(c) ==
    /\ expected[c] <= Len(timeline)
    /\ (Pending(c) /\ kind[c] # "restore") \/ kind[c] = "delete"
         => expected[c] >= 1 /\ previous[c] = timeline[expected[c]]

\* What a command publishes: its own candidate, or a version that was served.
PublishesItsOwn(c) ==
    /\ kind[c] \in {"update", "reparse"} => target[c] = c
    /\ kind[c] = "rollback" /\ Pending(c)
         => WasServed(target[c]) /\ target[c] # previous[c]

\* A command whose revision is still the last one may trust what it checked.
ChecksHold(c) ==
    Checked(c) /\ expected[c] = Len(timeline) =>
        IF kind[c] = "restore"
        THEN doc.status = "delete_pending" /\ target[c] \in kept
        ELSE doc.status = "active"

\* A command that committed made the revision after the one it read.
MadeRevision(c) ==
    Committed(c) => /\ expected[c] < Len(timeline)
                    /\ timeline[expected[c] + 1] =
                         IF kind[c] = "delete" THEN None ELSE target[c]

KindShape(c) ==
    /\ kind[c] = "delete" => Committed(c) /\ opStatus[c] # "absent"
    /\ kind[c] = "restore" => Checked(c) \/ Committed(c)
    /\ pc[c] \in {"idle", "stored"} => kind[c] \in {"update", "reparse"}

CallInv(c) == /\ ReadsTimeline(c) /\ PublishesItsOwn(c) /\ ChecksHold(c)
              /\ MadeRevision(c)  /\ KindShape(c)

\* No two commands made the same revision.
OneEach == \A c, e \in Calls :
    c # e /\ Committed(c) /\ Committed(e) => expected[c] # expected[e]

\* The row agrees with the end of the timeline, and a tombstone was made by the
\* delete of the revision before.
DocInv ==
    /\ Len(timeline) = doc.revision /\ doc.revision >= 1
    /\ timeline[Len(timeline)] = doc.current
    /\ doc.status = "active" <=> doc.current # None
    /\ doc.status = "active" => doc.purgeAfter = NoDeadline
    /\ doc.status = "delete_pending" =>
          \E d \in Calls : kind[d] = "delete" /\ expected[d] = Len(timeline) - 1

\* A version enters service by the commit of the command that built it.
ServedInv == \A c \in Calls : WasServed(c) => Committed(c)

\* What the document exposes, or exposed before it was hidden.
Last == IF doc.status = "active" THEN doc.current ELSE timeline[Len(timeline) - 1]

\* The deletion a restore would undo, and every version it might bring back, was in
\* service when the document was hidden.
TombstoneInv ==
    /\ \A v \in kept : v \in Versions /\ WasServed(v)
    /\ lastDelete # None => kind[lastDelete] = "delete"
    /\ doc.status = "delete_pending" => lastDelete # None /\ previous[lastDelete] \in kept

StatusInv ==
    /\ \A v \in Versions : versions[v] = "superseded" => WasServed(v)
    /\ doc.status # "deleted" =>
          /\ versions[Last] = "ready"
          /\ \A v \in Versions : WasServed(v) /\ v # Last => Retired(v)

\* A purge in progress, as long as its revision is the last one, is of a
\* tombstone whose retention is over.
PurgeInv(d) ==
    disp[d].pc \in {"purging", "erasing", "emptied"} =>
        /\ disp[d].revision <= Len(timeline)
        /\ disp[d].revision = Len(timeline) =>
              doc.status = "delete_pending" /\ doc.purgeAfter <= clock

\* An answer's versions were exposed since the request began.
AnswerInv(q) ==
    /\ query[q].since \in 1..Len(timeline)
    /\ \A v \in query[q].answer : \E r \in query[q].since..Len(timeline) : timeline[r] = v

LifecycleInv ==
    /\ TypeInv
    /\ DocInv
    /\ \A c \in Calls : CallInv(c)
    /\ OneEach
    /\ ServedInv
    /\ TombstoneInv
    /\ StatusInv
    /\ \A d \in Dispatchers : PurgeInv(d)
    /\ \A q \in Readers : AnswerInv(q)

-----------------------------------------------------------------------------
(* The frame: what a step leaves alone.                                      *)

\* The timeline only grows, and the row moves only with it.
Grows ==
    /\ Len(timeline') \in Nat /\ Len(timeline') >= Len(timeline)
    /\ \A i \in 1..Len(timeline) : timeline'[i] = timeline[i]
    /\ Len(timeline') = Len(timeline)
          => timeline' = timeline /\ doc' = doc /\ kept \subseteq kept'

\* The command's local state and its operation are left alone.
Keeps(c) ==
    /\ pc'[c] = pc[c] /\ kind'[c] = kind[c] /\ expected'[c] = expected[c]
    /\ target'[c] = target[c] /\ previous'[c] = previous[c]
    /\ opStatus[c] # "absent" => opStatus'[c] # "absent"

\* The types the safety proof needs, without the records of TypeOK.
LEMMA CommandTypes ==
  ASSUME TypeInv
  PROVE  /\ pc \in [Calls -> Phase] /\ expected \in [Calls -> Nat]
         /\ kind \in [Calls -> {"update", "reparse", "rollback", "delete", "restore"}]
         /\ target \in [Calls -> Versions] /\ previous \in [Calls -> Versions \cup {None}]
         /\ opStatus \in [Calls -> OpStatus]
         /\ versions \in [Versions -> VersionStatus]
         /\ timeline \in Seq(Versions \cup {None}) /\ Len(timeline) \in Nat
         /\ doc.revision \in Nat /\ doc.purgeAfter \in Nat
         /\ doc.current \in Versions \cup {None} /\ doc.status \in DocStatus
BY DEF TypeInv, TypeOK

\* A step that leaves the document alone leaves the timeline as it was.
LEMMA NothingGrows ==
  ASSUME TypeInv, timeline' = timeline, doc' = doc, kept \subseteq kept'
  PROVE  Grows
BY CommandTypes DEF Grows

\* A version that was served stays in the timeline.
LEMMA ServedForever ==
  ASSUME TypeInv, Grows, NEW v, WasServed(v)
  PROVE  WasServed(v)'
BY CommandTypes DEF Grows, WasServed

\* What is known of a command survives the steps of the others.
LEMMA OthersKeep ==
  ASSUME TypeInv, NEW c \in Calls, CallInv(c), Keeps(c), Grows
  PROVE  CallInv(c)'
<1> USE DEF Keeps
<1>0. /\ Len(timeline) \in Nat /\ expected[c] \in Nat /\ pc[c] \in Phase
  BY CommandTypes
<1>1. ReadsTimeline(c)'
  BY <1>0 DEF CallInv, ReadsTimeline, Pending, Grows
<1>2. PublishesItsOwn(c)'
  BY ServedForever DEF CallInv, PublishesItsOwn, Pending
<1>3. ChecksHold(c)'
  <2>1. CASE Len(timeline') = Len(timeline)
    BY <2>1 DEF CallInv, ChecksHold, Checked, Grows
  <2>2. CASE Len(timeline') # Len(timeline)
    BY <2>2, <1>0 DEF CallInv, ChecksHold, ReadsTimeline, Checked, Grows
  <2> QED
    BY <2>1, <2>2
<1>4. MadeRevision(c)'
  BY <1>0 DEF CallInv, MadeRevision, Committed, Grows
<1>5. KindShape(c)'
  BY DEF CallInv, KindShape, Committed, Checked
<1> QED
  BY <1>1, <1>2, <1>3, <1>4, <1>5 DEF CallInv

-----------------------------------------------------------------------------
(* The invariant holds initially.                                            *)

\* The document as its first upload leaves it.
LEMMA InitLifecycle == Init => LifecycleInv
<1> SUFFICES ASSUME Init PROVE LifecycleInv
  OBVIOUS
<1>1. TypeInv
  BY InitTypeInv
<1>2. /\ Len(timeline) = 1 /\ timeline[1] = InitVersion
      /\ doc.status = "active" /\ doc.current = InitVersion
      /\ doc.revision = 1 /\ doc.purgeAfter = NoDeadline
  BY DEF Init
<1>3. DocInv
  BY <1>2, Names DEF DocInv
<1>4. ASSUME NEW c \in Calls PROVE CallInv(c)
  <2>1. pc[c] = "idle" /\ kind[c] = "update" /\ expected[c] = 0 /\ target[c] = c
    BY DEF Init
  <2> QED
    BY <2>1, <1>2 DEF CallInv, ReadsTimeline, PublishesItsOwn, ChecksHold,
                      MadeRevision, KindShape, Pending, Checked, Committed
<1>5. ServedInv
  BY <1>2, NamesAssumption DEF ServedInv, WasServed
<1>10. TombstoneInv
  BY <1>2 DEF Init, TombstoneInv
<1>6. StatusInv
  <2>1. /\ \A v \in Versions : versions[v] # "superseded"
        /\ versions[InitVersion] = "ready"
    BY Names DEF Init
  <2>2. Last = InitVersion /\ \A v : WasServed(v) => v = InitVersion
    BY <1>2 DEF Last, WasServed
  <2> QED
    BY <2>1, <2>2 DEF StatusInv
<1>7. \A d \in Dispatchers : PurgeInv(d)
  BY DEF Init, Resting, PurgeInv
<1>8. OneEach
  BY DEF Init, OneEach, Committed
<1>9. \A q \in Readers : AnswerInv(q)
  <2>1. \A q \in Readers : query[q].since = 1 /\ query[q].answer = {}
    BY DEF Init
  <2> QED
    BY <2>1, <1>2 DEF AnswerInv
<1> QED
  BY <1>1, <1>3, <1>4, <1>5, <1>6, <1>7, <1>8, <1>9, <1>10 DEF LifecycleInv

-----------------------------------------------------------------------------
(* Steps of a command that do not commit.                                    *)

\* The command's own step leaves the document alone, and its version too if
\* that was ever served.
Quiet(c) ==
    /\ UNCHANGED <<doc, timeline, kept, lastDelete, disp, clock, query>>
    /\ \A e \in Calls \ {c} : Keeps(e)
    /\ Committed(c)' <=> Committed(c)
    /\ Committed(c) => /\ UNCHANGED <<kind, expected, previous>>
                       /\ opStatus[c] # "absent" => opStatus'[c] # "absent"
    /\ \A v \in Versions :
          \/ versions'[v] = versions[v]
          \/ v = c /\ ~Committed(c) /\ versions'[v] # "superseded"

\* The step moves on without changing what the command has read.
Advances(c) ==
    /\ UNCHANGED <<doc, timeline, kept, kind, expected, target, previous>>
    /\ Pending(c)' => Pending(c)
    /\ Committed(c)' <=> Committed(c)
    /\ Checked(c)' => Checked(c) \/ (doc.status = "active" /\ kind[c] # "restore")
    /\ kind[c] = "restore" => Checked(c)' \/ Committed(c)'
    /\ opStatus[c] # "absent" => opStatus'[c] # "absent"
    /\ pc'[c] \notin {"idle", "stored"}

\* A call that goes on keeps what it knows of the rows.
LEMMA AdvanceKeeps ==
  ASSUME LifecycleInv, NEW c \in Calls, Advances(c)
  PROVE  CallInv(c)'
<1> USE DEF Advances
<1>0. TypeInv /\ CallInv(c)
  BY DEF LifecycleInv
<1>1. ReadsTimeline(c)'
  BY <1>0 DEF CallInv, ReadsTimeline
<1>2. PublishesItsOwn(c)'
  BY <1>0 DEF CallInv, PublishesItsOwn, WasServed
<1>3. ChecksHold(c)'
  BY <1>0 DEF CallInv, ChecksHold
<1>4. MadeRevision(c)'
  BY <1>0 DEF CallInv, MadeRevision
<1>5. KindShape(c)'
  BY <1>0 DEF CallInv, KindShape
<1> QED
  BY <1>1, <1>2, <1>3, <1>4, <1>5 DEF CallInv

\* The worker's steps, and the checks and index calls of the publisher.
LEMMA AdvancingStep ==
  ASSUME LifecycleInv, NEW c \in Calls,
         \/ LoadJob(c)    \/ MarkIngesting(c) \/ ParseSource(c) \/ WriteCandidate(c)
         \/ SaveReady(c)  \/ IngestFails(c)   \/ AddRollback(c)
         \/ LoadPublication(c) \/ Validate(c) \/ Promote(c) \/ Retire(c)
  PROVE  Quiet(c) /\ Advances(c)
<1> USE DEF rows, index, command, history
<1>0. /\ c \in Versions /\ CallInv(c)
      /\ pc \in [Calls -> Phase] /\ opStatus \in [Calls -> OpStatus]
      /\ versions \in [Versions -> VersionStatus]
  BY CommandTypes, Names DEF LifecycleInv
<1>1. CASE LoadJob(c)
  BY <1>0, <1>1 DEF LoadJob, Goto, Quiet, Keeps, Advances, Pending, Checked,
                    Committed, CallInv, KindShape
<1>2. CASE MarkIngesting(c)
  <2>1. /\ pc[c] = "loaded" /\ pc' = [pc EXCEPT ![c] = "ingesting"]
        /\ UNCHANGED <<doc, timeline, kept, lastDelete, disp, clock, query, opStatus, kind, expected,
                       target, previous>>
        /\ versions' \in {versions, [versions EXCEPT ![c] = "ingesting"]}
    BY <1>2 DEF MarkIngesting, Goto
  <2> QED
    BY <1>0, <2>1 DEF Quiet, Keeps, Advances, Pending, Checked, Committed, CallInv,
                      KindShape
<1>3. CASE ParseSource(c)
  BY <1>0, <1>3 DEF ParseSource, Goto, Quiet, Keeps, Advances, Pending, Checked,
                    Committed, CallInv, KindShape
<1>4. CASE WriteCandidate(c)
  BY <1>0, <1>4 DEF WriteCandidate, Goto, Quiet, Keeps, Advances, Pending, Checked,
                    Committed, CallInv, KindShape
<1>5. CASE SaveReady(c)
  BY <1>0, <1>5 DEF SaveReady, Goto, Quiet, Keeps, Advances, Pending, Checked,
                    Committed, CallInv, KindShape
<1>6. CASE IngestFails(c)
  <2>1. /\ pc[c] \in {"ingesting", "parsed", "indexed"}
        /\ pc' = [pc EXCEPT ![c] = "failed"]
        /\ UNCHANGED <<doc, timeline, kept, lastDelete, disp, clock, query, opStatus, kind, expected,
                       target, previous>>
        /\ versions' \in {versions, [versions EXCEPT ![c] = "failed"]}
    BY <1>0, <1>6 DEF IngestFails
  <2> QED
    BY <1>0, <2>1 DEF Quiet, Keeps, Advances, Pending, Checked, Committed, CallInv,
                      KindShape
<1>7. CASE AddRollback(c)
  BY <1>0, <1>7 DEF AddRollback, Goto, Quiet, Keeps, Advances, Pending, Checked,
                    Committed, CallInv, KindShape
<1>8. CASE LoadPublication(c)
  BY <1>0, <1>8 DEF LoadPublication, Goto, Quiet, Keeps, Advances, Pending, Checked,
                    Committed, CallInv, KindShape
<1>9. CASE Validate(c)
  BY <1>0, <1>9 DEF Validate, Goto, Quiet, Keeps, Advances, Pending, Checked,
                    Committed, CallInv, KindShape
<1>10. CASE Promote(c)
  BY <1>0, <1>10 DEF Promote, Goto, Quiet, Keeps, Advances, Pending, Checked,
                     Committed, CallInv, KindShape
<1>11. CASE Retire(c)
  BY <1>0, <1>11 DEF Retire, Goto, Quiet, Keeps, Advances, Pending, Checked,
                     Committed, CallInv, KindShape
<1> QED
  BY <1>1, <1>2, <1>3, <1>4, <1>5, <1>6, <1>7, <1>8, <1>9, <1>10, <1>11

\* A command's first steps: the object or the object key of a candidate.
LEMMA StoringStep ==
  ASSUME LifecycleInv, NEW c \in Calls, PutSource(c) \/ ReadCurrent(c)
  PROVE  Quiet(c) /\ CallInv(c)'
<1> USE DEF rows, index, command, history
<1>0. /\ CallInv(c) /\ pc \in [Calls -> Phase]
      /\ kind \in [Calls -> {"update", "reparse", "rollback", "delete", "restore"}]
  BY CommandTypes DEF LifecycleInv
<1>1. PICK k \in {"update", "reparse"} :
        /\ pc[c] = "idle" /\ pc' = [pc EXCEPT ![c] = "stored"]
        /\ kind' = [kind EXCEPT ![c] = k]
        /\ UNCHANGED <<doc, timeline, kept, lastDelete, disp, clock, query, versions, opStatus, expected,
                       target, previous>>
  BY DEF PutSource, ReadCurrent, Goto
<1>2. Quiet(c)
  BY <1>0, <1>1 DEF Quiet, Keeps, Committed
<1>3. CallInv(c)'
  BY <1>0, <1>1 DEF CallInv, ReadsTimeline, PublishesItsOwn, ChecksHold, MadeRevision,
                    KindShape, Pending, Checked, Committed
<1> QED
  BY <1>2, <1>3

\* What the document exposes, or exposed before its deletion, was served.
LEMMA LastServed ==
  ASSUME LifecycleInv, doc.status # "deleted"
  PROVE  /\ Last \in Versions /\ WasServed(Last)
         /\ doc.status = "delete_pending" => Len(timeline) - 1 \in 1..Len(timeline)
<1>0. /\ TypeInv /\ DocInv /\ Len(timeline) \in Nat
      /\ doc.current \in Versions \cup {None} /\ doc.status \in DocStatus
  BY CommandTypes DEF LifecycleInv
<1>1. CASE doc.status = "active"
  BY <1>0, <1>1 DEF DocInv, Last, WasServed
<1>2. CASE doc.status = "delete_pending"
  <2>1. PICK d \in Calls : kind[d] = "delete" /\ expected[d] = Len(timeline) - 1
    BY <1>0, <1>2 DEF DocInv
  <2>2. /\ previous[d] \in Versions /\ previous[d] = timeline[expected[d]]
        /\ expected[d] >= 1
    BY <2>1 DEF LifecycleInv, CallInv, ReadsTimeline, TypeInv, DeleteShape
  <2> QED
    BY <1>0, <1>2, <2>1, <2>2 DEF Last, WasServed
<1> QED
  BY <1>0, <1>1, <1>2 DEF DocStatus

\* What a deletion hid was served.
LEMMA DeletedServed ==
  ASSUME LifecycleInv, NEW d \in Calls, kind[d] = "delete"
  PROVE  previous[d] \in Versions /\ WasServed(previous[d])
<1>1. /\ previous[d] \in Versions /\ CallInv(d) /\ Len(timeline) \in Nat
      /\ expected[d] \in Nat
  BY CommandTypes DEF LifecycleInv, TypeInv, DeleteShape
<1> QED
  BY <1>1 DEF CallInv, ReadsTimeline, WasServed

\* What a restore passed over stays so.
LEMMA PassedStays ==
  ASSUME TypeInv, Grows, NEW v, PassedOver(v)
  PROVE  PassedOver(v)'
<1>1. PICK r \in 2..Len(timeline) - 1 :
        timeline[r] = None /\ timeline[r - 1] = v /\ timeline[r + 1] \notin {None, v}
  BY DEF PassedOver
<1>2. Len(timeline) \in Nat /\ Len(timeline') \in Nat /\ Len(timeline') >= Len(timeline)
  BY CommandTypes DEF Grows
<1>3. {r - 1, r, r + 1} \subseteq 1..Len(timeline) /\ r \in 2..Len(timeline') - 1
  BY <1>1, <1>2
<1>4. timeline'[r] = timeline[r] /\ timeline'[r - 1] = timeline[r - 1]
      /\ timeline'[r + 1] = timeline[r + 1]
  BY <1>3 DEF Grows
<1> QED
  BY <1>1, <1>3, <1>4 DEF PassedOver

\* Register, rollback and restore read the document: what they keep of it is
\* what the timeline ends with.
LEMMA RegisterReads ==
  ASSUME LifecycleInv, NEW c \in Calls, Register(c)
  PROVE  Quiet(c) /\ CallInv(c)'
<1> USE DEF rows, index, command, history
<1>0. /\ c \in Versions /\ CallInv(c) /\ DocInv /\ Len(timeline) \in Nat
      /\ pc \in [Calls -> Phase] /\ opStatus \in [Calls -> OpStatus]
      /\ versions \in [Versions -> VersionStatus]
      /\ expected \in [Calls -> Nat] /\ previous \in [Calls -> Versions \cup {None}]
  BY CommandTypes, Names DEF LifecycleInv
<1>1. /\ pc[c] = "stored" /\ pc' = [pc EXCEPT ![c] = "queued"]
      /\ versions' = [versions EXCEPT ![c] = "registered"]
      /\ opStatus' = [opStatus EXCEPT ![c] = "pending"]
      /\ expected' = [expected EXCEPT ![c] = doc.revision]
      /\ previous' = [previous EXCEPT ![c] = doc.current]
      /\ UNCHANGED <<doc, timeline, kept, lastDelete, disp, clock, query, kind, target>>
  BY DEF Register, Goto
<1>2. Quiet(c)
  BY <1>0, <1>1 DEF Quiet, Keeps, Committed
<1>3. CallInv(c)'
  BY <1>0, <1>1 DEF CallInv, ReadsTimeline, PublishesItsOwn, ChecksHold, MadeRevision,
                    KindShape, Pending, Checked, Committed, DocInv
<1> QED
  BY <1>2, <1>3

\* A rollback starts from what it has read.
LEMMA RollbackReads ==
  ASSUME LifecycleInv, NEW c \in Calls, ReadRollback(c)
  PROVE  Quiet(c) /\ CallInv(c)'
<1> USE DEF rows, index, command, history
<1>0. /\ CallInv(c) /\ DocInv /\ StatusInv /\ Len(timeline) \in Nat
      /\ pc \in [Calls -> Phase] /\ target \in [Calls -> Versions]
      /\ kind \in [Calls -> {"update", "reparse", "rollback", "delete", "restore"}]
      /\ expected \in [Calls -> Nat] /\ previous \in [Calls -> Versions \cup {None}]
  BY CommandTypes DEF LifecycleInv
<1>1. PICK v \in Versions :
        /\ versions[v] = "superseded"
        /\ target' = [target EXCEPT ![c] = v]
  BY DEF ReadRollback
<1>2. /\ pc[c] = "idle" /\ pc' = [pc EXCEPT ![c] = "rollback"]
      /\ kind' = [kind EXCEPT ![c] = "rollback"]
      /\ expected' = [expected EXCEPT ![c] = doc.revision]
      /\ previous' = [previous EXCEPT ![c] = doc.current]
      /\ UNCHANGED <<doc, timeline, kept, lastDelete, disp, clock, query, versions, opStatus>>
  BY DEF ReadRollback, Goto
<1>3. Quiet(c)
  BY <1>0, <1>1, <1>2 DEF Quiet, Keeps, Committed
<1>4. WasServed(v) /\ v # doc.current
  <2>1. v = doc.current => versions[v] = "ready"
    BY <1>0, Names DEF StatusInv, DocInv, Last
  <2> QED
    BY <1>0, <1>1, <2>1 DEF StatusInv
<1>5. CallInv(c)'
  BY <1>0, <1>1, <1>2, <1>4 DEF CallInv, ReadsTimeline, PublishesItsOwn, ChecksHold,
       MadeRevision, KindShape, Pending, Checked, Committed, DocInv, WasServed
<1> QED
  BY <1>3, <1>5

\* A restore starts from what it has read.
LEMMA RestoreReads ==
  ASSUME LifecycleInv, NEW c \in Calls, ReadRestore(c)
  PROVE  Quiet(c) /\ CallInv(c)'
<1> USE DEF rows, index, command, history
<1>0. /\ DocInv /\ Len(timeline) \in Nat /\ CallInv(c)
      /\ pc \in [Calls -> Phase] /\ target \in [Calls -> Versions]
      /\ kind \in [Calls -> {"update", "reparse", "rollback", "delete", "restore"}]
      /\ expected \in [Calls -> Nat]
      /\ \A e \in Calls : CallInv(e)
  BY CommandTypes DEF LifecycleInv
<1>1. PICK d \in Calls :
        /\ LastDeletion(d)
        /\ target' = [target EXCEPT ![c] = previous[d]]
  BY DEF ReadRestore
<1>2. /\ pc[c] = "idle" /\ pc' = [pc EXCEPT ![c] = "checked"]
      /\ doc.status = "delete_pending"
      /\ kind' = [kind EXCEPT ![c] = "restore"]
      /\ expected' = [expected EXCEPT ![c] = doc.revision]
      /\ UNCHANGED <<doc, timeline, kept, lastDelete, disp, clock, query, versions,
                     opStatus, previous>>
  BY DEF ReadRestore, Goto
<1>3. Quiet(c)
  BY <1>0, <1>1, <1>2 DEF Quiet, Keeps, Committed
<1>4. previous[d] \in kept
  BY <1>1, <1>2 DEF LastDeletion, LifecycleInv, TombstoneInv
<1>5. CallInv(c)'
  BY <1>0, <1>1, <1>2, <1>4 DEF CallInv, ReadsTimeline, PublishesItsOwn, ChecksHold,
       MadeRevision, KindShape, Pending, Checked, Committed, DocInv
<1> QED
  BY <1>3, <1>5

\* A step of a call that leaves the document alone keeps the invariant.
LEMMA QuietPreserves ==
  ASSUME LifecycleInv, TypeInv', NEW c \in Calls, Quiet(c), CallInv(c)'
  PROVE  LifecycleInv'
<1>0. /\ TypeInv /\ DocInv /\ ServedInv /\ StatusInv /\ c \in Versions
      /\ UNCHANGED <<doc, timeline>>
  BY Names DEF LifecycleInv, Quiet
<1>1. DocInv'
  <2>1. ASSUME NEW d \in Calls, kind[d] = "delete"
        PROVE  kind'[d] = "delete" /\ expected'[d] = expected[d]
    BY <2>1 DEF Quiet, Keeps, LifecycleInv, CallInv, KindShape
  <2> QED
    BY <1>0, <2>1 DEF DocInv
<1>2. ASSUME NEW e \in Calls PROVE CallInv(e)'
  <2>1. CASE e = c
    BY <2>1
  <2>2. CASE e # c
    BY <1>0, <2>2, NothingGrows, OthersKeep DEF Quiet, LifecycleInv
  <2> QED
    BY <2>1, <2>2
<1>3. ServedInv'
  BY <1>0 DEF ServedInv, WasServed, Quiet, Keeps, Committed
<1>4. StatusInv'
  <2>1. ASSUME NEW v \in Versions, WasServed(v) PROVE versions'[v] = versions[v]
    BY <1>0, <2>1 DEF Quiet, ServedInv
  <2>2. ASSUME NEW v \in Versions, versions'[v] = "superseded"
        PROVE  versions[v] = "superseded"
    BY <2>2 DEF Quiet
  <2>3. /\ Last' = Last /\ \A v : WasServed(v)' <=> WasServed(v)
        /\ \A v : PassedOver(v)' <=> PassedOver(v)
    BY <1>0 DEF Last, WasServed, PassedOver
  <2> QED
    BY <1>0, <2>1, <2>2, <2>3, LastServed DEF StatusInv, Retired
<1>8. TombstoneInv'
  <2>1. ASSUME NEW d \in Calls, kind[d] = "delete"
        PROVE  kind'[d] = "delete" /\ previous'[d] = previous[d]
    BY <2>1 DEF Quiet, Keeps, LifecycleInv, CallInv, KindShape
  <2>2. lastDelete \in Calls \cup {None} /\ TombstoneInv
    BY DEF LifecycleInv, TypeInv, TypeOK
  <2> QED
    BY <1>0, <2>1, <2>2 DEF TombstoneInv, Quiet, WasServed
<1>5. (\A d \in Dispatchers : PurgeInv(d))'
  BY <1>0 DEF LifecycleInv, PurgeInv, Quiet
<1>6. (\A q \in Readers : AnswerInv(q))'
  BY <1>0 DEF LifecycleInv, AnswerInv, Quiet
<1>7. OneEach'
  <2>1. ASSUME NEW e \in Calls, Committed(e)'
        PROVE  Committed(e) /\ expected'[e] = expected[e]
    BY <2>1 DEF Quiet, Keeps, Committed
  <2> QED
    BY <2>1 DEF LifecycleInv, OneEach
<1> QED
  BY <1>1, <1>2, <1>3, <1>4, <1>5, <1>6, <1>7, <1>8 DEF LifecycleInv

-----------------------------------------------------------------------------
(* Steps of the dispatchers, the readers and the clock that do not commit.   *)

Still == UNCHANGED <<doc, timeline, kept, lastDelete, versions, pc, kind, expected, target, previous,
                     opStatus>>

\* A step of a dispatcher or a reader keeps the invariant.
LEMMA StillPreserves ==
  ASSUME LifecycleInv, TypeInv', Still, \A d \in Dispatchers : PurgeInv(d)',
         \A q \in Readers : AnswerInv(q)'
  PROVE  LifecycleInv'
<1> USE DEF Still
<1>1. DocInv'
  BY DEF LifecycleInv, DocInv
<1>2. ASSUME NEW c \in Calls PROVE CallInv(c)'
  BY NothingGrows, OthersKeep DEF LifecycleInv, Keeps
<1>3. ServedInv'
  BY DEF LifecycleInv, ServedInv, WasServed, Committed
<1>4. StatusInv'
  BY DEF LifecycleInv, StatusInv, Retired, WasServed, Last, PassedOver
<1>6. TombstoneInv'
  BY DEF LifecycleInv, TombstoneInv, WasServed
<1>5. OneEach'
  BY DEF LifecycleInv, OneEach, Committed
<1> QED
  BY <1>1, <1>2, <1>3, <1>4, <1>5, <1>6 DEF LifecycleInv

\* A step that leaves the queries alone, or the purges.
LEMMA QueriesKept ==
  ASSUME LifecycleInv, UNCHANGED <<timeline, query>>
  PROVE  \A q \in Readers : AnswerInv(q)'
BY DEF LifecycleInv, AnswerInv

\* A purge under way does not depend on the other rows.
LEMMA PurgesKept ==
  ASSUME LifecycleInv, UNCHANGED <<timeline, doc, clock, disp>>
  PROVE  \A d \in Dispatchers : PurgeInv(d)'
BY DEF LifecycleInv, PurgeInv

\* A purge only goes on from what it has read, and only reads an expired
\* tombstone.
LEMMA DispatcherStill ==
  ASSUME LifecycleInv, TypeInv', NEW d \in Dispatchers, DispatcherStep(d), ~CommitPurge(d)
  PROVE  LifecycleInv'
<1> USE DEF rows, index, command, history
<1>0. /\ DocInv /\ disp \in [Dispatchers -> Dispatch] /\ Len(timeline) \in Nat
      /\ \A e \in Dispatchers : PurgeInv(e)
      /\ doc.status \in DocStatus
  BY CommandTypes DEF LifecycleInv, TypeInv, TypeOK
<1>1. Still /\ UNCHANGED <<query, clock>>
  BY DEF Still, DispatcherStep, TakeDueEvent, ReadTombstone, DeleteProjection,
         DeleteObject, PurgeConflicts, PurgeTimesOut, SaveEvent, DispatcherCrash
<1>2. \A e \in Dispatchers \ {d} : disp'[e] = disp[e]
  BY <1>0 DEF DispatcherStep, TakeDueEvent, ReadTombstone, DeleteProjection,
              DeleteObject, PurgeConflicts, PurgeTimesOut, SaveEvent, DispatcherCrash
<1>3. PurgeInv(d)'
  <2>1. CASE ReadTombstone(d)
    <3>1. \/ disp'[d].pc = "handled"
          \/ /\ disp'[d].revision = doc.revision
             /\ doc.status # "deleted" /\ doc.purgeAfter # NoDeadline
             /\ doc.purgeAfter <= clock
      BY <1>0, <2>1 DEF ReadTombstone, Dispatch
    <3> QED
      BY <1>0, <1>1, <3>1 DEF PurgeInv, DocInv, DocStatus, Still
  <2>2. CASE DeleteProjection(d) \/ DeleteObject(d)
    <3>1. /\ disp[d].pc \in {"purging", "erasing", "emptied"}
          /\ disp'[d].revision = disp[d].revision
      BY <1>0, <2>2 DEF DeleteProjection, DeleteObject, Dispatch
    <3> QED
      BY <1>0, <1>1, <3>1 DEF PurgeInv, Still
  <2>3. CASE ~(ReadTombstone(d) \/ DeleteProjection(d) \/ DeleteObject(d))
    <3>1. \/ TakeDueEvent(d) \/ PurgeConflicts(d) \/ PurgeTimesOut(d)
          \/ SaveEvent(d) \/ DispatcherCrash(d)
      BY <2>3 DEF DispatcherStep
    <3>2. CASE TakeDueEvent(d)
      <4>1. PICK e \in Calls :
              disp' = [disp EXCEPT ![d].pc = "taken", ![d].event = e,
                                   ![d].attempts = cleanup[e].attempts]
        BY <3>2 DEF TakeDueEvent
      <4> QED
        BY <1>0, <4>1 DEF PurgeInv, Dispatch
    <3>3. CASE PurgeConflicts(d) \/ PurgeTimesOut(d)
      BY <1>0, <3>3 DEF PurgeConflicts, PurgeTimesOut, PurgeInv, Dispatch
    <3>4. CASE SaveEvent(d) \/ DispatcherCrash(d)
      BY <1>0, <3>4 DEF SaveEvent, DispatcherCrash, Resting, PurgeInv
    <3> QED
      BY <3>1, <3>2, <3>3, <3>4
  <2> QED
    BY <2>1, <2>2, <2>3
<1>4. \A e \in Dispatchers : PurgeInv(e)'
  BY <1>0, <1>1, <1>2, <1>3 DEF PurgeInv, Still
<1> QED
  BY <1>1, <1>4, QueriesKept, StillPreserves DEF Still

\* A retrieval starts at the last revision, and believes the row as it is.
LEMMA ReaderStill ==
  ASSUME LifecycleInv, TypeInv', NEW q \in Readers, Retrieve(q) \/ Confirm(q)
  PROVE  LifecycleInv'
<1> USE DEF rows, index, command, history
<1>0. /\ DocInv /\ query \in [Readers -> Request] /\ Len(timeline) \in Nat
      /\ \A r \in Readers : AnswerInv(r)
  BY CommandTypes DEF LifecycleInv, TypeInv, TypeOK
<1>1. Still /\ UNCHANGED <<disp, clock>>
  BY DEF Still, Retrieve, Confirm
<1>2. \A r \in Readers \ {q} : query'[r] = query[r]
  BY <1>0 DEF Retrieve, Confirm
<1>3. AnswerInv(q)'
  <2>1. CASE Retrieve(q)
    <3>1. query'[q].since = doc.revision /\ query'[q].answer = {}
      BY <1>0, <2>1 DEF Retrieve
    <3> QED
      BY <1>0, <1>1, <3>1 DEF AnswerInv, DocInv, Still
  <2>2. CASE Confirm(q)
    <3>1. PICK v \in query[q].left :
            \/ /\ doc.current = v
               /\ query' = [query EXCEPT ![q].left = @ \ {v}, ![q].answer = @ \cup {v}]
            \/ query' = [query EXCEPT ![q].left = @ \ {v}, ![q].answer = @]
      BY <2>2 DEF Confirm
    <3>2. /\ query'[q].since = query[q].since
          /\ \A u \in query'[q].answer : u \in query[q].answer \/ u = doc.current
      BY <1>0, <3>1 DEF Request
    <3>3. timeline[Len(timeline)] = doc.current
      BY <1>0 DEF DocInv
    <3> QED
      BY <1>0, <1>1, <3>2, <3>3 DEF AnswerInv, Still
  <2> QED
    BY <2>1, <2>2
<1>4. \A r \in Readers : AnswerInv(r)'
  BY <1>0, <1>1, <1>2, <1>3 DEF AnswerInv, Still
<1> QED
  BY <1>1, <1>4, PurgesKept, StillPreserves DEF Still

\* Time alone keeps the invariant.
LEMMA ClockStill ==
  ASSUME LifecycleInv, TypeInv', Tick \/ UNCHANGED vars
  PROVE  LifecycleInv'
<1> USE DEF rows, index, command, history, vars
<1>0. doc.purgeAfter \in Nat /\ clock \in Nat
  BY CommandTypes, BoundsAssumption DEF LifecycleInv, TypeInv, TypeOK
<1>1. Still /\ UNCHANGED <<disp, query>> /\ clock' \in {clock, clock + 1}
  BY DEF Still, Tick
<1>2. \A d \in Dispatchers : PurgeInv(d)'
  BY <1>0, <1>1 DEF LifecycleInv, PurgeInv, Still
<1> QED
  BY <1>1, <1>2, QueriesKept, StillPreserves DEF Still

-----------------------------------------------------------------------------
(* Commits: the timeline grows by what the swap exposes.                     *)

Grown(x) ==
    /\ Grows
    /\ Len(timeline') = Len(timeline) + 1
    /\ timeline'[Len(timeline) + 1] = x
    /\ \A v : WasServed(v)' <=> WasServed(v) \/ v = x

\* A compare and swap that succeeds adds one revision to the timeline.
LEMMA SwapGrows ==
  ASSUME LifecycleInv, NEW revision, NEW status, NEW x \in Versions \cup {None},
         NEW deadline, CompareAndSwap(revision, status, x, deadline)
  PROVE  /\ Grown(x) /\ revision = Len(timeline)
         /\ doc' = [status |-> status, current |-> x,
                    revision |-> Len(timeline) + 1, purgeAfter |-> deadline]
<1>0. /\ doc.revision = revision /\ Len(timeline) = doc.revision
      /\ doc.revision \in Nat /\ doc.revision >= 1
      /\ timeline \in Seq(Versions \cup {None})
      /\ timeline' = Append(timeline, x)
      /\ doc' = [status |-> status, current |-> x,
                 revision |-> revision + 1, purgeAfter |-> deadline]
  BY CommandTypes DEF LifecycleInv, DocInv, CompareAndSwap
<1>1. /\ Len(timeline') = Len(timeline) + 1
      /\ \A i \in 1..Len(timeline) : timeline'[i] = timeline[i]
      /\ timeline'[Len(timeline) + 1] = x
  BY <1>0
<1>2. Grows
  BY <1>0, <1>1 DEF Grows
<1>3. ASSUME NEW v PROVE WasServed(v)' <=> WasServed(v) \/ v = x
  BY <1>0, <1>1 DEF WasServed
<1> QED
  BY <1>0, <1>1, <1>2, <1>3 DEF Grown

\* No purge that is under way concerns the new revision, and an answer stays
\* justified.
LEMMA SwapFrame ==
  ASSUME LifecycleInv, NEW x, Grown(x)
  PROVE  /\ \A d \in Dispatchers : disp'[d] = disp[d] => PurgeInv(d)'
         /\ query' = query => \A q \in Readers : AnswerInv(q)'
<1>0. /\ Len(timeline) \in Nat /\ \A d \in Dispatchers : PurgeInv(d)
      /\ \A q \in Readers : AnswerInv(q)
  BY CommandTypes DEF LifecycleInv
<1>1. ASSUME NEW d \in Dispatchers, disp'[d] = disp[d] PROVE PurgeInv(d)'
  <2>1. disp[d].pc \in {"purging", "erasing", "emptied"} => disp[d].revision \in Nat
    BY DEF LifecycleInv, TypeInv, TypeOK, Dispatch
  <2> QED
    BY <1>0, <1>1, <2>1 DEF PurgeInv, Grown
<1>2. ASSUME query' = query, NEW q \in Readers PROVE AnswerInv(q)'
  BY <1>0, <1>2 DEF AnswerInv, Grown, Grows
<1> QED
  BY <1>1, <1>2

\* The command that commits reads the last revision, the earlier ones did not.
LEMMA SwapAlone ==
  ASSUME LifecycleInv, NEW c \in Calls, expected'[c] = Len(timeline),
         \A e \in Calls \ {c} : Keeps(e)
  PROVE  OneEach'
<1>1. \A e \in Calls : Committed(e) => expected[e] < Len(timeline)
  BY DEF LifecycleInv, CallInv, MadeRevision
<1>2. Len(timeline) \in Nat /\ \A e \in Calls : expected[e] \in Nat
  BY CommandTypes DEF LifecycleInv
<1>3. ASSUME NEW e \in Calls \ {c}, Committed(e)' PROVE expected'[e] < Len(timeline)
  BY <1>1, <1>3 DEF Keeps, Committed
<1>4. ASSUME NEW e \in Calls \ {c}, NEW f \in Calls \ {c}, e # f, Committed(e)', Committed(f)'
      PROVE  expected'[e] # expected'[f]
  BY <1>4 DEF LifecycleInv, OneEach, Keeps, Committed
<1> QED
  BY <1>2, <1>3, <1>4 DEF OneEach

\* A publication commits only on the document it checked: it retires the
\* version in service, and puts another one in its place.
LEMMA PublishShape ==
  ASSUME LifecycleInv, NEW c \in Calls, Publish(c)
  PROVE  /\ expected[c] = Len(timeline) /\ doc.status = "active"
         /\ previous[c] = doc.current /\ previous[c] # target[c]
         /\ previous[c] # None /\ Last = doc.current
         /\ kind[c] \in {"update", "reparse", "rollback"}
         /\ kind[c] # "rollback" => target[c] = c /\ ~WasServed(c)
         /\ kind[c] = "rollback" => WasServed(target[c])
<1>0. /\ c \in Versions /\ CallInv(c) /\ DocInv /\ ServedInv
      /\ kind \in [Calls -> {"update", "reparse", "rollback", "delete", "restore"}]
      /\ doc.revision \in Nat
  BY CommandTypes, Names DEF LifecycleInv
<1>1. /\ pc[c] = "promoted" /\ kind[c] # "restore" /\ expected[c] = doc.revision
  BY DEF Publish, Goto, CompareAndSwap
<1>2. /\ expected[c] = Len(timeline) /\ doc.status = "active"
      /\ previous[c] = doc.current /\ doc.current # None
  BY <1>0, <1>1 DEF CallInv, ReadsTimeline, ChecksHold, DocInv, Pending, Checked
<1>3. kind[c] \in {"update", "reparse", "rollback"}
  BY <1>0, <1>1 DEF CallInv, KindShape, Committed
<1>4. WasServed(doc.current)
  BY <1>0 DEF DocInv, WasServed
<1>5. kind[c] # "rollback" => target[c] = c /\ ~WasServed(c)
  BY <1>0, <1>1, <1>3 DEF CallInv, PublishesItsOwn, ServedInv, Committed
<1>6. kind[c] = "rollback" => WasServed(target[c]) /\ target[c] # previous[c]
  BY <1>0, <1>1 DEF CallInv, PublishesItsOwn, Pending
<1> QED
  BY <1>2, <1>3, <1>4, <1>5, <1>6 DEF Last

\* The publication of an update, a reparse or a rollback keeps the invariant.
LEMMA PublishPreserves ==
  ASSUME LifecycleInv, TypeInv', NEW c \in Calls, Publish(c)
  PROVE  LifecycleInv'
<1> USE DEF rows, index, command, history
<1>0. /\ c \in Versions /\ target[c] \in Versions /\ DocInv /\ ServedInv /\ StatusInv
      /\ pc \in [Calls -> Phase] /\ opStatus \in [Calls -> OpStatus]
      /\ expected[c] \in Nat /\ TypeInv /\ Len(timeline) \in Nat
      /\ \A e \in Calls : CallInv(e)
  BY CommandTypes, Names DEF LifecycleInv
<1>1. /\ expected[c] = Len(timeline) /\ doc.status = "active"
      /\ previous[c] = doc.current /\ previous[c] # target[c]
      /\ previous[c] # None /\ Last = doc.current
      /\ kind[c] \in {"update", "reparse", "rollback"}
      /\ target[c] = c \/ WasServed(target[c])
  BY <1>0, PublishShape
<1>2. /\ pc' = [pc EXCEPT ![c] = "retire"]
      /\ versions' = [u \in Versions |-> IF u = target[c] THEN "ready"
                                         ELSE IF u = previous[c] THEN "superseded"
                                         ELSE versions[u]]
      /\ opStatus' = [opStatus EXCEPT ![c] = "succeeded"]
      /\ UNCHANGED <<kind, expected, target, previous, disp, query, kept, lastDelete>>
      /\ CompareAndSwap(expected[c], "active", target[c], NoDeadline)
  BY <1>1 DEF Publish, Goto
<1>3. /\ Grown(target[c])
      /\ doc'.status = "active" /\ doc'.current = target[c]
      /\ doc'.revision = Len(timeline) + 1 /\ doc'.purgeAfter = NoDeadline
  BY <1>0, <1>2, SwapGrows
<1>4. DocInv'
  BY <1>0, <1>3, Names DEF DocInv, Grown
<1>5. ASSUME NEW e \in Calls PROVE CallInv(e)'
  <2>1. CASE e = c
    BY <1>0, <1>1, <1>2, <1>3, <2>1 DEF CallInv, ReadsTimeline, PublishesItsOwn, ChecksHold,
       MadeRevision, KindShape, Pending, Checked, Committed, Grown
  <2>2. CASE e # c
    <3>1. Keeps(e)
      BY <1>0, <1>2, <2>2 DEF Keeps
    <3> QED
      BY <1>0, <1>3, <3>1, OthersKeep DEF Grown
  <2> QED
    BY <2>1, <2>2
<1>6. ServedInv'
  BY <1>0, <1>1, <1>2, <1>3 DEF ServedInv, Committed, Grown
<1>7. StatusInv'
  <2>1. Last' = target[c]
    BY <1>3 DEF Last
  <2>2. ASSUME NEW u \in Versions, versions'[u] = "superseded" PROVE WasServed(u)'
    <3>1. WasServed(doc.current)
      BY <1>0 DEF DocInv, WasServed
    <3> QED
      BY <1>0, <1>1, <1>2, <1>3, <2>2, <3>1 DEF StatusInv, Grown
  <2>3. versions'[target[c]] = "ready"
    BY <1>0, <1>2
  <2>4. ASSUME NEW u \in Versions, WasServed(u)', u # target[c]
        PROVE  Retired(u)'
    BY <1>0, <1>1, <1>2, <1>3, <2>4, PassedStays DEF StatusInv, Retired, Grown
  <2> QED
    BY <2>1, <2>2, <2>3, <2>4 DEF StatusInv
<1>9. TombstoneInv'
  BY <1>0, <1>2, <1>3 DEF LifecycleInv, TombstoneInv, Grown
<1>8. OneEach'
  <2>1. expected'[c] = Len(timeline) /\ \A e \in Calls \ {c} : Keeps(e)
    BY <1>0, <1>1, <1>2 DEF Keeps
  <2> QED
    BY <2>1, SwapAlone
<1> QED
  BY <1>2, <1>3, <1>4, <1>5, <1>6, <1>7, <1>8, <1>9, SwapFrame DEF LifecycleInv

\* A delete hides what the document exposed, and is the one a restore finds.
LEMMA DeletePreserves ==
  ASSUME LifecycleInv, TypeInv', NEW c \in Calls, RequestDelete(c)
  PROVE  LifecycleInv'
<1> USE DEF rows, index, command, history
<1>0. /\ DocInv /\ ServedInv /\ StatusInv /\ TypeInv /\ Len(timeline) \in Nat
      /\ pc \in [Calls -> Phase] /\ opStatus \in [Calls -> OpStatus]
      /\ kind \in [Calls -> {"update", "reparse", "rollback", "delete", "restore"}]
      /\ expected \in [Calls -> Nat] /\ target \in [Calls -> Versions]
      /\ previous \in [Calls -> Versions \cup {None}]
      /\ \A e \in Calls : CallInv(e)
  BY CommandTypes DEF LifecycleInv
<1>1. /\ pc[c] = "idle" /\ pc' = [pc EXCEPT ![c] = "retire"]
      /\ doc.status = "active" /\ doc.current # None
      /\ CompareAndSwap(doc.revision, "delete_pending", None, clock + Retention)
      /\ kind' = [kind EXCEPT ![c] = "delete"]
      /\ expected' = [expected EXCEPT ![c] = doc.revision]
      /\ target' = [target EXCEPT ![c] = doc.current]
      /\ previous' = [previous EXCEPT ![c] = doc.current]
      /\ opStatus' = [opStatus EXCEPT ![c] = "pending"]
      /\ lastDelete' = c /\ kept' = {doc.current}
      /\ UNCHANGED <<versions, disp, query>>
  BY DEF RequestDelete, Goto
<1>2. /\ Grown(None)
      /\ doc'.status = "delete_pending" /\ doc'.current = None
      /\ doc'.revision = Len(timeline) + 1
  BY <1>1, SwapGrows
<1>3. Len(timeline) = doc.revision /\ timeline[Len(timeline)] = doc.current /\ Len(timeline) >= 1
  BY <1>0 DEF DocInv
<1>4. DocInv'
  <2>1. kind'[c] = "delete" /\ expected'[c] = Len(timeline)
    BY <1>0, <1>1, <1>3
  <2> QED
    BY <1>0, <1>2, <1>3, <2>1 DEF DocInv, Grown
<1>5. ASSUME NEW e \in Calls PROVE CallInv(e)'
  <2>1. CASE e = c
    <3>1. /\ pc'[c] = "retire" /\ kind'[c] = "delete" /\ expected'[c] = Len(timeline)
          /\ previous'[c] = timeline[Len(timeline)] /\ opStatus'[c] = "pending"
      BY <1>0, <1>1, <1>3
    <3>2. /\ Len(timeline') = Len(timeline) + 1
          /\ timeline'[Len(timeline)] = timeline[Len(timeline)]
          /\ timeline'[Len(timeline) + 1] = None
      <4>1. Len(timeline) \in 1..Len(timeline)
        BY <1>0, <1>3
      <4> QED
        BY <1>2, <4>1 DEF Grown, Grows
    <3>3. Committed(c)' /\ ~Pending(c)' /\ ~Checked(c)'
      BY <3>1 DEF Committed, Pending, Checked
    <3>4. ReadsTimeline(c)'
      BY <1>0, <1>3, <3>1, <3>2 DEF ReadsTimeline
    <3>5. PublishesItsOwn(c)' /\ ChecksHold(c)' /\ KindShape(c)'
      BY <3>1, <3>3 DEF PublishesItsOwn, ChecksHold, KindShape
    <3>6. MadeRevision(c)'
      BY <1>0, <3>1, <3>2 DEF MadeRevision
    <3> QED
      BY <2>1, <3>4, <3>5, <3>6 DEF CallInv
  <2>2. CASE e # c
    <3>1. Keeps(e)
      BY <1>0, <1>1, <2>2 DEF Keeps
    <3> QED
      BY <1>0, <1>2, <3>1, OthersKeep DEF Grown
  <2> QED
    BY <2>1, <2>2
<1>6. ServedInv'
  BY <1>0, <1>1, <1>2, NamesAssumption DEF ServedInv, Committed, Grown
<1>7. StatusInv'
  <2>1. Last' = Last
    <3>1. Last = doc.current
      BY <1>1 DEF Last
    <3>2. timeline'[Len(timeline)] = doc.current /\ Len(timeline') = Len(timeline) + 1
      <4>1. /\ \A i \in 1..Len(timeline) : timeline'[i] = timeline[i]
            /\ Len(timeline') = Len(timeline) + 1
        BY <1>2 DEF Grown, Grows
      <4>2. Len(timeline) \in 1..Len(timeline)
        BY <1>0, <1>3
      <4> QED
        BY <1>3, <4>1, <4>2
    <3>4. Len(timeline') - 1 = Len(timeline)
      BY <1>0, <3>2
    <3>3. Last' = timeline'[Len(timeline') - 1]
      BY <1>2 DEF Last
    <3> QED
      BY <3>1, <3>2, <3>3, <3>4
  <2> QED
    BY <1>0, <1>1, <1>2, <2>1, Names, PassedStays DEF StatusInv, Retired, Grown
<1>9. TombstoneInv'
  <2>1. doc.current \in Versions /\ WasServed(doc.current)
    <3>1. Last = doc.current
      BY <1>1 DEF Last
    <3> QED
      BY <1>1, <3>1, LastServed
  <2>2. kind'[c] = "delete" /\ previous'[c] = doc.current
    BY <1>0, <1>1
  <2>3. ASSUME NEW u, u = doc.current PROVE u \in Versions /\ WasServed(u)'
    BY <1>0, <1>2, <2>1, <2>3, ServedForever DEF Grown
  <2>4. c # None
    BY NamesAssumption
  <2>5. ASSUME NEW u \in kept' PROVE u \in Versions /\ WasServed(u)'
    BY <1>1, <2>3, <2>5
  <2> QED
    BY <1>1, <2>2, <2>4, <2>5 DEF TombstoneInv
<1>8. OneEach'
  <2>1. expected'[c] = Len(timeline) /\ \A e \in Calls \ {c} : Keeps(e)
    BY <1>0, <1>1, <1>3 DEF Keeps
  <2> QED
    BY <2>1, SwapAlone
<1> QED
  BY <1>1, <1>2, <1>4, <1>5, <1>6, <1>7, <1>8, <1>9, SwapFrame DEF LifecycleInv

\* A restore commits only on the tombstone it read, and brings back one of the
\* versions that tombstone keeps.
LEMMA RestoreShape ==
  ASSUME LifecycleInv, NEW c \in Calls, CommitRestore(c)
  PROVE  /\ expected[c] = Len(timeline) /\ doc.status = "delete_pending"
         /\ target[c] \in kept /\ WasServed(target[c])
<1>1. /\ kind[c] = "restore" /\ pc[c] = "promoted" /\ expected[c] = doc.revision
  BY DEF CommitRestore, Goto, CompareAndSwap
<1>2. CallInv(c) /\ DocInv /\ TombstoneInv
  BY DEF LifecycleInv
<1> QED
  BY <1>1, <1>2 DEF CallInv, ChecksHold, Checked, DocInv, TombstoneInv

\* What a restore does not bring back, of what was hidden last, it passes over.
LEMMA RestorePasses ==
  ASSUME LifecycleInv, doc.status = "delete_pending", NEW v \in Versions, Grown(v),
         NEW u, u = Last, v # u
  PROVE  PassedOver(u)'
<1>1. /\ Len(timeline) \in Nat /\ timeline[Len(timeline)] = None
      /\ Len(timeline) - 1 \in 1..Len(timeline)
      /\ Last = timeline[Len(timeline) - 1]
  BY LastServed, CommandTypes DEF LifecycleInv, DocInv, Last
<1>2. /\ Len(timeline') = Len(timeline) + 1 /\ timeline'[Len(timeline) + 1] = v
      /\ \A i \in 1..Len(timeline) : timeline'[i] = timeline[i]
  BY DEF Grown, Grows
<1>3. Len(timeline) \in 2..Len(timeline') - 1 /\ Len(timeline) \in 1..Len(timeline)
  BY <1>1, <1>2
<1>4. /\ timeline'[Len(timeline)] = None /\ timeline'[Len(timeline) - 1] = u
      /\ timeline'[Len(timeline) + 1] \notin {None, u}
  BY <1>1, <1>2, <1>3, Names
<1> QED
  BY <1>3, <1>4 DEF PassedOver

\* The commit of a restore keeps the invariant.
LEMMA RestorePreserves ==
  ASSUME LifecycleInv, TypeInv', NEW c \in Calls, CommitRestore(c)
  PROVE  LifecycleInv'
<1> USE DEF rows, index, command, history
<1>0. /\ target[c] \in Versions /\ DocInv /\ ServedInv /\ StatusInv
      /\ pc \in [Calls -> Phase] /\ opStatus \in [Calls -> OpStatus]
      /\ versions \in [Versions -> VersionStatus]
      /\ expected[c] \in Nat /\ TypeInv /\ Len(timeline) \in Nat
      /\ \A e \in Calls : CallInv(e)
  BY CommandTypes DEF LifecycleInv
<1>1. /\ expected[c] = Len(timeline) /\ doc.status = "delete_pending" /\ WasServed(target[c])
  BY RestoreShape
<1>2. /\ pc' = [pc EXCEPT ![c] = "done"] /\ kind[c] = "restore"
      /\ versions' = [versions EXCEPT ![target[c]] = "ready"]
      /\ opStatus' = [opStatus EXCEPT ![c] = "succeeded"]
      /\ UNCHANGED <<kind, expected, target, previous, disp, query, lastDelete>>
      /\ kept' = {}
      /\ CompareAndSwap(expected[c], "active", target[c], NoDeadline)
  BY DEF CommitRestore, Goto
<1>3. /\ Grown(target[c])
      /\ doc'.status = "active" /\ doc'.current = target[c]
      /\ doc'.revision = Len(timeline) + 1 /\ doc'.purgeAfter = NoDeadline
  BY <1>0, <1>2, SwapGrows
<1>5. DocInv'
  BY <1>0, <1>3, Names DEF DocInv, Grown
<1>6. ASSUME NEW e \in Calls PROVE CallInv(e)'
  <2>1. CASE e = c
    BY <1>0, <1>1, <1>2, <1>3, <2>1 DEF CallInv, ReadsTimeline, PublishesItsOwn, ChecksHold,
       MadeRevision, KindShape, Pending, Checked, Committed, Grown
  <2>2. CASE e # c
    <3>1. Keeps(e)
      BY <1>0, <1>2, <2>2 DEF Keeps
    <3> QED
      BY <1>0, <1>3, <3>1, OthersKeep DEF Grown
  <2> QED
    BY <2>1, <2>2
<1>7. ServedInv'
  BY <1>0, <1>1, <1>2, <1>3 DEF ServedInv, Committed, Grown
<1>8. StatusInv'
  <2>1. Last' = target[c]
    BY <1>3 DEF Last
  <2>2. ASSUME NEW u \in Versions, versions'[u] = "superseded" PROVE WasServed(u)'
    BY <1>0, <1>2, <1>3, <2>2 DEF StatusInv, Grown
  <2>3. versions'[target[c]] = "ready"
    BY <1>0, <1>2
  <2>4. ASSUME NEW u \in Versions, WasServed(u)', u # target[c]
        PROVE  Retired(u)'
    <3>1. versions'[u] = versions[u] /\ WasServed(u)
      BY <1>0, <1>1, <1>2, <1>3, <2>4 DEF Grown
    <3>2. CASE u # Last
      BY <1>0, <1>1, <1>3, <3>1, <3>2, PassedStays DEF StatusInv, Retired, Grown
    <3>3. CASE u = Last
      <4>1. PassedOver(u)'
        BY <1>0, <1>1, <1>3, <2>4, <3>3, RestorePasses
      <4>2. versions'[u] = "ready"
        BY <1>0, <1>1, <3>1, <3>3 DEF StatusInv
      <4> QED
        BY <4>1, <4>2 DEF Retired
    <3> QED
      BY <3>2, <3>3
  <2> QED
    BY <2>1, <2>2, <2>3, <2>4 DEF StatusInv
<1>4. TombstoneInv'
  BY <1>2, <1>3 DEF LifecycleInv, TombstoneInv
<1>9. OneEach'
  <2>1. expected'[c] = Len(timeline) /\ \A e \in Calls \ {c} : Keeps(e)
    BY <1>0, <1>1, <1>2 DEF Keeps
  <2> QED
    BY <2>1, SwapAlone
<1> QED
  BY <1>2, <1>3, <1>4, <1>5, <1>6, <1>7, <1>8, <1>9, SwapFrame DEF LifecycleInv

\* A purge commits only on the tombstone it read, whose retention is over.
LEMMA PurgePreserves ==
  ASSUME LifecycleInv, TypeInv', NEW d \in Dispatchers, CommitPurge(d)
  PROVE  LifecycleInv' /\ doc.status = "delete_pending" /\ doc.purgeAfter <= clock
<1> USE DEF rows, index, command, history
<1>0. /\ DocInv /\ ServedInv /\ StatusInv /\ TypeInv /\ PurgeInv(d)
      /\ disp \in [Dispatchers -> Dispatch] /\ Len(timeline) \in Nat
      /\ \A e \in Calls : CallInv(e)
  BY CommandTypes DEF LifecycleInv, TypeInv, TypeOK
<1>1. /\ disp[d].pc = "emptied"
      /\ CompareAndSwap(disp[d].revision, "deleted", None, doc.purgeAfter)
      /\ versions' = [v \in Versions |-> IF v \in disp[d].found THEN "deleted"
                                         ELSE versions[v]]
      /\ disp' = [disp EXCEPT ![d].pc = "handled", ![d].outcome = "published"]
      /\ kept' = {}
      /\ UNCHANGED <<opStatus, pc, kind, expected, target, previous, query, lastDelete>>
  BY DEF CommitPurge
<1>2. /\ Grown(None) /\ disp[d].revision = Len(timeline)
      /\ doc'.status = "deleted" /\ doc'.current = None
      /\ doc'.revision = Len(timeline) + 1
  BY <1>1, SwapGrows
<1>3. doc.status = "delete_pending" /\ doc.purgeAfter <= clock
  BY <1>0, <1>1, <1>2 DEF PurgeInv
<1>4. DocInv'
  BY <1>0, <1>2 DEF DocInv, Grown
<1>5. ASSUME NEW e \in Calls PROVE CallInv(e)'
  BY <1>0, <1>1, <1>2, OthersKeep DEF Keeps, Grown
<1>6. ServedInv'
  BY <1>0, <1>1, <1>2, NamesAssumption DEF ServedInv, Committed, Grown
<1>7. StatusInv'
  BY <1>0, <1>1, <1>2 DEF StatusInv, Grown
<1>8. (\A e \in Dispatchers : PurgeInv(e))'
  <2>1. disp'[d].pc = "handled" /\ \A e \in Dispatchers \ {d} : disp'[e] = disp[e]
    BY <1>0, <1>1 DEF Dispatch
  <2> QED
    BY <1>2, <2>1, SwapFrame DEF PurgeInv
<1>10. TombstoneInv'
  BY <1>1, <1>2 DEF LifecycleInv, TombstoneInv
<1>9. OneEach'
  BY <1>1 DEF LifecycleInv, OneEach, Committed
<1> QED
  BY <1>1, <1>2, <1>3, <1>4, <1>5, <1>6, <1>7, <1>8, <1>9, <1>10, SwapFrame
     DEF LifecycleInv

\* A cancelled deletion moves no command and not the document: it only adds what it
\* hid to what a restore may bring back.
LEMMA CancelPreserves ==
  ASSUME LifecycleInv, TypeInv', NEW d \in Calls, CancelDelete(d)
  PROVE  LifecycleInv'
<1>0. /\ UNCHANGED <<doc, timeline, versions, pc, kind, expected, target, previous, disp,
                     clock, query>>
      /\ kind[d] = "delete" /\ lastDelete' = d
      /\ opStatus' = [opStatus EXCEPT ![d] = "cancel_requested"]
      /\ kept' = IF doc.status = "delete_pending" THEN kept \cup {previous[d]} ELSE kept
  BY DEF CancelDelete, command
<1>1. previous[d] \in Versions /\ WasServed(previous[d]) /\ d # None
  BY <1>0, DeletedServed, NamesAssumption
<1>2. opStatus \in [Calls -> OpStatus] /\ TypeInv
  BY CommandTypes DEF LifecycleInv
<1>3. \A c \in Calls : Keeps(c)
  BY <1>0, <1>2 DEF Keeps
<1>4. Grows
  BY <1>0, <1>2, NothingGrows
<1>5. DocInv'
  BY <1>0 DEF LifecycleInv, DocInv
<1>6. ASSUME NEW c \in Calls PROVE CallInv(c)'
  BY <1>2, <1>3, <1>4, OthersKeep DEF LifecycleInv
<1>7. ServedInv' /\ OneEach'
  BY <1>0 DEF LifecycleInv, ServedInv, OneEach, WasServed, Committed
<1>8. TombstoneInv'
  BY <1>0, <1>1 DEF LifecycleInv, TombstoneInv, WasServed
<1>9. StatusInv'
  BY <1>0 DEF LifecycleInv, StatusInv, Retired, WasServed, Last, PassedOver
<1>10. (\A e \in Dispatchers : PurgeInv(e))' /\ (\A q \in Readers : AnswerInv(q))'
  BY <1>0 DEF LifecycleInv, PurgeInv, AnswerInv
<1> QED
  BY <1>5, <1>6, <1>7, <1>8, <1>9, <1>10 DEF LifecycleInv

-----------------------------------------------------------------------------
(* The theorems.                                                             *)

\* Every step keeps the invariant.
LEMMA StepLifecycle == LifecycleInv /\ [Next]_vars => LifecycleInv'
<1> SUFFICES ASSUME LifecycleInv, [Next]_vars PROVE LifecycleInv'
  OBVIOUS
<1>0. TypeInv'
  BY StepTypeInv DEF LifecycleInv
<1>1. ASSUME NEW c \in Calls, CommandStep(c) PROVE LifecycleInv'
  <2>1. CASE PutSource(c) \/ ReadCurrent(c)
    BY <1>0, <2>1, StoringStep, QuietPreserves
  <2>2. CASE Register(c)
    BY <1>0, <2>2, RegisterReads, QuietPreserves
  <2>3. CASE ReadRollback(c)
    BY <1>0, <2>3, RollbackReads, QuietPreserves
  <2>4. CASE ReadRestore(c)
    BY <1>0, <2>4, RestoreReads, QuietPreserves
  <2>5. CASE \/ LoadJob(c)    \/ MarkIngesting(c) \/ ParseSource(c) \/ WriteCandidate(c)
             \/ SaveReady(c)  \/ IngestFails(c)   \/ AddRollback(c)
             \/ LoadPublication(c) \/ Validate(c) \/ Promote(c) \/ Retire(c)
    BY <1>0, <2>5, AdvancingStep, AdvanceKeeps, QuietPreserves
  <2>6. CASE Publish(c)
    BY <1>0, <2>6, PublishPreserves
  <2>7. CASE RequestDelete(c)
    BY <1>0, <2>7, DeletePreserves
  <2>8. CASE CommitRestore(c)
    BY <1>0, <2>8, RestorePreserves
  <2> QED
    BY <1>1, <2>1, <2>2, <2>3, <2>4, <2>5, <2>6, <2>7, <2>8 DEF CommandStep
<1>5. ASSUME NEW c \in Calls, CancelDelete(c) PROVE LifecycleInv'
  BY <1>0, <1>5, CancelPreserves
<1>2. ASSUME NEW d \in Dispatchers, DispatcherStep(d) PROVE LifecycleInv'
  BY <1>0, <1>2, DispatcherStill, PurgePreserves
<1>3. ASSUME NEW q \in Readers, Retrieve(q) \/ Confirm(q) PROVE LifecycleInv'
  BY <1>0, <1>3, ReaderStill
<1>4. CASE Tick \/ UNCHANGED vars
  BY <1>0, <1>4, ClockStill
<1> QED
  BY <1>1, <1>2, <1>3, <1>4, <1>5 DEF Next

\* The strengthening is an invariant: what each command read, as long as its
\* revision is the last one, is still what the document is.
THEOREM LifecycleInvariant == Spec => []LifecycleInv
BY InitLifecycle, StepLifecycle, PTL DEF Spec

\* save_if_revision lets one command win each document revision, whatever the
\* number of workers, publishers, deletes and restores.
THEOREM OneWinner == Spec => []OneWinnerPerRevision
<1>1. LifecycleInv => OneWinnerPerRevision
  <2> SUFFICES ASSUME LifecycleInv, NEW c \in Calls, Committed(c)
               PROVE  /\ expected[c] < Len(timeline)
                      /\ timeline[expected[c] + 1] =
                           IF kind[c] = "delete" THEN None ELSE target[c]
                      /\ \A e \in Calls \ {c} : Committed(e) => expected[e] # expected[c]
    BY DEF OneWinnerPerRevision, Committed
  <2> QED
    BY DEF LifecycleInv, CallInv, MadeRevision, OneEach
<1> QED
  BY <1>1, LifecycleInvariant, PTL

\* The version rows follow the document although nothing guards them: an active
\* document exposes a version that is ready, and a hidden one exposes none.
THEOREM CurrentReady == Spec => []CurrentIsReady
<1>1. LifecycleInv => CurrentIsReady
  BY DEF LifecycleInv, DocInv, StatusInv, Last, CurrentIsReady
<1> QED
  BY <1>1, LifecycleInvariant, PTL

\* Every other version an active document once served is superseded, unless a restore
\* passed it over: the commits retire exactly what earlier commits put in service.
THEOREM OthersSuperseded == Spec => []OthersAreSuperseded
<1>1. LifecycleInv => OthersAreSuperseded
  BY DEF LifecycleInv, StatusInv, Last, OthersAreSuperseded
<1> QED
  BY <1>1, LifecycleInvariant, PTL

\* Although the index is read before the rows, an answer only holds versions
\* the document exposed while the request ran.
THEOREM AnswersCurrent == Spec => []AnswersWereCurrent
<1>1. LifecycleInv => AnswersWereCurrent
  BY DEF LifecycleInv, AnswerInv, AnswersWereCurrent
<1> QED
  BY <1>1, LifecycleInvariant, PTL

-----------------------------------------------------------------------------
(* The lifecycle implements ServedDocument.                                  *)

Past == {timeline[r] : r \in 1..Len(timeline)} \ {None}

\* The versions of the past are those that were served.
LEMMA PastServed ==
  ASSUME NEW v
  PROVE  v \in Past <=> v # None /\ WasServed(v)
BY DEF Past, WasServed

\* A new revision adds its version to the past.
LEMMA PastGrows ==
  ASSUME NEW x, Grown(x)
  PROVE  Past' = Past \cup ({x} \ {None})
<1>1. ASSUME NEW v PROVE v \in Past' <=> v # None /\ WasServed(v)'
  BY DEF Past, WasServed
<1> QED
  BY <1>1, PastServed DEF Grown

\* The first state is one the promise begins with.
LEMMA InitImplements == Init => Promise!Init
<1> SUFFICES ASSUME Init PROVE Promise!Init
  OBVIOUS
<1>1. /\ doc.status = "active" /\ doc.current = InitVersion /\ doc.purgeAfter = 0
      /\ kept = {} /\ clock = 0 /\ Len(timeline) = 1 /\ timeline[1] = InitVersion
  BY DEF Init, NoDeadline
<1>2. {timeline[r] : r \in 1..Len(timeline)} \ {None} = {InitVersion}
  BY <1>1, NamesAssumption
<1> QED
  BY <1>1, <1>2 DEF Promise!Init

\* A step that leaves the document and the clock alone is a stutter.
LEMMA StutterImplements ==
  ASSUME UNCHANGED <<doc, timeline, kept, clock>>
  PROVE  UNCHANGED Promise!vars
BY DEF Promise!vars

\* A publication is the abstract one of a new version, or a return to an old one.
LEMMA PublishImplements ==
  ASSUME LifecycleInv, NEW c \in Calls, Publish(c)
  PROVE  Promise!Next
<1>1. /\ doc.status = "active" /\ previous[c] = doc.current /\ previous[c] # target[c]
      /\ kind[c] # "rollback" => target[c] = c /\ ~WasServed(c)
      /\ kind[c] = "rollback" => WasServed(target[c])
  BY PublishShape
<1>2. target[c] \in Versions /\ target[c] # None
  BY CommandTypes, Names DEF LifecycleInv
<1>3. CompareAndSwap(expected[c], "active", target[c], NoDeadline) /\ clock' = clock
      /\ kept' = kept
  BY DEF Publish
<1>4. /\ Grown(target[c])
      /\ doc'.status = "active" /\ doc'.current = target[c] /\ doc'.purgeAfter = NoDeadline
  BY <1>2, <1>3, SwapGrows
<1>5. doc.purgeAfter = NoDeadline
  BY <1>1 DEF LifecycleInv, DocInv
<1>6. Past' = Past \cup {target[c]}
  BY <1>2, <1>4, PastGrows
<1>7. CASE kind[c] # "rollback"
  <2>1. target[c] \notin Past
    BY <1>1, <1>7, PastServed
  <2>2. Promise!Publish(target[c])
    BY <1>1, <1>3, <1>4, <1>5, <1>6, <2>1 DEF Promise!Publish, Past
  <2>3. \E v \in Versions : Promise!Publish(v) \/ Promise!Rollback(v)
    BY <1>2, <2>2 DEF Promise!Publish
  <2> QED
    BY <2>3 DEF Promise!Next
<1>8. CASE kind[c] = "rollback"
  <2>1. target[c] \in Past \ {doc.current}
    BY <1>1, <1>2, <1>8, PastServed
  <2>2. Past' = Past
    BY <1>6, <2>1
  <2>3. Promise!Rollback(target[c])
    BY <1>1, <1>3, <1>4, <1>5, <2>1, <2>2 DEF Promise!Rollback, Past
  <2>4. \E v \in Versions : Promise!Publish(v) \/ Promise!Rollback(v)
    BY <1>2, <2>3
  <2> QED
    BY <2>4 DEF Promise!Next
<1> QED
  BY <1>7, <1>8

\* A delete hides what was served, and keeps it.
LEMMA DeleteImplements ==
  ASSUME LifecycleInv, NEW c \in Calls, RequestDelete(c)
  PROVE  Promise!Next
<1>1. /\ doc.status = "active" /\ clock' = clock
      /\ CompareAndSwap(doc.revision, "delete_pending", None, clock + Retention)
  BY DEF RequestDelete
<1>2. /\ Grown(None)
      /\ doc'.status = "delete_pending" /\ doc'.current = None
      /\ doc'.purgeAfter = clock + Retention
  BY <1>1, SwapGrows
<1>3. Past' = Past
  BY <1>2, PastGrows
<1>4. kept' = {doc.current}
  BY DEF RequestDelete
<1>5. Promise!Hide
  BY <1>1, <1>2, <1>3, <1>4 DEF Promise!Hide, Past
<1> QED
  BY <1>5 DEF Promise!Next

\* A restore serves one of the versions the tombstone keeps.
LEMMA RestoreImplements ==
  ASSUME LifecycleInv, NEW c \in Calls, CommitRestore(c)
  PROVE  Promise!Next
<1>1. doc.status = "delete_pending" /\ target[c] \in kept /\ WasServed(target[c])
  BY RestoreShape
<1>2. /\ CompareAndSwap(expected[c], "active", target[c], NoDeadline)
      /\ clock' = clock /\ kept' = {}
  BY DEF CommitRestore
<1>3. target[c] \in Versions
  BY CommandTypes DEF LifecycleInv
<1>4. /\ Grown(target[c])
      /\ doc'.status = "active" /\ doc'.current = target[c] /\ doc'.purgeAfter = 0
  BY <1>2, <1>3, SwapGrows DEF NoDeadline
<1>5. target[c] \in Past
  BY <1>1, <1>3, Names, PastServed
<1>6. Past' = Past
  BY <1>4, <1>5, PastGrows
<1>7. Promise!Reveal(target[c])
  BY <1>1, <1>2, <1>4, <1>6 DEF Promise!Reveal, Past
<1>8. \E v \in Versions : Promise!Reveal(v)
  BY <1>3, <1>7
<1> QED
  BY <1>8 DEF Promise!Next

\* A cancelled deletion of a hidden document is a recall, one of an active document
\* changes nothing it promises.
LEMMA CancelImplements ==
  ASSUME LifecycleInv, NEW d \in Calls, CancelDelete(d)
  PROVE  Promise!Next \/ UNCHANGED Promise!vars
<1>1. /\ UNCHANGED <<doc, timeline, clock>> /\ kind[d] = "delete"
      /\ kept' = IF doc.status = "delete_pending" THEN kept \cup {previous[d]} ELSE kept
  BY DEF CancelDelete
<1>2. previous[d] \in Versions /\ WasServed(previous[d])
  BY <1>1, DeletedServed
<1>3. CASE doc.status = "delete_pending"
  <2>1. previous[d] \in Past /\ Past' = Past
    BY <1>1, <1>2, Names, PastServed DEF Past
  <2>2. Promise!Recall(previous[d])
    BY <1>1, <1>3, <2>1 DEF Promise!Recall, Past
  <2>3. \E v \in Versions : Promise!Recall(v)
    BY <1>2, <2>2
  <2> QED
    BY <2>3 DEF Promise!Next
<1>4. CASE doc.status # "delete_pending"
  BY <1>1, <1>4, StutterImplements
<1> QED
  BY <1>3, <1>4

\* A purge erases an expired tombstone.
LEMMA PurgeImplements ==
  ASSUME LifecycleInv, TypeInv', NEW d \in Dispatchers, CommitPurge(d)
  PROVE  Promise!Next
<1>1. doc.status = "delete_pending" /\ doc.purgeAfter <= clock
  BY PurgePreserves
<1>2. /\ CompareAndSwap(disp[d].revision, "deleted", None, doc.purgeAfter)
      /\ clock' = clock /\ kept' = {}
  BY DEF CommitPurge
<1>3. /\ Grown(None) /\ doc'.status = "deleted" /\ doc'.current = None
      /\ doc'.purgeAfter = doc.purgeAfter
  BY <1>2, SwapGrows
<1>4. doc.current = None
  BY <1>1 DEF LifecycleInv, DocInv
<1>5. Past' = Past
  BY <1>3, PastGrows
<1>6. Promise!Erase
  BY <1>1, <1>2, <1>3, <1>4, <1>5 DEF Promise!Erase, Past
<1> QED
  BY <1>6 DEF Promise!Next

\* Every step is a step of the promise, or none.
LEMMA StepImplements ==
  LifecycleInv /\ [Next]_vars => [Promise!Next]_(Promise!vars)
<1> SUFFICES ASSUME LifecycleInv, [Next]_vars
             PROVE  Promise!Next \/ UNCHANGED Promise!vars
  OBVIOUS
<1> USE DEF rows, index, command, history
<1>0. TypeInv'
  BY StepTypeInv DEF LifecycleInv
<1>1. ASSUME NEW c \in Calls, CommandStep(c)
      PROVE  Promise!Next \/ UNCHANGED Promise!vars
  <2>1. CASE Publish(c)
    BY <2>1, PublishImplements
  <2>2. CASE RequestDelete(c)
    BY <2>2, DeleteImplements
  <2>3. CASE CommitRestore(c)
    BY <2>3, RestoreImplements
  <2>4. CASE ~(Publish(c) \/ RequestDelete(c) \/ CommitRestore(c))
    <3>1. Quiet(c)
      BY <1>1, <2>4, StoringStep, RegisterReads, RollbackReads, RestoreReads,
         AdvancingStep DEF CommandStep
    <3> QED
      BY <3>1, StutterImplements DEF Quiet
  <2> QED
    BY <2>1, <2>2, <2>3, <2>4
<1>6. ASSUME NEW c \in Calls, CancelDelete(c)
      PROVE  Promise!Next \/ UNCHANGED Promise!vars
  BY <1>6, CancelImplements
<1>2. ASSUME NEW d \in Dispatchers, DispatcherStep(d)
      PROVE  Promise!Next \/ UNCHANGED Promise!vars
  <2>1. CASE CommitPurge(d)
    BY <1>0, <2>1, PurgeImplements
  <2>2. CASE ~CommitPurge(d)
    <3>1. UNCHANGED <<doc, timeline, kept, clock>>
      BY <1>2, <2>2 DEF DispatcherStep, TakeDueEvent, ReadTombstone, DeleteProjection,
         DeleteObject, PurgeConflicts, PurgeTimesOut, SaveEvent, DispatcherCrash
    <3> QED
      BY <3>1, StutterImplements
  <2> QED
    BY <2>1, <2>2
<1>3. ASSUME NEW q \in Readers, Retrieve(q) \/ Confirm(q)
      PROVE  UNCHANGED Promise!vars
  <2>1. UNCHANGED <<doc, timeline, kept, clock>>
    BY <1>3 DEF Retrieve, Confirm
  <2> QED
    BY <2>1, StutterImplements
<1>4. CASE Tick
  <2>1. Promise!Tick
    BY <1>4 DEF Tick, Promise!Tick
  <2> QED
    BY <2>1 DEF Promise!Next
<1>5. CASE UNCHANGED vars
  BY <1>5, StutterImplements DEF vars
<1> QED
  BY <1>1, <1>2, <1>3, <1>4, <1>5, <1>6 DEF Next

\* Whatever workers, publishers, restores and purges do to the three stores,
\* seen through its rows the document serves one version after the other, a
\* restore brings back what the last delete hid, or what a deletion cancelled since
\* had hidden, and only an expired tombstone is erased.
THEOREM ServesOneVersion == Spec => ImplementsServedDocument
<1>1. Spec => Promise!Init /\ [][Promise!Next]_(Promise!vars)
  BY InitImplements, StepImplements, LifecycleInvariant, PTL DEF Spec
<1> QED
  BY <1>1 DEF ImplementsServedDocument, Promise!Spec

=============================================================================
