------------------------ MODULE DocumentLifecycleContent ------------------------
(***************************************************************************)
(* What the lifecycle promises of the search index and the object store:   *)
(* a version in service for the first time is found, and what is in        *)
(* service or may still be restored keeps its records and its object.      *)
(* Nothing ties those stores to the rows but the order of the calls and    *)
(* the fencing token, so the invariant says who may touch which records:   *)
(* a candidate's are its own publication's as long as nobody served it,    *)
(* and a purge only ever finds versions older than the delete it           *)
(* completes.                                                              *)
(***************************************************************************)
EXTENDS DocumentLifecycleSafety

-----------------------------------------------------------------------------
(* The inductive invariant.                                                  *)

\* The call builds a candidate version of its own.
Builds(c) == kind[c] \in {"update", "reparse"}

\* A purge that is deleting records or objects.
Purging(d) == disp[d].pc \in {"purging", "erasing", "emptied"}

\* Only a call that builds a candidate has a row of its own, from its registration
\* on, which found a version in service; the others publish what was served, and
\* what a committed one still has to retire it replaced.
LocalInv(c) ==
    /\ pc[c] \in {"stored", "queued", "loaded", "ingesting", "parsed", "indexed", "failed"}
          => Builds(c)
    /\ pc[c] = "rollback" => ~Builds(c)
    /\ versions[c] # "absent" <=> Builds(c) /\ pc[c] \notin {"idle", "stored"}
    /\ Builds(c) /\ pc[c] \notin {"idle", "stored"}
          => expected[c] >= 1 /\ timeline[expected[c]] # None
    /\ kind[c] \in {"rollback", "restore"} => WasServed(target[c])
    /\ pc[c] = "retire" => expected[c] >= 1 /\ previous[c] = timeline[expected[c]]

\* What a purge found was registered before the delete it completes.
FoundInv(d) ==
    Purging(d) =>
        /\ disp[d].revision \in 1..Len(timeline) /\ timeline[disp[d].revision] = None
        /\ \A v \in disp[d].found : /\ versions[v] # "absent"
                                    /\ v \in Calls => expected[v] < disp[d].revision
        /\ disp[d].pc = "purging" => disp[d].left \subseteq disp[d].found

\* Nobody fences the records of a candidate but its own publication; and once that
\* has promoted them they stay searchable, while its revision is the last one.
SearchInv ==
    /\ timeline[1] = InitVersion
    /\ \A c \in Calls :
          /\ ~WasServed(c) /\ token[c] # 0 => Builds(c) /\ pc[c] = "promoted"
          /\ Builds(c) /\ pc[c] = "promoted" /\ expected[c] = Len(timeline)
                => c \in searchable
    /\ FirstPublicationSearchable

\* A document in service, or whose retention is running.
Recoverable ==
    ~overdue /\ (doc.status = "active" \/ (doc.status = "delete_pending" /\ clock < doc.purgeAfter))

\* While a document is recoverable nothing of it has ever been deleted: whatever has a
\* row has its object, whatever was served or is about to be has its records.
KeptInv ==
    Recoverable =>
        /\ \A d \in Dispatchers : ~Purging(d)
        /\ \A v \in Versions : /\ versions[v] # "absent" => objectKey[v] \in objects
                               /\ WasServed(v) => v \in indexed
        /\ \A c \in Calls :
              /\ pc[c] = "stored" => (IF kind[c] = "reparse" THEN source[c] ELSE c) \in objects
              /\ Builds(c) /\ pc[c] \in {"indexed", "publish", "checked", "validated", "promoted"}
                    => c \in indexed

\* The strengthening of FirstPublicationSearchable and KeptWhileRecoverable.
ContentInv ==
    /\ LifecycleInv
    /\ \A c \in Calls : LocalInv(c)
    /\ \A d \in Dispatchers : FoundInv(d)
    /\ SearchInv /\ KeptInv

-----------------------------------------------------------------------------
(* Types.                                                                    *)

\* The types these proofs need beyond CommandTypes.
LEMMA StoreTypes ==
  ASSUME TypeInv
  PROVE  /\ source \in [Calls -> Versions] /\ due \in [Calls -> Nat]
         /\ objectKey \in [Versions -> Versions] /\ token \in [Versions -> Nat]
         /\ disp \in [Dispatchers -> Dispatch] /\ clock \in Nat /\ overdue \in BOOLEAN
         /\ searchable \subseteq indexed /\ indexed \subseteq Versions
  BY BoundsAssumption DEF TypeInv, TypeOK

-----------------------------------------------------------------------------
(* What a step may do to the calls and to the stores.                        *)

\* All that a call has read and written of its own.
Rests(e) == Keeps(e) /\ UNCHANGED <<source[e], due[e], objectKey[e]>>

\* A step leaves alone what belongs to the calls that do not take it.
LEMMA OneMoves ==
  ASSUME LifecycleInv, [Next]_vars, NEW e \in Calls
  PROVE  CommandStep(e) \/ Rests(e)
<1> USE DEF rows, index, command, history
<1>0. /\ pc \in [Calls -> Phase] /\ expected \in [Calls -> Nat]
      /\ kind \in [Calls -> {"update", "reparse", "rollback", "delete", "restore"}]
      /\ target \in [Calls -> Versions] /\ previous \in [Calls -> Versions \cup {None}]
      /\ opStatus \in [Calls -> {"absent", "pending", "cancel_requested", "succeeded"}]
      /\ source \in [Calls -> Versions] /\ due \in [Calls -> Nat]
      /\ objectKey \in [Versions -> Versions] /\ e \in Versions
  BY CommandTypes, StoreTypes, Names DEF LifecycleInv, OpStatus
<1>1. ASSUME NEW c \in Calls \ {e}, CommandStep(c) PROVE Rests(e)
  <2>1. CASE PutSource(c) \/ ReadCurrent(c) \/ Register(c)
    BY <1>0, <2>1 DEF PutSource, ReadCurrent, Register, Goto, Rests, Keeps
  <2>2. CASE LoadJob(c) \/ MarkIngesting(c) \/ ParseSource(c) \/ WriteCandidate(c)
    BY <1>0, <2>2 DEF LoadJob, MarkIngesting, ParseSource, WriteCandidate, Goto, Rests, Keeps
  <2>3. CASE SaveReady(c) \/ IngestFails(c) \/ AddRollback(c) \/ Retire(c)
    BY <1>0, <2>3 DEF SaveReady, IngestFails, AddRollback, Retire, Goto, Rests, Keeps
  <2>4. CASE LoadPublication(c) \/ Validate(c) \/ Promote(c)
    BY <1>0, <2>4 DEF LoadPublication, Validate, Promote, Goto, Rests, Keeps
  <2>5. CASE ReadRollback(c)
    BY <1>0, <2>5 DEF ReadRollback, Goto, Rests, Keeps
  <2>6. CASE ReadRestore(c)
    BY <1>0, <2>6 DEF ReadRestore, Goto, Rests, Keeps
  <2>7. CASE Publish(c)
    BY <1>0, <2>7 DEF Publish, Goto, Rests, Keeps
  <2>8. CASE RequestDelete(c)
    BY <1>0, <2>8 DEF RequestDelete, Goto, Rests, Keeps
  <2>9. CASE CommitRestore(c)
    BY <1>0, <2>9 DEF CommitRestore, Goto, Rests, Keeps
  <2> QED
    BY <1>1, <2>1, <2>2, <2>3, <2>4, <2>5, <2>6, <2>7, <2>8, <2>9 DEF CommandStep
<1>5. ASSUME NEW c \in Calls, CancelDelete(c) PROVE Rests(e)
  BY <1>0, <1>5 DEF CancelDelete, Rests, Keeps
<1>2. ASSUME NEW d \in Dispatchers, DispatcherStep(d) PROVE Rests(e)
  BY <1>2 DEF DispatcherStep, TakeDueEvent, ReadTombstone, DeleteProjection, DeleteObject,
              CommitPurge, PurgeConflicts, PurgeTimesOut, SaveEvent, DispatcherCrash,
              Rests, Keeps
<1>3. ASSUME NEW q \in Readers, Retrieve(q) \/ Confirm(q) PROVE Rests(e)
  BY <1>3 DEF Retrieve, Confirm, Rests, Keeps
<1>4. CASE Tick \/ UNCHANGED vars
  BY <1>4 DEF Tick, vars, Rests, Keeps
<1> QED
  BY <1>1, <1>2, <1>3, <1>4, <1>5 DEF Next

\* The document only moves by a commit.
LEMMA OnlyCommits ==
  ASSUME LifecycleInv, [Next]_vars
  PROVE  \/ UNCHANGED <<doc, timeline>> /\ kept \subseteq kept'
         \/ \E c \in Calls : Publish(c) \/ CommitRestore(c) \/ RequestDelete(c)
         \/ \E d \in Dispatchers : CommitPurge(d)
<1> USE DEF rows, index, command, history
<1>1. ASSUME NEW c \in Calls, CommandStep(c), ~Publish(c), ~CommitRestore(c), ~RequestDelete(c)
      PROVE  UNCHANGED <<doc, timeline>> /\ kept \subseteq kept'
  BY <1>1 DEF CommandStep, PutSource, ReadCurrent, Register, LoadJob, MarkIngesting,
     ParseSource, WriteCandidate, SaveReady, IngestFails, ReadRollback, AddRollback,
     LoadPublication, Validate, Promote, Retire, ReadRestore
<1>2. ASSUME NEW d \in Dispatchers, DispatcherStep(d), ~CommitPurge(d)
      PROVE  UNCHANGED <<doc, timeline>> /\ kept \subseteq kept'
  BY <1>2 DEF DispatcherStep, TakeDueEvent, ReadTombstone, DeleteProjection, DeleteObject,
              PurgeConflicts, PurgeTimesOut, SaveEvent, DispatcherCrash
<1>3. ASSUME \/ \E q \in Readers : Retrieve(q) \/ Confirm(q)
             \/ \E c \in Calls : CancelDelete(c)
             \/ Tick \/ UNCHANGED vars
      PROVE  UNCHANGED <<doc, timeline>> /\ kept \subseteq kept'
  BY <1>3 DEF Retrieve, Confirm, CancelDelete, Tick, vars
<1> QED
  BY <1>1, <1>2, <1>3 DEF Next

\* The timeline only grows.
LEMMA StepGrows ==
  ASSUME LifecycleInv, [Next]_vars
  PROVE  Grows
<1>0. TypeInv /\ target \in [Calls -> Versions]
  BY CommandTypes DEF LifecycleInv
<1>1. ASSUME NEW revision, NEW status, NEW x \in Versions \cup {None}, NEW deadline,
             CompareAndSwap(revision, status, x, deadline)
      PROVE  Grows
  BY <1>1, SwapGrows DEF Grown
<1>2. ASSUME NEW c \in Calls, Publish(c) \/ CommitRestore(c) \/ RequestDelete(c) PROVE Grows
  BY <1>0, <1>1, <1>2 DEF Publish, CommitRestore, RequestDelete
<1>3. ASSUME NEW d \in Dispatchers, CommitPurge(d) PROVE Grows
  BY <1>1, <1>3 DEF CommitPurge
<1> QED
  BY <1>0, <1>2, <1>3, OnlyCommits, NothingGrows

\* What was served has a row as long as the document is not purged.
LEMMA ServedHasRow ==
  ASSUME LifecycleInv, doc.status # "deleted", NEW v \in Versions, WasServed(v)
  PROVE  versions[v] # "absent"
BY DEF LifecycleInv, StatusInv, Retired

\* The version has its row after the step as before it.
RowStays(v) == versions'[v] # "absent" <=> versions[v] # "absent"

\* A row appears when its call registers it, and never disappears.
LEMMA RowsAppear ==
  ASSUME LifecycleInv, [Next]_vars, \A c \in Calls : LocalInv(c),
         \A d \in Dispatchers : FoundInv(d), NEW v \in Versions
  PROVE  IF v \in Calls /\ Register(v) THEN versions'[v] # "absent" ELSE RowStays(v)
<1> USE DEF rows, index, command, history
<1>0. /\ versions \in [Versions -> VersionStatus] /\ Calls \subseteq Versions
      /\ target \in [Calls -> Versions]
  BY CommandTypes, Names DEF LifecycleInv
<1>1. ASSUME v \in Calls, Register(v) PROVE versions'[v] # "absent"
  BY <1>0, <1>1 DEF Register
<1>2. ASSUME NEW c \in Calls, Register(c) PROVE RowStays(v) \/ v = c
  BY <1>0, <1>2 DEF Register, RowStays
<1>3. ASSUME NEW c \in Calls, MarkIngesting(c) \/ SaveReady(c) \/ IngestFails(c) PROVE RowStays(v)
  <2>1. versions[c] # "absent"
    BY <1>3 DEF MarkIngesting, SaveReady, IngestFails, Goto, LocalInv
  <2> QED
    BY <1>0, <1>3, <2>1 DEF MarkIngesting, SaveReady, IngestFails, RowStays
<1>4. ASSUME NEW c \in Calls, Publish(c) PROVE RowStays(v)
  <2>1. /\ kind[c] # "rollback" => target[c] = c
        /\ kind[c] = "rollback" => WasServed(target[c])
        /\ kind[c] \in {"update", "reparse", "rollback"} /\ doc.status = "active"
        /\ previous[c] = doc.current
    BY <1>4, PublishShape
  <2>2. pc[c] = "promoted"
    BY <1>4 DEF Publish, Goto
  <2>3. versions[target[c]] # "absent"
    <3>1. CASE kind[c] = "rollback"
      BY <1>0, <2>1, <3>1, ServedHasRow
    <3>2. CASE kind[c] # "rollback"
      BY <2>1, <2>2, <3>2 DEF LocalInv, Builds
    <3> QED
      BY <3>1, <3>2
  <2>4. versions[doc.current] # "absent"
    BY <2>1 DEF LifecycleInv, StatusInv, Last
  <2> QED
    BY <1>0, <1>4, <2>1, <2>3, <2>4 DEF Publish, RowStays
<1>5. ASSUME NEW c \in Calls, CommitRestore(c) PROVE RowStays(v)
  <2>1. doc.status = "delete_pending" /\ WasServed(target[c])
    BY <1>5, RestoreShape
  <2>2. versions[target[c]] # "absent"
    BY <1>0, <2>1, ServedHasRow
  <2> QED
    BY <1>0, <1>5, <2>2 DEF CommitRestore, RowStays
<1>6. ASSUME NEW d \in Dispatchers, CommitPurge(d) PROVE RowStays(v)
  <2>1. \A u \in disp[d].found : versions[u] # "absent"
    BY <1>6 DEF CommitPurge, FoundInv, Purging
  <2> QED
    BY <1>0, <1>6, <2>1 DEF CommitPurge, RowStays
<1>7. ASSUME NEW c \in Calls, CommandStep(c), ~Register(c), ~MarkIngesting(c), ~SaveReady(c),
             ~IngestFails(c), ~Publish(c), ~CommitRestore(c)
      PROVE  versions' = versions
  BY <1>7 DEF CommandStep, PutSource, ReadCurrent, LoadJob, ParseSource, WriteCandidate,
     ReadRollback, AddRollback, LoadPublication, Validate, Promote, Retire, RequestDelete,
     ReadRestore
<1>8. ASSUME NEW d \in Dispatchers, DispatcherStep(d), ~CommitPurge(d)
      PROVE  versions' = versions
  BY <1>8 DEF DispatcherStep, TakeDueEvent, ReadTombstone, DeleteProjection, DeleteObject,
              PurgeConflicts, PurgeTimesOut, SaveEvent, DispatcherCrash
<1>9. ASSUME \/ \E q \in Readers : Retrieve(q) \/ Confirm(q)
             \/ \E c \in Calls : CancelDelete(c)
             \/ Tick \/ UNCHANGED vars
      PROVE  versions' = versions
  BY <1>9 DEF Retrieve, Confirm, CancelDelete, Tick, vars
<1>10. versions' = versions => RowStays(v)
  BY DEF RowStays
<1>11. (v \in Calls /\ Register(v)) \/ RowStays(v)
  <2>1. ASSUME NEW c \in Calls, CommandStep(c)
        PROVE  (v \in Calls /\ Register(v)) \/ RowStays(v)
    BY <1>2, <1>3, <1>4, <1>5, <1>7, <1>10, <2>1
  <2>2. ASSUME NEW d \in Dispatchers, DispatcherStep(d) PROVE RowStays(v)
    BY <1>6, <1>8, <1>10, <2>2
  <2> QED
    BY <1>9, <1>10, <2>1, <2>2 DEF Next
<1> QED
  BY <1>1, <1>11

\* What is known of a call that rests stays so.
LEMMA LocalRests ==
  ASSUME LifecycleInv, Grows, NEW e \in Calls, LocalInv(e), Rests(e), RowStays(e)
  PROVE  LocalInv(e)'
<1>0. /\ expected[e] \in Nat /\ Len(timeline) \in Nat /\ expected[e] <= Len(timeline)
      /\ TypeInv
  BY CommandTypes DEF LifecycleInv, CallInv, ReadsTimeline
<1>1. expected[e] >= 1 => timeline'[expected[e]] = timeline[expected[e]]
  BY <1>0 DEF Grows
<1>2. WasServed(target[e]) => WasServed(target[e])'
  <2>1. ASSUME NEW v, v = target[e], WasServed(v) PROVE WasServed(v)' /\ v = target'[e]
    BY <1>0, <2>1, ServedForever DEF Rests, Keeps
  <2> QED
    BY <2>1 DEF WasServed
<1>3. /\ pc'[e] = pc[e] /\ kind'[e] = kind[e] /\ expected'[e] = expected[e]
      /\ previous'[e] = previous[e] /\ (Builds(e)' <=> Builds(e))
  BY DEF Rests, Keeps, Builds
<1>4. expected[e] >= 1 => timeline'[expected'[e]] = timeline[expected[e]]
  BY <1>1, <1>3
<1> QED
  BY <1>2, <1>3, <1>4 DEF LocalInv, RowStays

\* A call that goes on knows what it knew.
LEMMA LocalAdvances ==
  ASSUME LifecycleInv, NEW e \in Calls, LocalInv(e), RowStays(e),
         \/ LoadJob(e)    \/ MarkIngesting(e) \/ ParseSource(e) \/ WriteCandidate(e)
         \/ SaveReady(e)  \/ IngestFails(e)   \/ AddRollback(e)
         \/ LoadPublication(e) \/ Validate(e) \/ Promote(e) \/ Retire(e)
  PROVE  LocalInv(e)'
<1>0. pc \in [Calls -> Phase]
  BY CommandTypes DEF LifecycleInv
<1>1. /\ UNCHANGED <<timeline, kind, expected, target, previous>>
      /\ pc'[e] \notin {"idle", "stored"}
  BY AdvancingStep DEF Advances
<1>2. /\ pc'[e] \in {"queued", "loaded", "ingesting", "parsed", "indexed", "failed"}
            => pc[e] \in {"queued", "loaded", "ingesting", "parsed", "indexed"}
      /\ pc[e] \notin {"idle", "stored"} /\ pc'[e] \notin {"retire", "rollback"}
  <2>1. CASE LoadJob(e) \/ MarkIngesting(e) \/ ParseSource(e) \/ WriteCandidate(e)
    BY <1>0, <2>1 DEF LoadJob, MarkIngesting, ParseSource, WriteCandidate, Goto
  <2>2. CASE SaveReady(e) \/ IngestFails(e) \/ AddRollback(e)
    BY <1>0, <2>2 DEF SaveReady, IngestFails, AddRollback, Goto
  <2>3. CASE LoadPublication(e) \/ Validate(e) \/ Promote(e) \/ Retire(e)
    BY <1>0, <2>3 DEF LoadPublication, Validate, Promote, Retire, Goto
  <2> QED
    BY <2>1, <2>2, <2>3
<1>3. (Builds(e)' <=> Builds(e)) /\ (WasServed(target[e]) => WasServed(target[e])')
  BY <1>1 DEF Builds, WasServed
<1> QED
  BY <1>1, <1>2, <1>3 DEF LocalInv, RowStays

\* A call that starts has no row.
LEMMA StartHasNoRow ==
  ASSUME NEW e \in Calls, LocalInv(e), pc[e] \in {"idle", "stored"}
  PROVE  versions[e] = "absent"
BY DEF LocalInv

\* What a call reads when it starts is in the timeline.
LEMMA LocalStarts ==
  ASSUME LifecycleInv, NEW e \in Calls, LocalInv(e),
         PutSource(e) \/ ReadCurrent(e) \/ Register(e) \/ ReadRollback(e) \/ ReadRestore(e),
         IF Register(e) THEN versions'[e] # "absent" ELSE RowStays(e)
  PROVE  LocalInv(e)'
<1> USE DEF rows, index, command, history
<1>0. /\ pc \in [Calls -> Phase] /\ expected \in [Calls -> Nat]
      /\ kind \in [Calls -> {"update", "reparse", "rollback", "delete", "restore"}]
      /\ DocInv /\ Len(timeline) \in Nat
  BY CommandTypes DEF LifecycleInv
<1>1. CASE PutSource(e) \/ ReadCurrent(e)
  <2>1. /\ pc[e] = "idle" /\ pc'[e] = "stored" /\ kind'[e] \in {"update", "reparse"}
        /\ ~Register(e)
    BY <1>0, <1>1 DEF PutSource, ReadCurrent, Register, Goto
  <2> QED
    BY <2>1, StartHasNoRow DEF LocalInv, RowStays, Builds
<1>2. CASE Register(e)
  <2>1. /\ pc[e] = "stored" /\ pc'[e] = "queued" /\ UNCHANGED <<kind, target, timeline>>
        /\ expected'[e] = doc.revision /\ doc.current # None
    BY <1>0, <1>2 DEF Register, Goto
  <2>2. Builds(e) /\ Builds(e)'
    BY <2>1 DEF LocalInv, Builds
  <2>3. expected'[e] >= 1 /\ timeline'[expected'[e]] # None
    BY <1>0, <2>1 DEF DocInv
  <2> QED
    BY <1>2, <2>1, <2>2, <2>3 DEF LocalInv, Builds
<1>3. CASE ReadRollback(e)
  <2>1. /\ pc[e] = "idle" /\ pc'[e] = "rollback" /\ kind'[e] = "rollback" /\ ~Register(e)
    BY <1>0, <1>3 DEF ReadRollback, Register, Goto
  <2>2. WasServed(target[e])'
    BY <1>3, <2>1, RollbackReads DEF CallInv, PublishesItsOwn, Pending
  <2> QED
    BY <2>1, <2>2, StartHasNoRow DEF LocalInv, RowStays, Builds
<1>4. CASE ReadRestore(e)
  <2>1. /\ pc[e] = "idle" /\ pc'[e] = "checked" /\ kind'[e] = "restore" /\ ~Register(e)
        /\ expected'[e] = doc.revision /\ UNCHANGED <<doc, timeline>>
        /\ doc.status = "delete_pending"
    BY <1>0, <1>4 DEF ReadRestore, Register, Goto
  <2>3. WasServed(target[e])'
    <3>1. target'[e] \in kept' /\ kept' = kept
      BY <1>0, <1>4, <2>1, RestoreReads
         DEF CallInv, ChecksHold, Checked, DocInv, ReadRestore
    <3>2. ASSUME NEW v, v = target'[e] PROVE WasServed(v)
      BY <3>1, <3>2 DEF LifecycleInv, TombstoneInv
    <3> QED
      BY <2>1, <3>2 DEF WasServed
  <2> QED
    BY <2>1, <2>3, StartHasNoRow DEF LocalInv, RowStays, Builds
<1> QED
  BY <1>1, <1>2, <1>3, <1>4

\* What a call commits was served, and it replaced what it found.
LEMMA LocalCommits ==
  ASSUME LifecycleInv, Grows, NEW e \in Calls, LocalInv(e), RowStays(e),
         Publish(e) \/ RequestDelete(e) \/ CommitRestore(e)
  PROVE  LocalInv(e)'
<1> USE DEF rows, index, command, history
<1>0. /\ pc \in [Calls -> Phase] /\ expected \in [Calls -> Nat]
      /\ kind \in [Calls -> {"update", "reparse", "rollback", "delete", "restore"}]
      /\ previous \in [Calls -> Versions \cup {None}]
      /\ DocInv /\ Len(timeline) \in Nat /\ TypeInv
      /\ expected[e] <= Len(timeline)
  BY CommandTypes DEF LifecycleInv, CallInv, ReadsTimeline
<1>1. CASE Publish(e) \/ CommitRestore(e)
  <2>1. /\ pc[e] = "promoted" /\ UNCHANGED <<kind, expected, target, previous>>
        /\ pc'[e] \in {"retire", "done"}
        /\ pc'[e] = "retire" => Publish(e)
    BY <1>0, <1>1 DEF Publish, CommitRestore, Goto
  <2>2. /\ expected[e] >= 1 => timeline'[expected[e]] = timeline[expected[e]]
        /\ (Builds(e)' <=> Builds(e))
    BY <1>0, <2>1 DEF Grows, Builds
  <2>3. WasServed(target[e]) => WasServed(target[e])'
    <3>1. ASSUME NEW v, v = target[e], WasServed(v) PROVE WasServed(v)' /\ v = target'[e]
      BY <1>0, <2>1, <3>1, ServedForever
    <3> QED
      BY <3>1 DEF WasServed
  <2>4. Publish(e) => expected[e] >= 1 /\ previous[e] = timeline[expected[e]]
    BY <1>0, PublishShape DEF DocInv
  <2> QED
    BY <2>1, <2>2, <2>3, <2>4 DEF LocalInv, RowStays
<1>2. CASE RequestDelete(e)
  <2>1. /\ pc[e] = "idle" /\ pc'[e] = "retire" /\ kind'[e] = "delete"
        /\ expected'[e] = doc.revision /\ previous'[e] = doc.current
    BY <1>0, <1>2 DEF RequestDelete, Goto
  <2>2. /\ doc.revision = Len(timeline) /\ Len(timeline) \in 1..Len(timeline)
        /\ timeline[Len(timeline)] = doc.current
    BY <1>0 DEF DocInv
  <2>3. timeline'[Len(timeline)] = timeline[Len(timeline)]
    BY <2>2 DEF Grows
  <2>4. expected'[e] >= 1 /\ previous'[e] = timeline'[expected'[e]]
    BY <2>1, <2>2, <2>3
  <2> QED
    BY <2>1, <2>4, StartHasNoRow DEF LocalInv, RowStays, Builds
<1> QED
  BY <1>1, <1>2

\* Every step keeps what is known of the calls.
LEMMA LocalKept ==
  ASSUME LifecycleInv, [Next]_vars, \A c \in Calls : LocalInv(c),
         \A d \in Dispatchers : FoundInv(d), NEW e \in Calls
  PROVE  LocalInv(e)'
<1>0. e \in Versions /\ LocalInv(e) /\ Grows
  BY Names, StepGrows
<1>1. IF Register(e) THEN versions'[e] # "absent" ELSE RowStays(e)
  BY <1>0, RowsAppear
<1>2. CASE Rests(e) /\ ~CommandStep(e)
  <2>1. ~Register(e)
    BY <1>2 DEF CommandStep
  <2> QED
    BY <1>0, <1>1, <1>2, <2>1, LocalRests
<1>3. CASE CommandStep(e)
  <2>1. Register(e) => pc[e] = "stored"
    BY DEF Register, Goto
  <2>2. CASE \/ PutSource(e) \/ ReadCurrent(e) \/ Register(e) \/ ReadRollback(e)
             \/ ReadRestore(e)
    BY <1>0, <1>1, <2>2, LocalStarts
  <2>3. CASE Publish(e) \/ RequestDelete(e) \/ CommitRestore(e)
    <3>1. ~Register(e)
      BY <2>1, <2>3 DEF Publish, RequestDelete, CommitRestore, Goto
    <3> QED
      BY <1>0, <1>1, <2>3, <3>1, LocalCommits
  <2>4. CASE \/ LoadJob(e)    \/ MarkIngesting(e) \/ ParseSource(e) \/ WriteCandidate(e)
             \/ SaveReady(e)  \/ IngestFails(e)   \/ AddRollback(e)
             \/ LoadPublication(e) \/ Validate(e) \/ Promote(e) \/ Retire(e)
    <3>1. ~Register(e)
      BY <2>1, <2>4 DEF LoadJob, MarkIngesting, ParseSource, WriteCandidate, SaveReady,
         IngestFails, AddRollback, LoadPublication, Validate, Promote, Retire, Goto
    <3> QED
      BY <1>0, <1>1, <2>4, <3>1, LocalAdvances
  <2> QED
    BY <1>3, <2>2, <2>3, <2>4 DEF CommandStep
<1> QED
  BY <1>2, <1>3, OneMoves

-----------------------------------------------------------------------------
(* Purges.                                                                   *)

\* A purge is only moved on by its own dispatcher.
LEMMA OneDispatches ==
  ASSUME TypeInv, [Next]_vars, NEW d \in Dispatchers
  PROVE  disp'[d] = disp[d] \/ DispatcherStep(d)
<1> USE DEF rows, index, command, history
<1>0. disp \in [Dispatchers -> Dispatch]
  BY StoreTypes
<1>1. ASSUME NEW e \in Dispatchers \ {d}, DispatcherStep(e) PROVE disp'[d] = disp[d]
  BY <1>0, <1>1 DEF DispatcherStep, TakeDueEvent, ReadTombstone, DeleteProjection,
     DeleteObject, CommitPurge, PurgeConflicts, PurgeTimesOut, SaveEvent, DispatcherCrash
<1>2. ASSUME NEW c \in Calls, CommandStep(c) PROVE disp' = disp
  BY <1>2 DEF CommandStep, PutSource, ReadCurrent, Register, LoadJob, MarkIngesting,
     ParseSource, WriteCandidate, SaveReady, IngestFails, ReadRollback, AddRollback,
     LoadPublication, Validate, Promote, Publish, Retire, RequestDelete, ReadRestore,
     CommitRestore
<1>3. ASSUME NEW q \in Readers, Retrieve(q) \/ Confirm(q) PROVE disp' = disp
  BY <1>3 DEF Retrieve, Confirm
<1>4. CASE Tick \/ UNCHANGED vars \/ \E c \in Calls : CancelDelete(c)
  BY <1>4 DEF Tick, CancelDelete, vars
<1> QED
  BY <1>1, <1>2, <1>3, <1>4 DEF Next

\* A purge starts by reading the tombstone, and goes on with what it found.
LEMMA PurgeMoves ==
  ASSUME TypeInv, NEW d \in Dispatchers, DispatcherStep(d), Purging(d)'
  PROVE  \/ /\ ReadTombstone(d)
            /\ doc.status # "deleted" /\ doc.purgeAfter # NoDeadline
            /\ doc.purgeAfter <= clock
            /\ disp'[d].revision = doc.revision /\ disp'[d].left = disp'[d].found
            /\ disp'[d].found = {v \in Versions : versions[v] # "absent"}
         \/ /\ DeleteProjection(d) \/ DeleteObject(d)
            /\ disp'[d].revision = disp[d].revision /\ disp'[d].found = disp[d].found
            /\ Purging(d)
            /\ disp'[d].pc = "purging"
                  => disp[d].pc = "purging" /\ disp'[d].left \subseteq disp[d].left
<1>0. disp \in [Dispatchers -> Dispatch]
  BY StoreTypes
<1>1. CASE ReadTombstone(d)
  <2>1. PICK found :
          /\ found = {v \in Versions : versions[v] # "absent"}
          /\ \/ /\ doc.status # "deleted" /\ doc.purgeAfter # NoDeadline
                /\ doc.purgeAfter <= clock
                /\ disp' = [disp EXCEPT ![d].pc = "purging", ![d].revision = doc.revision,
                                        ![d].found = found, ![d].left = found]
             \/ disp'[d].pc = "handled"
    BY <1>0, <1>1 DEF ReadTombstone, Dispatch
  <2>2. CASE disp' = [disp EXCEPT ![d].pc = "purging", ![d].revision = doc.revision,
                                  ![d].found = found, ![d].left = found]
    <3>1. /\ disp'[d].revision = doc.revision /\ disp'[d].pc = "purging"
          /\ disp'[d].found = found /\ disp'[d].left = found
      BY <1>0, <2>2 DEF Dispatch
    <3> QED
      BY <1>1, <2>1, <3>1
  <2>3. CASE disp'[d].pc = "handled"
    BY <2>3 DEF Purging
  <2> QED
    BY <2>1, <2>2, <2>3
<1>2. CASE DeleteProjection(d)
  <2>1. PICK v \in disp[d].left :
          disp' = IF disp[d].left = {v}
                  THEN [disp EXCEPT ![d].pc = "erasing",
                           ![d].left = {objectKey[u] : u \in disp[d].found}]
                  ELSE [disp EXCEPT ![d].left = @ \ {v}]
    BY <1>2 DEF DeleteProjection
  <2>2. disp[d].pc = "purging"
    BY <1>2 DEF DeleteProjection
  <2>3. CASE disp[d].left = {v}
    BY <1>0, <1>2, <2>1, <2>2, <2>3 DEF Dispatch, Purging
  <2>4. CASE disp[d].left # {v}
    BY <1>0, <1>2, <2>1, <2>2, <2>4 DEF Dispatch, Purging
  <2> QED
    BY <2>3, <2>4
<1>3. CASE DeleteObject(d)
  <2>1. PICK k \in disp[d].left :
          disp' = IF disp[d].left = {k}
                  THEN [disp EXCEPT ![d].pc = "emptied", ![d].left = {}]
                  ELSE [disp EXCEPT ![d].left = @ \ {k}]
    BY <1>3 DEF DeleteObject
  <2>2. disp[d].pc = "erasing"
    BY <1>3 DEF DeleteObject
  <2>3. CASE disp[d].left = {k}
    BY <1>0, <1>3, <2>1, <2>2, <2>3 DEF Dispatch, Purging
  <2>4. CASE disp[d].left # {k}
    BY <1>0, <1>3, <2>1, <2>2, <2>4 DEF Dispatch, Purging
  <2> QED
    BY <2>3, <2>4
<1>4. CASE TakeDueEvent(d)
  <2>1. PICK e \in Calls :
          disp' = [disp EXCEPT ![d].pc = "taken", ![d].event = e,
                               ![d].attempts = cleanup[e].attempts]
    BY <1>4 DEF TakeDueEvent
  <2> QED
    BY <1>0, <2>1 DEF Purging, Dispatch
<1>5. CASE CommitPurge(d) \/ PurgeConflicts(d) \/ PurgeTimesOut(d)
  BY <1>0, <1>5 DEF CommitPurge, PurgeConflicts, PurgeTimesOut, Purging, Dispatch
<1>6. CASE SaveEvent(d) \/ DispatcherCrash(d)
  BY <1>0, <1>6 DEF SaveEvent, DispatcherCrash, Resting, Purging
<1> QED
  BY <1>1, <1>2, <1>3, <1>4, <1>5, <1>6 DEF DispatcherStep

\* The revision a registered candidate read is not read again.
LEMMA ExpectedStays ==
  ASSUME LifecycleInv, [Next]_vars, NEW c \in Calls, LocalInv(c), versions[c] # "absent"
  PROVE  expected'[c] = expected[c]
<1> USE DEF rows, index, command, history
<1>1. pc[c] \notin {"idle", "stored"}
  BY DEF LocalInv
<1>2. CASE Rests(c)
  BY <1>2 DEF Rests, Keeps
<1>3. CASE CommandStep(c)
  <2>1. CASE \/ LoadJob(c)    \/ MarkIngesting(c) \/ ParseSource(c) \/ WriteCandidate(c)
             \/ SaveReady(c)  \/ IngestFails(c)   \/ AddRollback(c)
             \/ LoadPublication(c) \/ Validate(c) \/ Promote(c) \/ Retire(c)
    BY <2>1, AdvancingStep DEF Advances
  <2>2. CASE Publish(c) \/ CommitRestore(c)
    BY <2>2 DEF Publish, CommitRestore
  <2>3. CASE \/ PutSource(c) \/ ReadCurrent(c) \/ Register(c) \/ ReadRollback(c)
             \/ ReadRestore(c) \/ RequestDelete(c)
    BY <1>1, <2>3 DEF PutSource, ReadCurrent, Register, ReadRollback, ReadRestore,
       RequestDelete, Goto
  <2> QED
    BY <1>3, <2>1, <2>2, <2>3 DEF CommandStep
<1> QED
  BY <1>2, <1>3, OneMoves

\* What a purge has found stays older than the delete.
LEMMA FoundKept ==
  ASSUME LifecycleInv, [Next]_vars, \A c \in Calls : LocalInv(c),
         \A e \in Dispatchers : FoundInv(e), NEW d \in Dispatchers
  PROVE  FoundInv(d)'
<1> SUFFICES ASSUME Purging(d)'
             PROVE  /\ disp'[d].revision \in 1..Len(timeline')
                    /\ timeline'[disp'[d].revision] = None
                    /\ \A v \in disp'[d].found :
                          /\ versions'[v] # "absent"
                          /\ v \in Calls => expected'[v] < disp'[d].revision
                    /\ disp'[d].pc = "purging" => disp'[d].left \subseteq disp'[d].found
  BY DEF FoundInv
<1>0. /\ TypeInv /\ DocInv /\ Grows /\ Len(timeline) \in Nat /\ FoundInv(d)
      /\ disp \in [Dispatchers -> Dispatch] /\ doc.status \in DocStatus
      /\ \A c \in Calls : expected[c] \in Nat /\ expected[c] <= Len(timeline)
  BY StepGrows, CommandTypes, StoreTypes DEF LifecycleInv, CallInv, ReadsTimeline
<1>1. ASSUME NEW v \in Versions, versions[v] # "absent"
      PROVE  versions'[v] # "absent" /\ (v \in Calls => expected'[v] = expected[v])
  BY <1>1, RowsAppear, ExpectedStays DEF RowStays
<1>2. CASE /\ disp'[d].revision = disp[d].revision /\ disp'[d].found = disp[d].found
           /\ Purging(d)
           /\ disp'[d].pc = "purging"
                 => disp[d].pc = "purging" /\ disp'[d].left \subseteq disp[d].left
  <2>1. disp[d].found \subseteq Versions
    BY <1>0 DEF Dispatch
  <2>2. /\ disp[d].revision \in 1..Len(timeline) /\ timeline[disp[d].revision] = None
        /\ \A v \in disp[d].found : /\ versions[v] # "absent"
                                    /\ v \in Calls => expected[v] < disp[d].revision
        /\ disp[d].pc = "purging" => disp[d].left \subseteq disp[d].found
    BY <1>0, <1>2 DEF FoundInv
  <2>3. /\ disp[d].revision \in 1..Len(timeline')
        /\ timeline'[disp[d].revision] = None
    BY <1>0, <2>2 DEF Grows
  <2>4. \A v \in disp[d].found : /\ versions'[v] # "absent"
                                 /\ v \in Calls => expected'[v] < disp[d].revision
    BY <1>1, <2>1, <2>2
  <2> QED
    BY <1>2, <2>2, <2>3, <2>4
<1>3. CASE /\ ReadTombstone(d)
           /\ doc.status # "deleted" /\ doc.purgeAfter # NoDeadline
           /\ disp'[d].revision = doc.revision /\ disp'[d].left = disp'[d].found
           /\ disp'[d].found = {v \in Versions : versions[v] # "absent"}
  <2>1. /\ doc.revision = Len(timeline) /\ Len(timeline) \in 1..Len(timeline')
        /\ timeline'[Len(timeline)] = None /\ timeline[Len(timeline)] = None
    BY <1>0, <1>3 DEF DocInv, DocStatus, Grows
  <2>2. ASSUME NEW v \in Calls, versions[v] # "absent" PROVE expected'[v] < Len(timeline)
    <3>1. expected[v] # Len(timeline)
      BY <2>1, <2>2 DEF LocalInv
    <3> QED
      BY <1>0, <1>1, <2>2, <3>1, Names
  <2> QED
    BY <1>1, <1>3, <2>1, <2>2
<1>4. CASE disp'[d] = disp[d]
  <2>1. Purging(d)
    BY <1>4 DEF Purging
  <2> QED
    BY <1>2, <1>4, <2>1
<1> QED
  BY <1>0, <1>2, <1>3, <1>4, OneDispatches, PurgeMoves

-----------------------------------------------------------------------------
(* The search index.                                                         *)

\* Only a candidate's own ingestion, a retirement and a purge take records out of
\* service.
LEMMA LeavesSearch ==
  ASSUME LifecycleInv, [Next]_vars, NEW v \in searchable, v \notin searchable'
  PROVE  \/ v \in Calls /\ WriteCandidate(v)
         \/ \E c \in Calls : Retire(c) /\ previous[c] = v
         \/ \E d \in Dispatchers : DeleteProjection(d) /\ v \in disp[d].left
<1> USE DEF rows, index, command, history
<1>1. ASSUME NEW c \in Calls, CommandStep(c)
      PROVE  (v = c /\ WriteCandidate(c)) \/ (Retire(c) /\ previous[c] = v)
  <2>1. CASE WriteCandidate(c) \/ Retire(c)
    BY <2>1 DEF WriteCandidate, Retire
  <2>2. CASE Promote(c)
    BY <2>2 DEF Promote
  <2>3. CASE ~WriteCandidate(c) /\ ~Retire(c) /\ ~Promote(c)
    BY <1>1, <2>3 DEF CommandStep, PutSource, ReadCurrent, Register, LoadJob, MarkIngesting,
       ParseSource, SaveReady, IngestFails, ReadRollback, AddRollback, LoadPublication,
       Validate, Publish, RequestDelete, ReadRestore, CommitRestore
  <2> QED
    BY <2>1, <2>2, <2>3
<1>2. ASSUME NEW d \in Dispatchers, DispatcherStep(d)
      PROVE  DeleteProjection(d) /\ v \in disp[d].left
  <2>1. CASE DeleteProjection(d)
    BY <2>1 DEF DeleteProjection
  <2>2. CASE ~DeleteProjection(d)
    BY <1>2, <2>2 DEF DispatcherStep, TakeDueEvent, ReadTombstone, DeleteObject, CommitPurge,
       PurgeConflicts, PurgeTimesOut, SaveEvent, DispatcherCrash
  <2> QED
    BY <2>1, <2>2
<1>3. /\ ~(\E q \in Readers : Retrieve(q) \/ Confirm(q)) /\ ~Tick /\ ~UNCHANGED vars
      /\ ~(\E c \in Calls : CancelDelete(c))
  BY DEF Retrieve, Confirm, CancelDelete, Tick, vars
<1> QED
  BY <1>1, <1>2, <1>3 DEF Next

\* Only a promotion puts a fencing token on records.
LEMMA TokenMoves ==
  ASSUME LifecycleInv, [Next]_vars, NEW v \in Versions, token'[v] # 0
  PROVE  token'[v] = token[v] \/ \E c \in Calls : Promote(c) /\ target[c] = v
<1> USE DEF rows, index, command, history
<1>0. token \in [Versions -> Nat] /\ Calls \subseteq Versions /\ target \in [Calls -> Versions]
  BY StoreTypes, CommandTypes, Names DEF LifecycleInv
<1>1. ASSUME NEW c \in Calls, CommandStep(c)
      PROVE  token'[v] = token[v] \/ (Promote(c) /\ target[c] = v)
  <2>1. CASE WriteCandidate(c)
    BY <1>0, <2>1 DEF WriteCandidate
  <2>2. CASE Promote(c)
    BY <1>0, <2>2 DEF Promote
  <2>3. CASE ~WriteCandidate(c) /\ ~Promote(c)
    BY <1>1, <2>3 DEF CommandStep, PutSource, ReadCurrent, Register, LoadJob, MarkIngesting,
       ParseSource, SaveReady, IngestFails, ReadRollback, AddRollback, LoadPublication,
       Validate, Publish, Retire, RequestDelete, ReadRestore, CommitRestore
  <2> QED
    BY <2>1, <2>2, <2>3
<1>2. ASSUME NEW d \in Dispatchers, DispatcherStep(d)
      PROVE  token'[v] = token[v]
  <2>1. CASE DeleteProjection(d)
    BY <1>0, <2>1 DEF DeleteProjection
  <2>2. CASE ~DeleteProjection(d)
    BY <1>2, <2>2 DEF DispatcherStep, TakeDueEvent, ReadTombstone, DeleteObject, CommitPurge,
       PurgeConflicts, PurgeTimesOut, SaveEvent, DispatcherCrash
  <2> QED
    BY <2>1, <2>2
<1>3. ASSUME \/ \E q \in Readers : Retrieve(q) \/ Confirm(q)
             \/ \E c \in Calls : CancelDelete(c)
             \/ Tick \/ UNCHANGED vars
      PROVE  token' = token
  BY <1>3 DEF Retrieve, Confirm, CancelDelete, Tick, vars
<1> QED
  BY <1>1, <1>2, <1>3 DEF Next

\* What is retired was served, by the commit before the one that retires it.
LEMMA RetiresServed ==
  ASSUME LifecycleInv, NEW c \in Calls, LocalInv(c), Retire(c)
  PROVE  /\ expected[c] \in 1..Len(timeline) /\ expected[c] < Len(timeline)
         /\ previous[c] = timeline[expected[c]]
<1>1. pc[c] = "retire" /\ expected[c] \in Nat /\ Len(timeline) \in Nat
  BY CommandTypes DEF Retire, Goto, LifecycleInv
<1>2. expected[c] < Len(timeline)
  BY <1>1 DEF LifecycleInv, CallInv, MadeRevision, Committed
<1> QED
  BY <1>1, <1>2 DEF LocalInv

\* A call that has not committed builds a version nobody has served.
LEMMA NotYetServed ==
  ASSUME LifecycleInv, NEW c \in Calls, ~Committed(c)
  PROVE  ~WasServed(c)
BY DEF LifecycleInv, ServedInv

\* What a promotion promotes, and nobody has served, is the candidate of its call.
LEMMA PromotesItsOwn ==
  ASSUME LifecycleInv, NEW c \in Calls, LocalInv(c), Promote(c), ~WasServed(target[c])
  PROVE  Builds(c) /\ target[c] = c
<1>1. pc[c] = "validated"
  BY DEF Promote, Goto
<1>2. kind[c] \in {"update", "reparse", "rollback", "delete", "restore"}
  BY CommandTypes DEF LifecycleInv
<1>3. kind[c] \notin {"rollback", "restore", "delete"}
  BY <1>1 DEF LocalInv, LifecycleInv, CallInv, KindShape, Committed
<1> QED
  BY <1>2, <1>3 DEF Builds, LifecycleInv, CallInv, PublishesItsOwn

\* The steps after which a candidate is promoted, or was.
LEMMA PromotedSteps ==
  ASSUME LifecycleInv, NEW c \in Calls, CommandStep(c)
  PROVE  /\ pc'[c] = "promoted" => Promote(c) /\ pc[c] = "validated"
         /\ pc[c] = "promoted" => Publish(c) \/ CommitRestore(c)
<1>0. pc \in [Calls -> Phase]
  BY CommandTypes DEF LifecycleInv
<1>1. CASE PutSource(c) \/ ReadCurrent(c) \/ Register(c) \/ LoadJob(c) \/ MarkIngesting(c)
  BY <1>0, <1>1 DEF PutSource, ReadCurrent, Register, LoadJob, MarkIngesting, Goto
<1>2. CASE ParseSource(c) \/ WriteCandidate(c) \/ SaveReady(c) \/ IngestFails(c)
  BY <1>0, <1>2 DEF ParseSource, WriteCandidate, SaveReady, IngestFails, Goto
<1>3. CASE ReadRollback(c) \/ AddRollback(c) \/ LoadPublication(c) \/ Validate(c)
  BY <1>0, <1>3 DEF ReadRollback, AddRollback, LoadPublication, Validate, Goto
<1>4. CASE Promote(c) \/ Retire(c) \/ RequestDelete(c) \/ ReadRestore(c)
  BY <1>0, <1>4 DEF Promote, Retire, RequestDelete, ReadRestore, Goto
<1>5. CASE Publish(c) \/ CommitRestore(c)
  BY <1>0, <1>5 DEF Publish, CommitRestore, Goto
<1> QED
  BY <1>1, <1>2, <1>3, <1>4, <1>5 DEF CommandStep

\* What the proof for a step starts from.
Before == /\ ContentInv /\ [Next]_vars

\* Records that carry a token are those of a promotion that has not committed yet,
\* or of a version that was served.
LEMMA TokensFollow ==
  ASSUME Before, NEW c \in Calls, ~WasServed(c)', token'[c] # 0
  PROVE  Builds(c)' /\ pc'[c] = "promoted"
<1>0. /\ LifecycleInv /\ [Next]_vars /\ TypeInv /\ SearchInv /\ c \in Versions /\ Grows
      /\ \A e \in Calls : LocalInv(e)
      /\ pc \in [Calls -> Phase]
  BY Names, StepGrows, CommandTypes DEF Before, ContentInv, LifecycleInv
<1>1. ~WasServed(c)
  BY <1>0, ServedForever
<1>2. CASE token'[c] = token[c]
  <2>1. Builds(c) /\ pc[c] = "promoted"
    BY <1>0, <1>1, <1>2 DEF SearchInv
  <2>2. CASE Rests(c)
    BY <2>1, <2>2 DEF Rests, Keeps, Builds
  <2>3. CASE CommandStep(c)
    <3>1. Publish(c)
      BY <1>0, <2>1, <2>3, PromotedSteps DEF CommitRestore, Builds
    <3>2. target[c] = c
      BY <1>0, <2>1, <3>1, PublishShape DEF Builds
    <3>3. Grown(c)
      BY <1>0, <3>1, <3>2, SwapGrows DEF Publish
    <3> QED
      BY <3>3 DEF Grown
  <2> QED
    BY <1>0, <2>2, <2>3, OneMoves
<1>3. ASSUME NEW e \in Calls, Promote(e), target[e] = c
      PROVE  Builds(c)' /\ pc'[c] = "promoted"
  <2>1. Builds(c) /\ e = c
    BY <1>0, <1>1, <1>3, PromotesItsOwn
  <2>2. pc'[c] = "promoted" /\ kind' = kind
    BY <1>0, <1>3, <2>1 DEF Promote, Goto, command
  <2> QED
    BY <2>1, <2>2 DEF Builds
<1> QED
  BY <1>0, <1>2, <1>3, TokenMoves

\* The promotion of a candidate makes it searchable, and nothing hides it as long as
\* its publication may win.
LEMMA CandidateStays ==
  ASSUME Before, NEW c \in Calls,
         Builds(c)', pc'[c] = "promoted", expected'[c] = Len(timeline')
  PROVE  c \in searchable'
<1>0. /\ LifecycleInv /\ [Next]_vars /\ TypeInv /\ SearchInv /\ c \in Versions /\ Grows
      /\ \A e \in Calls : LocalInv(e)
      /\ \A d \in Dispatchers : FoundInv(d)
      /\ pc \in [Calls -> Phase] /\ token \in [Versions -> Nat]
      /\ \A e \in Calls : expected[e] \in Nat /\ expected[e] <= Len(timeline)
      /\ Len(timeline) \in Nat /\ Len(timeline') \in Nat /\ Len(timeline') >= Len(timeline)
  BY Names, StepGrows, CommandTypes, StoreTypes
     DEF Before, ContentInv, LifecycleInv, CallInv, ReadsTimeline, Grows
<1>1. CASE Rests(c)
  <2>1. /\ Builds(c) /\ pc[c] = "promoted" /\ expected[c] = Len(timeline')
        /\ ~Committed(c)
    BY <1>1 DEF Rests, Keeps, Builds, Committed
  <2>2. c \in searchable /\ expected[c] = Len(timeline)
    <3>1. expected[c] = Len(timeline)
      BY <1>0, <2>1
    <3> QED
      BY <1>0, <2>1, <3>1 DEF SearchInv
  <2>3. ~WasServed(c)
    BY <1>0, <2>1, NotYetServed
  <2>4. ~WriteCandidate(c)
    BY <2>1 DEF WriteCandidate, Goto
  <2>5. ASSUME NEW e \in Calls, Retire(e), previous[e] = c PROVE FALSE
    BY <1>0, <2>3, <2>5, RetiresServed DEF WasServed
  <2>6. ASSUME NEW d \in Dispatchers, DeleteProjection(d), c \in disp[d].left PROVE FALSE
    <3>1. expected[c] < disp[d].revision /\ disp[d].revision \in 1..Len(timeline)
      BY <1>0, <2>6 DEF DeleteProjection, FoundInv, Purging
    <3> QED
      BY <1>0, <2>2, <3>1
  <2> QED
    BY <1>0, <2>2, <2>4, <2>5, <2>6, LeavesSearch
<1>2. CASE CommandStep(c)
  <2>1. Promote(c) /\ pc[c] = "validated"
    BY <1>0, <1>2, PromotedSteps
  <2>2. Builds(c) /\ target[c] = c
    <3>1. kind' = kind
      BY <2>1 DEF Promote, command
    <3> QED
      BY <1>0, <3>1 DEF Builds, LifecycleInv, CallInv, PublishesItsOwn
  <2>3. token[c] = 0
    <3>1. ~WasServed(c)
      BY <1>0, <2>1, NotYetServed DEF Committed
    <3> QED
      BY <1>0, <2>1, <3>1 DEF SearchInv
  <2>4. token[c] <= expected[c] + 1
    BY <1>0, <2>3
  <2> QED
    BY <2>1, <2>2, <2>4 DEF Promote
<1> QED
  BY <1>0, <1>1, <1>2, OneMoves

\* A version in service for the first time has not been purged, nor retired.
LEMMA FirstStays ==
  ASSUME Before, FirstPublicationSearchable, UNCHANGED <<doc, timeline>>
  PROVE  FirstPublicationSearchable'
<1> DEFINE v == doc.current
<1> SUFFICES ASSUME doc.status = "active",
                    \A r \in 1..Len(timeline) - 1 : timeline[r] # v
             PROVE  v \in searchable'
  BY DEF FirstPublicationSearchable
<1>0. /\ LifecycleInv /\ [Next]_vars /\ DocInv /\ ServedInv /\ SearchInv
      /\ \A e \in Calls : LocalInv(e) /\ CallInv(e) /\ expected[e] \in Nat
      /\ \A d \in Dispatchers : FoundInv(d)
      /\ Len(timeline) \in Nat
  BY CommandTypes DEF Before, ContentInv, LifecycleInv
<1>1. v \in searchable
  BY DEF FirstPublicationSearchable
<1>2. WasServed(v) /\ v # None /\ timeline[Len(timeline)] = v /\ Len(timeline) >= 1
  BY <1>0 DEF DocInv, WasServed
<1>3. ASSUME v \in Calls, WriteCandidate(v) PROVE FALSE
  BY <1>0, <1>2, <1>3 DEF ServedInv, Committed, WriteCandidate, Goto
<1>4. ASSUME NEW e \in Calls, Retire(e), previous[e] = v PROVE FALSE
  <2>1. expected[e] \in 1..Len(timeline) - 1 /\ timeline[expected[e]] = v
    BY <1>0, <1>4, RetiresServed
  <2> QED
    BY <2>1
<1>5. ASSUME NEW d \in Dispatchers, DeleteProjection(d), v \in disp[d].left PROVE FALSE
  <2>1. /\ disp[d].revision \in 1..Len(timeline) /\ timeline[disp[d].revision] = None
        /\ versions[v] # "absent"
        /\ v \in Calls => expected[v] < disp[d].revision
    BY <1>0, <1>5 DEF DeleteProjection, FoundInv, Purging
  <2>2. CASE v \in Calls
    <3>1. Builds(v) /\ target[v] = v
      BY <1>0, <2>1, <2>2 DEF LocalInv, Builds, CallInv, PublishesItsOwn
    <3>2. expected[v] < Len(timeline) /\ timeline[expected[v] + 1] = v
      BY <1>0, <1>2, <2>2, <3>1 DEF ServedInv, CallInv, MadeRevision, Builds
    <3>3. expected[v] + 1 = Len(timeline)
      BY <1>0, <2>2, <3>2
    <3>4. disp[d].revision \in Nat /\ disp[d].revision <= Len(timeline) /\ expected[v] \in Nat
          /\ expected[v] < disp[d].revision
      BY <1>0, <2>1, <2>2
    <3>5. disp[d].revision = Len(timeline)
      BY <1>0, <3>3, <3>4
    <3> QED
      BY <1>2, <2>1, <3>5
  <2>3. CASE v = InitVersion
    <3>1. timeline[1] = v /\ v # None
      BY <1>0, <1>2, <2>3 DEF SearchInv
    <3>2. Len(timeline) \in Nat /\ Len(timeline) >= 1
      BY <1>0, <1>2
    <3>3. ~(1 \in 1..Len(timeline) - 1)
      BY <3>1
    <3>4. Len(timeline) = 1
      BY <3>2, <3>3
    <3>5. disp[d].revision = 1
      BY <2>1, <3>4
    <3> QED
      BY <2>1, <3>1, <3>5
  <2>4. v \in Versions
    BY <1>0, <1>2, CommandTypes DEF LifecycleInv
  <2> QED
    BY <2>2, <2>3, <2>4 DEF Versions
<1> QED
  BY <1>0, <1>1, <1>3, <1>4, <1>5, LeavesSearch

\* A commit only exposes a version for the first time if it is a candidate that was
\* promoted for the last revision.
LEMMA FirstPublished ==
  ASSUME Before, ~UNCHANGED <<doc, timeline>>
  PROVE  FirstPublicationSearchable'
<1> USE DEF rows, index, command, history
<1>0. /\ LifecycleInv /\ [Next]_vars /\ DocInv /\ SearchInv /\ TypeInv
      /\ Len(timeline) \in Nat /\ target \in [Calls -> Versions]
  BY CommandTypes DEF Before, ContentInv, LifecycleInv
\* What was served is not exposed for the first time.
<1>1. ASSUME NEW x, Grown(x), doc'.current = x, WasServed(x)
      PROVE  FirstPublicationSearchable'
  <2>1. PICK r \in 1..Len(timeline) : timeline[r] = x
    BY <1>1 DEF WasServed
  <2>2. r \in 1..Len(timeline') - 1 /\ timeline'[r] = doc'.current
    BY <1>0, <1>1, <2>1 DEF Grown, Grows
  <2> QED
    BY <2>2 DEF FirstPublicationSearchable
<1>2. ASSUME NEW c \in Calls, Publish(c) PROVE FirstPublicationSearchable'
  <2>1. /\ CompareAndSwap(expected[c], "active", target[c], NoDeadline)
        /\ searchable' = searchable /\ target[c] \in Versions /\ pc[c] = "promoted"
    BY <1>0, <1>2 DEF Publish, Goto
  <2>2. Grown(target[c]) /\ doc'.current = target[c]
    BY <1>0, <2>1, SwapGrows
  <2>3. CASE kind[c] = "rollback"
    <3>1. WasServed(target[c])
      BY <1>0, <1>2, <2>3, PublishShape
    <3>2. ASSUME NEW x, x = target[c] PROVE FirstPublicationSearchable'
      BY <1>1, <2>2, <3>1, <3>2 DEF WasServed, Grown
    <3> QED
      BY <3>2
  <2>4. CASE kind[c] # "rollback"
    <3>1. Builds(c) /\ target[c] = c /\ expected[c] = Len(timeline)
      BY <1>0, <1>2, <2>4, PublishShape DEF Builds
    <3>2. c \in searchable
      BY <1>0, <2>1, <3>1 DEF SearchInv
    <3> QED
      BY <2>1, <2>2, <3>1, <3>2 DEF FirstPublicationSearchable
  <2> QED
    BY <2>3, <2>4
<1>3. ASSUME NEW c \in Calls, CommitRestore(c) PROVE FirstPublicationSearchable'
  <2>1. /\ CompareAndSwap(expected[c], "active", target[c], NoDeadline)
        /\ target[c] \in Versions
    BY <1>0, <1>3 DEF CommitRestore
  <2>2. Grown(target[c]) /\ doc'.current = target[c]
    BY <1>0, <2>1, SwapGrows
  <2>3. WasServed(target[c])
    BY <1>0, <1>3, RestoreShape
  <2>4. ASSUME NEW x, x = target[c] PROVE FirstPublicationSearchable'
    BY <1>1, <2>2, <2>3, <2>4 DEF WasServed, Grown
  <2> QED
    BY <2>4
<1>4. ASSUME NEW c \in Calls, RequestDelete(c) PROVE doc'.status # "active"
  BY <1>4 DEF RequestDelete, CompareAndSwap
<1>5. ASSUME NEW d \in Dispatchers, CommitPurge(d) PROVE doc'.status # "active"
  BY <1>5 DEF CommitPurge, CompareAndSwap
<1>6. doc'.status # "active" => FirstPublicationSearchable'
  BY DEF FirstPublicationSearchable
<1> QED
  BY <1>0, <1>2, <1>3, <1>4, <1>5, <1>6, OnlyCommits

\* A version in service for the first time stays searchable.
LEMMA SearchKept ==
  ASSUME Before
  PROVE  SearchInv'
<1>1. FirstPublicationSearchable'
  BY FirstPublished, FirstStays DEF Before, ContentInv, SearchInv
<1>2. timeline'[1] = InitVersion
  <2>1. Len(timeline) \in Nat /\ Len(timeline) >= 1 /\ timeline[1] = InitVersion /\ Grows
    BY CommandTypes, StepGrows DEF Before, ContentInv, SearchInv, LifecycleInv, DocInv
  <2> QED
    BY <2>1 DEF Grows
<1> QED
  BY <1>1, <1>2, TokensFollow, CandidateStays DEF SearchInv

-----------------------------------------------------------------------------
(* What is recoverable loses nothing.                                        *)

\* What cannot be recovered is never recoverable again: a restore that commits before
\* the deadline its delete set finds the tombstone unexpired.
LEMMA RecoverableBefore ==
  ASSUME Before, Recoverable'
  PROVE  Recoverable
<1> USE DEF rows, index, command, history
<1>0. /\ LifecycleInv /\ [Next]_vars /\ DocInv
      /\ clock \in Nat /\ overdue \in BOOLEAN /\ doc.purgeAfter \in Nat
  BY CommandTypes, StoreTypes DEF Before, ContentInv, LifecycleInv
<1>1. ASSUME NEW c \in Calls, CommitRestore(c) PROVE Recoverable
  <2>1. doc.status = "delete_pending" /\ overdue' = (overdue \/ clock >= doc.purgeAfter)
    BY <1>0, <1>1, RestoreShape, Zenon DEF CommitRestore
  <2>2. ~overdue /\ ~(clock >= doc.purgeAfter)
    <3>1. ~overdue'
      BY Zenon DEF Recoverable
    <3> QED
      BY <2>1, <3>1, Zenon
  <2> QED
    BY <1>0, <2>1, <2>2 DEF Recoverable
<1>2. ASSUME NEW c \in Calls, Publish(c) PROVE Recoverable
  <2>1. overdue' = overdue
    BY <1>2 DEF Publish
  <2>2. doc.status = "active"
    BY <1>0, <1>2, PublishShape
  <2> QED
    BY <2>1, <2>2 DEF Recoverable
<1>3. ASSUME NEW c \in Calls, RequestDelete(c) PROVE Recoverable
  BY <1>3 DEF RequestDelete, Recoverable
<1>4. ASSUME NEW d \in Dispatchers, CommitPurge(d) PROVE FALSE
  BY <1>4 DEF CommitPurge, CompareAndSwap, Recoverable
<1>5. CASE UNCHANGED <<doc, timeline>> /\ ~(\E c \in Calls : CommitRestore(c))
  <2>1. overdue' = overdue /\ clock' \in {clock, clock + 1}
    <3>1. ASSUME NEW c \in Calls, CommandStep(c) PROVE overdue' = overdue /\ clock' = clock
      BY <1>5, <3>1 DEF CommandStep, PutSource, ReadCurrent, Register, LoadJob, MarkIngesting,
         ParseSource, WriteCandidate, SaveReady, IngestFails, ReadRollback, AddRollback,
         LoadPublication, Validate, Promote, Publish, Retire, RequestDelete, ReadRestore
    <3>2. ASSUME NEW d \in Dispatchers, DispatcherStep(d)
          PROVE  overdue' = overdue /\ clock' = clock
      BY <3>2 DEF DispatcherStep, TakeDueEvent, ReadTombstone, DeleteProjection, DeleteObject,
         CommitPurge, PurgeConflicts, PurgeTimesOut, SaveEvent, DispatcherCrash
    <3>3. ASSUME \/ \E q \in Readers : Retrieve(q) \/ Confirm(q)
                 \/ \E c \in Calls : CancelDelete(c)
                 \/ Tick \/ UNCHANGED vars
          PROVE  overdue' = overdue /\ clock' \in {clock, clock + 1}
      BY <3>3 DEF Retrieve, Confirm, CancelDelete, Tick, vars
    <3> QED
      BY <1>0, <3>1, <3>2, <3>3 DEF Next
  <2> QED
    BY <1>0, <1>5, <2>1 DEF Recoverable
<1>6. UNCHANGED <<doc, timeline>> => ~(\E c \in Calls : CommitRestore(c))
  <2>1. ASSUME NEW c \in Calls, CommitRestore(c)
        PROVE  doc'.status = "active" /\ doc.status # "active"
    BY <1>0, <2>1, RestoreShape DEF CommitRestore, CompareAndSwap
  <2> QED
    BY <2>1
<1> QED
  BY <1>0, <1>1, <1>2, <1>3, <1>4, <1>5, <1>6, OnlyCommits

\* No purge begins while the document is recoverable.
LEMMA NoPurge ==
  ASSUME Before, Recoverable', NEW d \in Dispatchers
  PROVE  ~Purging(d) /\ ~Purging(d)'
<1>0. /\ LifecycleInv /\ [Next]_vars /\ DocInv /\ KeptInv /\ TypeInv /\ Recoverable
      /\ clock \in Nat /\ doc.purgeAfter \in Nat
  BY CommandTypes, StoreTypes, RecoverableBefore DEF Before, ContentInv, LifecycleInv
<1>1. ~Purging(d)
  BY <1>0 DEF KeptInv
<1>2. ASSUME doc.status # "deleted", doc.purgeAfter # NoDeadline, doc.purgeAfter <= clock
      PROVE  FALSE
  BY <1>0, <1>2 DEF Recoverable, DocInv
<1>3. CASE DispatcherStep(d)
  BY <1>0, <1>1, <1>2, <1>3, PurgeMoves
<1>4. CASE disp'[d] = disp[d]
  BY <1>1, <1>4 DEF Purging
<1> QED
  BY <1>0, <1>1, <1>3, <1>4, OneDispatches

\* Nothing is deleted while the document is recoverable.
LEMMA NothingDeleted ==
  ASSUME Before, Recoverable'
  PROVE  objects \subseteq objects' /\ indexed \subseteq indexed'
<1> USE DEF rows, index, command, history
<1>1. ASSUME NEW c \in Calls, CommandStep(c)
      PROVE  objects \subseteq objects' /\ indexed \subseteq indexed'
  BY <1>1 DEF CommandStep, PutSource, ReadCurrent, Register, LoadJob, MarkIngesting,
     ParseSource, WriteCandidate, SaveReady, IngestFails, ReadRollback, AddRollback,
     LoadPublication, Validate, Promote, Publish, Retire, RequestDelete, ReadRestore,
     CommitRestore
<1>2. ASSUME NEW d \in Dispatchers, DispatcherStep(d)
      PROVE  objects' = objects /\ indexed' = indexed
  <2>1. ~DeleteProjection(d) /\ ~DeleteObject(d)
    BY NoPurge DEF DeleteProjection, DeleteObject, Purging
  <2> QED
    BY <1>2, <2>1 DEF DispatcherStep, TakeDueEvent, ReadTombstone, CommitPurge,
       PurgeConflicts, PurgeTimesOut, SaveEvent, DispatcherCrash
<1>3. ASSUME \/ \E q \in Readers : Retrieve(q) \/ Confirm(q)
             \/ \E c \in Calls : CancelDelete(c)
             \/ Tick \/ UNCHANGED vars
      PROVE  objects' = objects /\ indexed' = indexed
  BY <1>3 DEF Retrieve, Confirm, CancelDelete, Tick, vars
<1> QED
  BY <1>1, <1>2, <1>3 DEF Before, Next

\* A version's object key is set when the version is registered.
LEMMA KeyStays ==
  ASSUME LifecycleInv, [Next]_vars, NEW v \in Versions, ~(v \in Calls /\ Register(v))
  PROVE  objectKey'[v] = objectKey[v]
<1> USE DEF rows, index, command, history
<1>0. objectKey \in [Versions -> Versions]
  BY StoreTypes DEF LifecycleInv
<1>1. ASSUME NEW c \in Calls, Register(c) PROVE objectKey'[v] = objectKey[v]
  BY <1>0, <1>1 DEF Register
<1>2. ASSUME NEW c \in Calls, CommandStep(c), ~Register(c) PROVE objectKey' = objectKey
  BY <1>2 DEF CommandStep, PutSource, ReadCurrent, LoadJob, MarkIngesting,
     ParseSource, WriteCandidate, SaveReady, IngestFails, ReadRollback, AddRollback,
     LoadPublication, Validate, Promote, Publish, Retire, RequestDelete, ReadRestore,
     CommitRestore
<1>3. ASSUME NEW d \in Dispatchers, DispatcherStep(d) PROVE objectKey' = objectKey
  BY <1>3 DEF DispatcherStep, TakeDueEvent, ReadTombstone, DeleteProjection, DeleteObject,
     CommitPurge, PurgeConflicts, PurgeTimesOut, SaveEvent, DispatcherCrash
<1>4. ASSUME \/ \E q \in Readers : Retrieve(q) \/ Confirm(q)
             \/ \E c \in Calls : CancelDelete(c)
             \/ Tick \/ UNCHANGED vars
      PROVE  objectKey' = objectKey
  BY <1>4 DEF Retrieve, Confirm, CancelDelete, Tick, vars
<1> QED
  BY <1>1, <1>2, <1>3, <1>4 DEF Next

\* Whatever has a row has its object.
LEMMA ObjectsKept ==
  ASSUME Before, Recoverable', NEW v \in Versions, versions'[v] # "absent"
  PROVE  objectKey'[v] \in objects'
<1> USE DEF rows, index, command, history
<1>0. /\ LifecycleInv /\ [Next]_vars /\ KeptInv /\ Recoverable
      /\ \A c \in Calls : LocalInv(c)
      /\ \A d \in Dispatchers : FoundInv(d)
      /\ objects \subseteq objects' /\ objectKey \in [Versions -> Versions]
  BY StoreTypes, RecoverableBefore, NothingDeleted DEF Before, ContentInv, LifecycleInv
<1>1. CASE v \in Calls /\ Register(v)
  <2>1. /\ pc[v] = "stored"
        /\ objectKey'[v] = IF kind[v] = "reparse" THEN source[v] ELSE v
    BY <1>0, <1>1 DEF Register, Goto
  <2> QED
    BY <1>0, <1>1, <2>1 DEF KeptInv
<1>2. CASE ~(v \in Calls /\ Register(v))
  <2>1. versions[v] # "absent"
    BY <1>0, <1>2, RowsAppear DEF RowStays
  <2>2. objectKey'[v] = objectKey[v]
    BY <1>0, <1>2, KeyStays
  <2> QED
    BY <1>0, <2>1, <2>2 DEF KeptInv
<1> QED
  BY <1>1, <1>2

\* Whatever was served has its records.
LEMMA RecordsKept ==
  ASSUME Before, Recoverable', NEW v \in Versions, WasServed(v)'
  PROVE  v \in indexed'
<1> USE DEF rows, index, command, history
<1>0. /\ LifecycleInv /\ [Next]_vars /\ KeptInv /\ Recoverable
      /\ indexed \subseteq indexed' /\ v # None /\ target \in [Calls -> Versions]
  BY CommandTypes, Names, RecoverableBefore, NothingDeleted
     DEF Before, ContentInv, LifecycleInv
<1>1. CASE WasServed(v)
  BY <1>0, <1>1 DEF KeptInv
<1>2. ASSUME NEW c \in Calls, Publish(c) PROVE WasServed(v) \/ v \in indexed
  <2>1. CompareAndSwap(expected[c], "active", target[c], NoDeadline) /\ pc[c] = "promoted"
    BY <1>2 DEF Publish, Goto
  <2>2. Grown(target[c])
    BY <1>0, <2>1, SwapGrows
  <2>3. CASE v = target[c] /\ kind[c] = "rollback"
    BY <1>0, <1>2, <2>3, PublishShape DEF WasServed
  <2>4. CASE v = target[c] /\ kind[c] # "rollback"
    <3>1. Builds(c) /\ target[c] = c
      BY <1>0, <1>2, <2>4, PublishShape DEF Builds
    <3> QED
      BY <1>0, <2>1, <2>4, <3>1 DEF KeptInv
  <2>5. CASE v # target[c]
    BY <2>2, <2>5 DEF Grown
  <2> QED
    BY <2>3, <2>4, <2>5
<1>3. ASSUME NEW c \in Calls, CommitRestore(c) PROVE WasServed(v)
  <2>1. CompareAndSwap(expected[c], "active", target[c], NoDeadline)
    BY <1>3 DEF CommitRestore
  <2>2. Grown(target[c])
    BY <1>0, <2>1, SwapGrows
  <2>3. WasServed(target[c])
    BY <1>0, <1>3, RestoreShape
  <2>4. v = target[c] => WasServed(v)
    BY <2>3 DEF WasServed
  <2> QED
    BY <2>2, <2>4 DEF Grown
<1>4. ASSUME NEW revision, NEW status, NEW deadline,
             CompareAndSwap(revision, status, None, deadline)
      PROVE  WasServed(v)
  BY <1>0, <1>4, SwapGrows DEF Grown
<1>5. ASSUME NEW c \in Calls, RequestDelete(c) PROVE WasServed(v)
  BY <1>4, <1>5 DEF RequestDelete
<1>6. ASSUME NEW d \in Dispatchers, CommitPurge(d) PROVE WasServed(v)
  BY <1>4, <1>6 DEF CommitPurge
<1>7. CASE UNCHANGED timeline
  BY <1>0, <1>1, <1>7 DEF WasServed
<1>8. v \in indexed => v \in indexed'
  BY <1>0
<1> QED
  BY <1>0, <1>1, <1>2, <1>3, <1>5, <1>6, <1>7, <1>8, OnlyCommits

\* What a call has stored, or will reuse, is still there when it registers.
LEMMA StoredKept ==
  ASSUME Before, Recoverable', NEW c \in Calls, pc'[c] = "stored"
  PROVE  (IF kind'[c] = "reparse" THEN source'[c] ELSE c) \in objects'
<1> USE DEF rows, index, command, history
<1>0. /\ LifecycleInv /\ [Next]_vars /\ KeptInv /\ Recoverable /\ StatusInv /\ DocInv
      /\ objects \subseteq objects' /\ pc \in [Calls -> Phase]
      /\ kind \in [Calls -> {"update", "reparse", "rollback", "delete", "restore"}]
      /\ source \in [Calls -> Versions] /\ doc.current \in Versions \cup {None}
  BY CommandTypes, StoreTypes, RecoverableBefore, NothingDeleted
     DEF Before, ContentInv, LifecycleInv
<1>1. CASE Rests(c)
  BY <1>0, <1>1 DEF Rests, Keeps, KeptInv
<1>2. CASE PutSource(c)
  BY <1>0, <1>2 DEF PutSource
<1>3. CASE ReadCurrent(c)
  <2>1. /\ doc.current # None /\ kind'[c] = "reparse" /\ source'[c] = objectKey[doc.current]
    BY <1>0, <1>3 DEF ReadCurrent
  <2>2. doc.status = "active" /\ versions[doc.current] = "ready"
    BY <1>0, <2>1 DEF StatusInv, DocInv, Last
  <2>3. objectKey[doc.current] \in objects
    BY <1>0, <2>1, <2>2 DEF KeptInv
  <2> QED
    BY <1>0, <2>1, <2>3
<1>4. CASE CommandStep(c) /\ ~PutSource(c) /\ ~ReadCurrent(c)
  <2>1. CASE Register(c) \/ LoadJob(c) \/ MarkIngesting(c) \/ ParseSource(c)
    BY <1>0, <2>1 DEF Register, LoadJob, MarkIngesting, ParseSource, Goto
  <2>2. CASE WriteCandidate(c) \/ SaveReady(c) \/ IngestFails(c) \/ ReadRollback(c)
    BY <1>0, <2>2 DEF WriteCandidate, SaveReady, IngestFails, ReadRollback, Goto
  <2>3. CASE AddRollback(c) \/ LoadPublication(c) \/ Validate(c) \/ Promote(c) \/ Retire(c)
    BY <1>0, <2>3 DEF AddRollback, LoadPublication, Validate, Promote, Retire, Goto
  <2>4. CASE Publish(c) \/ RequestDelete(c) \/ ReadRestore(c) \/ CommitRestore(c)
    BY <1>0, <2>4 DEF Publish, RequestDelete, ReadRestore, CommitRestore, Goto
  <2> QED
    BY <1>4, <2>1, <2>2, <2>3, <2>4 DEF CommandStep
<1> QED
  BY <1>0, <1>1, <1>2, <1>3, <1>4, OneMoves

\* A candidate that was written keeps its records until it is published.
LEMMA WrittenKept ==
  ASSUME Before, Recoverable', NEW c \in Calls, Builds(c)',
         pc'[c] \in {"indexed", "publish", "checked", "validated", "promoted"}
  PROVE  c \in indexed'
<1> USE DEF rows, index, command, history
<1>0. /\ LifecycleInv /\ [Next]_vars /\ KeptInv /\ Recoverable /\ LocalInv(c)
      /\ indexed \subseteq indexed' /\ pc \in [Calls -> Phase]
      /\ kind \in [Calls -> {"update", "reparse", "rollback", "delete", "restore"}]
  BY CommandTypes, RecoverableBefore, NothingDeleted DEF Before, ContentInv, LifecycleInv
<1>1. ASSUME Builds(c), pc[c] \in {"indexed", "publish", "checked", "validated", "promoted"}
      PROVE  c \in indexed'
  BY <1>0, <1>1 DEF KeptInv
<1>2. CASE Rests(c)
  BY <1>1, <1>2 DEF Rests, Keeps, Builds
<1>3. CASE CommandStep(c)
  <2>1. CASE WriteCandidate(c)
    BY <2>1 DEF WriteCandidate
  <2>2. CASE SaveReady(c) \/ LoadPublication(c) \/ Validate(c) \/ Promote(c)
    <3>1. /\ pc[c] \in {"indexed", "publish", "checked", "validated", "promoted"}
          /\ kind' = kind
      BY <2>2 DEF SaveReady, LoadPublication, Validate, Promote, Goto
    <3> QED
      BY <1>1, <3>1 DEF Builds
  <2>3. CASE AddRollback(c)
    <3>1. pc[c] = "rollback" /\ kind' = kind
      BY <2>3 DEF AddRollback, Goto
    <3> QED
      BY <1>0, <3>1 DEF LocalInv, Builds
  <2>4. CASE PutSource(c) \/ ReadCurrent(c) \/ Register(c) \/ LoadJob(c) \/ MarkIngesting(c)
    BY <1>0, <2>4 DEF PutSource, ReadCurrent, Register, LoadJob, MarkIngesting, Goto
  <2>5. CASE ParseSource(c) \/ IngestFails(c) \/ ReadRollback(c) \/ Retire(c)
    BY <1>0, <2>5 DEF ParseSource, IngestFails, ReadRollback, Retire, Goto
  <2>6. CASE Publish(c) \/ RequestDelete(c) \/ CommitRestore(c)
    BY <1>0, <2>6 DEF Publish, RequestDelete, CommitRestore, Goto
  <2>7. CASE ReadRestore(c)
    BY <1>0, <2>7 DEF ReadRestore, Builds
  <2> QED
    BY <1>3, <2>1, <2>2, <2>3, <2>4, <2>5, <2>6, <2>7 DEF CommandStep
<1> QED
  BY <1>0, <1>2, <1>3, OneMoves

-----------------------------------------------------------------------------
(* The theorems about the contents.                                          *)

\* The first upload left its object and its records.
LEMMA InitContent == Init => ContentInv
<1> SUFFICES ASSUME Init PROVE ContentInv
  OBVIOUS
<1>0. /\ LifecycleInv /\ InitVersion \notin Calls
      /\ Len(timeline) = 1 /\ timeline[1] = InitVersion
      /\ doc.status = "active" /\ doc.current = InitVersion
      /\ searchable = {InitVersion} /\ indexed = {InitVersion} /\ objects = {InitVersion}
  BY InitLifecycle, NamesAssumption DEF Init
<1>1. ASSUME NEW c \in Calls
      PROVE  /\ pc[c] = "idle" /\ kind[c] = "update" /\ versions[c] = "absent"
             /\ token[c] = 0
  BY <1>0, Names DEF Init
<1>2. ASSUME NEW d \in Dispatchers PROVE ~Purging(d)
  BY DEF Init, Resting, Purging
<1>3. \A c \in Calls : LocalInv(c)
  BY <1>1 DEF LocalInv, Builds
<1>4. \A d \in Dispatchers : FoundInv(d)
  BY <1>2 DEF FoundInv
<1>5. SearchInv
  BY <1>0, <1>1 DEF SearchInv, FirstPublicationSearchable
<1>6. KeptInv
  <2>1. ASSUME NEW v \in Versions
        PROVE  /\ versions[v] # "absent" => objectKey[v] \in objects
               /\ WasServed(v) => v \in indexed
    <3>1. CASE v = InitVersion
      BY <1>0, <3>1, Names DEF Init
    <3>2. CASE v \in Calls
      BY <1>0, <1>1, <3>2 DEF WasServed
    <3> QED
      BY <3>1, <3>2 DEF Versions
  <2> QED
    BY <1>1, <1>2, <2>1 DEF KeptInv
<1> QED
  BY <1>0, <1>3, <1>4, <1>5, <1>6 DEF ContentInv

\* Every step keeps the contents.
LEMMA StepContent == ContentInv /\ [Next]_vars => ContentInv'
<1> SUFFICES ASSUME ContentInv, [Next]_vars PROVE ContentInv'
  OBVIOUS
<1>0. Before
  BY DEF Before
<1>1. LifecycleInv'
  BY StepLifecycle DEF ContentInv
<1>2. \A c \in Calls : LocalInv(c)'
  BY LocalKept DEF ContentInv
<1>3. \A d \in Dispatchers : FoundInv(d)'
  BY FoundKept DEF ContentInv
<1>4. SearchInv'
  BY <1>0, SearchKept
<1>5. KeptInv'
  BY <1>0, NoPurge, ObjectsKept, RecordsKept, StoredKept, WrittenKept DEF KeptInv
<1> QED
  BY <1>1, <1>2, <1>3, <1>4, <1>5 DEF ContentInv

\* The strengthening is an invariant: while a document may be recovered no purge
\* deletes anything, and only its own publication puts a candidate into service.
THEOREM ContentInvariant == Spec => []ContentInv
BY InitContent, StepContent, PTL DEF Spec

\* No late deactivation, no stale promotion and no fencing token hides a version in
\* service for the first time, however many publications are under way.
THEOREM FirstSearchable == Spec => []FirstPublicationSearchable
<1>1. ContentInv => FirstPublicationSearchable
  BY DEF ContentInv, SearchInv
<1> QED
  BY <1>1, ContentInvariant, PTL

\* The records and the object of what is in service, or may still be restored, are
\* never deleted: a purge deletes before it compares the revision, but none begins
\* before the retention has ended, unless a restore overran it.
THEOREM KeptRecoverable == Spec => []KeptWhileRecoverable
<1>1. ContentInv => KeptWhileRecoverable
  <2> SUFFICES ASSUME ContentInv, ~overdue
               PROVE  /\ doc.status = "active" => Content(doc.current)
                      /\ doc.status = "delete_pending" /\ clock < doc.purgeAfter
                            => \A v \in kept \cup {timeline[Len(timeline) - 1]} : Content(v)
    BY DEF KeptWhileRecoverable
  <2>1. KeptInv /\ LifecycleInv /\ TombstoneInv
    BY DEF ContentInv, LifecycleInv
  <2>2. ASSUME Recoverable, NEW v \in Versions, WasServed(v) PROVE Content(v)
    BY <2>1, <2>2, ServedHasRow DEF KeptInv, Content, Recoverable
  <2>3. Recoverable => Last \in Versions /\ WasServed(Last)
    BY <2>1, LastServed DEF Recoverable
  <2>4. \A v \in kept : v \in Versions /\ WasServed(v)
    BY <2>1 DEF TombstoneInv
  <2> QED
    BY <2>2, <2>3, <2>4 DEF Recoverable, Last
<1> QED
  BY <1>1, ContentInvariant, PTL

=============================================================================
