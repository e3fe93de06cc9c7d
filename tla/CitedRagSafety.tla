--------------------------- MODULE CitedRagSafety ---------------------------
(***************************************************************************)
(* The safety properties of CitedRag, from the inductive invariant IInv.   *)
(* First what a step of each kind of process may change at all, then one   *)
(* lemma for each conjunct of IInv, then the theorems.                     *)
(***************************************************************************)
EXTENDS CitedRagTyping, Invariants

\* Processes of different kinds are different, and none of them is None.
LEMMA ProcessesDistinct ==
    /\ None \notin Workers \cup Cleaners \cup Uploaders \cup Deleters
    /\ \A w \in Workers : w \notin Cleaners \cup Uploaders \cup Deleters
    /\ \A u \in Uploaders : u \notin Workers \cup Cleaners \cup Deleters
    /\ None \notin Versions \cup Documents \cup Hashes
BY NoneAssumption, ProcessesAssumption DEF Transactions

\* A transaction that ends gives up its own job locks and no others.
LEMMA ReleaseKeeps ==
    ASSUME LocksTypeOK, NEW t, ReleaseLocks(t)
    PROVE  \A v \in Versions : jobLock[v] # t => jobLock'[v] = jobLock[v]
BY DEF LocksTypeOK, ReleaseLocks

\* An update of the status of one version leaves everything else.
LEMMA SaveVersionEffect ==
    ASSUME RowsTypeOK, NEW u, NEW s, SaveVersion(u, s), NEW v \in Versions
    PROVE  /\ version'[v].document = version[v].document
           /\ version'[v].status = IF v = u THEN s ELSE version[v].status
<1>1. version[v] \in VersionRow
  BY DEF RowsTypeOK
<1>2. version'[v] = IF v = u THEN [version[v] EXCEPT !.status = s] ELSE version[v]
  BY DEF RowsTypeOK, SaveVersion
<1> QED BY <1>1, <1>2 DEF VersionRow

\* So does an update of the status of a set of them.
LEMMA SaveStatusEffect ==
    ASSUME RowsTypeOK, NEW vs, NEW s, SaveStatus(vs, s), NEW v \in Versions
    PROVE  /\ version'[v].document = version[v].document
           /\ version'[v].status = IF v \in vs THEN s ELSE version[v].status
<1>1. version[v] \in VersionRow
  BY DEF RowsTypeOK
<1>2. version'[v] = IF v \in vs THEN [version[v] EXCEPT !.status = s] ELSE version[v]
  BY DEF SaveStatus
<1> QED BY <1>1, <1>2 DEF VersionRow

\* The moves of a worker's own record.
LEMMA MoveEffect ==
    ASSUME WorkerTypeOK, NEW w \in Workers
    PROVE  /\ \A pc : GoTo(w, pc) =>
                 worker'[w].pc = pc /\ worker'[w].version = worker[w].version
           /\ \A pc, chunks : Stage(w, pc, chunks) =>
                 worker'[w].pc = pc /\ worker'[w].version = worker[w].version
           /\ Idle(w) => worker'[w].pc = "idle"
<1>1. worker[w] = [pc |-> worker[w].pc, version |-> worker[w].version,
                   seen |-> worker[w].seen, left |-> worker[w].left]
  <2>1. worker[w] \in WorkerRecord
    BY DEF WorkerTypeOK
  <2>2. CASE worker[w] = IdleWorker
    BY <2>2 DEF IdleWorker
  <2>3. CASE worker[w] # IdleWorker
    BY <2>1, <2>3 DEF WorkerRecord
  <2> QED BY <2>2, <2>3
<1>2. ASSUME NEW pc, GoTo(w, pc)
      PROVE  worker'[w].pc = pc /\ worker'[w].version = worker[w].version
  <2>1. worker'[w] = [worker[w] EXCEPT !.pc = pc]
    BY <1>2 DEF WorkerTypeOK, GoTo
  <2> QED BY <1>1, <2>1
<1>3. ASSUME NEW pc, NEW chunks, Stage(w, pc, chunks)
      PROVE  worker'[w].pc = pc /\ worker'[w].version = worker[w].version
  <2>1. worker'[w] = [worker[w] EXCEPT !.pc = pc, !.left = chunks]
    BY <1>3 DEF WorkerTypeOK, Stage
  <2> QED BY <1>1, <2>1
<1>4. Idle(w) => worker'[w].pc = "idle"
  BY DEF WorkerTypeOK, Idle, IdleWorker
<1> QED BY <1>2, <1>3, <1>4

-----------------------------------------------------------------------------
(***************************************************************************)
(* What a step may change                                                  *)
(***************************************************************************)
WorkerMoves(w) == Work(w) \/ WorkFault(w) \/ AbortWork(w)
CleanerMoves(k) == Clean(k) \/ CleanFault(k)
DeleterMoves(r) == RequestDelete(r) \/ HandleDelete(r) \/ FailDelete(r)
UploaderMoves(u) == RequestUpload(u) \/ HandleUpload(u) \/ FailUpload(u)

\* A step of a worker is about its own record and its own version.
LEMMA WorkerFrame ==
    ASSUME TypeOK, NEW w \in Workers, WorkerMoves(w)
    PROVE  /\ UNCHANGED <<deleter, cleaner, uploader, files, cleanupQueue, lastVersion>>
           /\ ~Publish(w) => UNCHANGED document
           /\ \A x \in Workers \ {w} : worker'[x] = worker[x]
<1> USE DEF TypeOK, CatalogTypeOK, WorkerTypeOK, WorkerMoves, Work, WorkFault, WorkerStep,
            WorkerFault, Receive, SkipDelivery, Claim, NotClaimable, FailJob, BeginFail, StartProcessing,
            LostRace, Resume, Parse, EnsureCollection, IndexDense, IndexSparse, Verify, MakeReady, Publish, Retry,
            Fail, Overtaken, Acknowledge, Crash, Abandon, AbortWork
<1>1. UNCHANGED <<deleter, cleaner, uploader>>
  OBVIOUS
<1>2. UNCHANGED <<files, cleanupQueue, lastVersion>>
  BY DEF catalogVars, stores, queues
<1>3. ~Publish(w) => UNCHANGED document
  BY DEF catalogVars, rows
<1>4. \A x \in Workers \ {w} : worker'[x] = worker[x]
  BY DEF GoTo, Stage, Idle
<1> QED BY <1>1, <1>2, <1>3, <1>4

\* The rows and points of other versions stay as they are.
LEMMA WorkerRows ==
    ASSUME TypeOK, NEW w \in Workers, WorkerMoves(w), NEW v \in Versions
    PROVE  /\ v # worker[w].version =>
                version'[v] = version[v] /\ job'[v] = job[v] /\ points'[v] = points[v]
           /\ version'[v].document = version[v].document
           /\ version'[v].status # version[v].status =>
                /\ worker[w].pc \in Claimed /\ v = worker[w].version
                /\ version'[v].status \in {"PROCESSING", "READY", "FAILED"}
                /\ version'[v].status = "READY" => Publish(w)
           /\ v \in chunked => v \in chunked'
<1> USE DEF TypeOK, CatalogTypeOK, RowsTypeOK, StoresTypeOK, WorkerMoves, Work, WorkFault,
            WorkerStep, WorkerFault, Receive, SkipDelivery, Claim, NotClaimable, BeginFail, StartProcessing,
            LostRace, Resume, Parse, EnsureCollection, IndexDense, IndexSparse, Verify, MakeReady, Overtaken,
            Acknowledge, Crash, Abandon, AbortWork, catalogVars, rows, stores
<1>1. CASE FailJob(w) \/ Publish(w) \/ Retry(w) \/ Fail(w)
  <2> USE <1>1 DEF FailJob, Publish, Retry, Fail
  <2>1. v # worker[w].version =>
           version'[v] = version[v] /\ job'[v] = job[v] /\ points'[v] = points[v]
    BY DEF SaveVersion, SaveJob
  <2>2. version'[v].document = version[v].document
    BY SaveVersionEffect
  <2>3. version'[v].status # version[v].status =>
           /\ v = worker[w].version
           /\ version'[v].status \in {"PROCESSING", "READY", "FAILED"}
    <3>1. \/ UNCHANGED version
          \/ \E s \in {"PROCESSING", "READY", "FAILED"} : SaveVersion(worker[w].version, s)
      OBVIOUS
    <3> HIDE <1>1 DEF FailJob, Publish, Retry, Fail
    <3> QED BY <2>1, <3>1, SaveVersionEffect
  <2>4. worker[w].pc \in Claimed
    BY DEF Claimed, Indexing, Failing, At, CanFail
  <2>5. v \in chunked => v \in chunked'
    BY DEF KeepChunks
  <2> HIDE DEF Publish
  <2>6. version'[v].status # version[v].status /\ version'[v].status = "READY" => Publish(w)
    BY DEF SaveVersion, VersionRow
  <2> QED BY <2>1, <2>2, <2>3, <2>4, <2>5, <2>6
<1>2. CASE ~(FailJob(w) \/ Publish(w) \/ Retry(w) \/ Fail(w))
  <2>1. version'[v] = version[v] /\ chunked' = chunked
    BY <1>2
  <2>2. v # worker[w].version => job'[v] = job[v] /\ points'[v] = points[v]
    BY <1>2 DEF SaveJob, UpsertDense, UpsertSparse
  <2> QED BY <2>1, <2>2
<1> QED BY <1>1, <1>2

\* A step of an upload, or its abort by the deadlock detector.
UploaderSteps(u) == UploaderMoves(u) \/ AbortUpload(u)
DeleterSteps(r) == DeleterMoves(r) \/ AbortDelete(r)

LEMMA UploaderFrame ==
    ASSUME TypeOK, NEW u \in Uploaders, UploaderSteps(u)
    PROVE  /\ UNCHANGED <<worker, deleter, cleaner, points, chunked, cleanupQueue>>
           /\ \A x \in Uploaders \ {u} : uploader'[x] = uploader[x]
           /\ lastVersion' >= lastVersion
           /\ \A v \in files : v \in files' \/ (Storing(u) /\ v = uploader[u].version)
           /\ \A v \in Versions : jobLock[v] # u => jobLock'[v] = jobLock[v]
<1> USE DEF TypeOK, CatalogTypeOK, UploadTypeOK, UploaderSteps, UploaderMoves, RequestUpload,
            HandleUpload, FailUpload, UploadRequest, UploaderStep, UploaderFault, AbortUpload,
            UploadFailed, UploadDocument, UploadVersion, NumberVersion, PutFile,
            InsertVersion, InsertRefused, UndoUpload, UndoAndRequeue, EnqueueIngestion,
            UploadCrash, PutFails, InsertFails, UndoFails
<1>1. UNCHANGED <<worker, deleter, cleaner>>
  OBVIOUS
<1>2. UNCHANGED <<points, chunked, cleanupQueue>>
  BY DEF catalogVars, rows, stores, queues
<1>3. \A x \in Uploaders \ {u} : uploader'[x] = uploader[x]
  OBVIOUS
<1>4. lastVersion' >= lastVersion
  <2>1. lastVersion \in Nat /\ (UNCHANGED lastVersion \/ DrawVersion)
    BY DEF catalogVars
  <2> QED BY ONLY <2>1 DEF DrawVersion
<1>5. \A v \in files : v \in files' \/ (Storing(u) /\ v = uploader[u].version)
  BY DEF catalogVars, stores, Storing, Undoing
<1>6. \A v \in Versions : jobLock[v] # u => jobLock'[v] = jobLock[v]
  BY ReleaseKeeps DEF catalogVars, locks
<1> QED BY <1>1, <1>2, <1>3, <1>4, <1>5, <1>6

\* The rows an upload writes: its new version and document, or the FAILED version
\* it queues again.
LEMMA UploaderRows ==
    ASSUME TypeOK, NEW u \in Uploaders, UploaderSteps(u)
    PROVE  /\ \A v \in Versions :
                \/ version'[v] = version[v] /\ job'[v] = job[v]
                \/ InsertVersion(u) /\ v = uploader[u].version
                \/ /\ version[v].status = "FAILED" /\ jobLock[v] \in {None, u}
                   /\ version'[v].status = "QUEUED" /\ job'[v].status = "PENDING"
                   /\ version'[v].document = version[v].document
           /\ \A d \in Documents :
                \/ document'[d] = document[d]
                \/ /\ Storing(u) /\ uploader[u].isNew
                   /\ d = uploader[u].document /\ uploader'[u].pc = "wake"
                   /\ document'[d].state = "live"
                   /\ document'[d].active = document[d].active
<1> USE DEF TypeOK, CatalogTypeOK, RowsTypeOK, UploadTypeOK, UploaderSteps, UploaderMoves,
            RequestUpload, HandleUpload, FailUpload, UploadRequest, UploaderStep, UploaderFault,
            AbortUpload, UploadDocument, UploadVersion, NumberVersion, PutFile, InsertRefused,
            UndoUpload, EnqueueIngestion, UploadCrash, PutFails, InsertFails, UndoFails,
            catalogVars, rows
<1>1. \/ UNCHANGED <<document, version, job>>
      \/ \E e \in Versions : UploadFailed(u, e)
      \/ InsertVersion(u)
      \/ UndoAndRequeue(u)
  OBVIOUS
<1>2. ASSUME NEW e \in Versions, Requeue(e, u)
      PROVE  \A v \in Versions :
                \/ version'[v] = version[v] /\ job'[v] = job[v]
                \/ /\ version[v].status = "FAILED" /\ jobLock[v] \in {None, u}
                   /\ version'[v].status = "QUEUED" /\ job'[v].status = "PENDING"
                   /\ version'[v].document = version[v].document
  BY <1>2 DEF Requeue, VersionRow, JobRow, JobFree
<1>3. CASE UNCHANGED <<document, version, job>>
  BY <1>3
<1>4. CASE \E e \in Versions : UploadFailed(u, e)
  BY <1>2, <1>4 DEF UploadFailed
<1>a. ASSUME AddDocument(u), NEW d \in Documents
      PROVE  \/ document'[d] = document[d]
             \/ /\ uploader[u].isNew /\ d = uploader[u].document
                /\ document'[d].state = "live"
                /\ document'[d].active = document[d].active
  <2>1. document[d] \in DocumentRow
    OBVIOUS
  <2> QED BY <1>a, <2>1 DEF AddDocument, DocumentRow
<1>5. CASE InsertVersion(u)
  BY <1>5, <1>a DEF InsertVersion, IdleUpload, Storing
<1>6. CASE UndoAndRequeue(u)
  <2>1. \E e \in Versions : Requeue(e, u)
    BY <1>6 DEF UndoAndRequeue, FailedWithHash, WithHash
  <2>2. uploader'[u].pc = "wake" /\ Storing(u)
    BY <1>6 DEF UndoAndRequeue, IdleUpload, Storing, Undoing
  <2>3. AddDocument(u) \/ UNCHANGED document
    BY <1>6 DEF UndoAndRequeue
  <2> QED BY <1>2, <1>a, <2>1, <2>2, <2>3
<1> QED BY <1>1, <1>3, <1>4, <1>5, <1>6

LEMMA DeleterFrame ==
    ASSUME TypeOK, NEW r \in Deleters, DeleterSteps(r)
    PROVE  /\ UNCHANGED <<worker, cleaner, uploader, job, chunked, points, files, lastVersion>>
           /\ \A x \in Deleters \ {r} : deleter'[x] = deleter[x]
           /\ \A d \in Documents : cleanupQueue'[d] = cleanupQueue[d] \/
                (deleter[r].pc = "wake" /\ d = deleter[r].document)
           /\ \A v \in Versions : jobLock[v] # r => jobLock'[v] = jobLock[v]
<1> USE DEF TypeOK, CatalogTypeOK, QueuesTypeOK, DeletionTypeOK, DeleterSteps, DeleterMoves,
            RequestDelete, HandleDelete, FailDelete, DeleteRequest, DeleterStep, AbortDelete,
            DeleteAgain, Delete, MarkDeleting, DeleteConflict, Tombstone, EnqueueCleanup,
            DeleteFault
<1>1. UNCHANGED <<worker, cleaner, uploader>>
  OBVIOUS
<1>2. UNCHANGED <<job, chunked, points, files, lastVersion>>
  BY DEF catalogVars, rows, stores
<1>3. \A x \in Deleters \ {r} : deleter'[x] = deleter[x]
  BY DEF AskCleanup
<1>4. \A d \in Documents : cleanupQueue'[d] = cleanupQueue[d] \/
                (deleter[r].pc = "wake" /\ d = deleter[r].document)
  BY DEF catalogVars, queues, WakeCleanup, Push
<1>5. \A v \in Versions : jobLock[v] # r => jobLock'[v] = jobLock[v]
  BY ReleaseKeeps DEF catalogVars, locks
<1> QED BY <1>1, <1>2, <1>3, <1>4, <1>5

\* The rows a delete request writes: those of its tombstone.
LEMMA DeleterRows ==
    ASSUME TypeOK, NEW r \in Deleters, DeleterSteps(r)
    PROVE  \/ UNCHANGED <<document, version>>
           \/ /\ Tombstone(r)
              /\ document' = [document EXCEPT ![deleter[r].document] =
                                [state |-> "deleted", active |-> None]]
              /\ \A v \in Versions :
                    /\ version'[v].document = version[v].document
                    /\ version'[v].status = IF v \in deleter[r].marked THEN "DELETING"
                                            ELSE version[v].status
<1> USE DEF TypeOK, CatalogTypeOK
<1>1. CASE Tombstone(r)
  BY <1>1, SaveStatusEffect DEF Tombstone
<1>2. CASE ~Tombstone(r)
  BY <1>2 DEF DeleterSteps, DeleterMoves, RequestDelete, HandleDelete, FailDelete, DeleteRequest,
              DeleterStep, AbortDelete, DeleteAgain, Delete, MarkDeleting, DeleteConflict,
              EnqueueCleanup, DeleteFault, catalogVars, rows
<1> QED BY <1>1, <1>2

LEMMA CleanerFrame ==
    ASSUME TypeOK, NEW k \in Cleaners, CleanerMoves(k)
    PROVE  /\ UNCHANGED <<worker, deleter, uploader, document, job, chunked, lastVersion>>
           /\ \A x \in Cleaners \ {k} : cleaner'[x] = cleaner[x]
           /\ \A d \in Documents : cleanupQueue'[d] > 0 => cleanupQueue[d] > 0 \/
                (cleaner[k].pc # "idle" /\ d = cleaner[k].document)
           /\ \A v \in Versions : jobLock[v] # k => jobLock'[v] = jobLock[v]
           /\ \A v \in Versions : points'[v] = points[v] \/
                (cleaner[k].pc # "idle" /\ v \in cleaner[k].todo)
           /\ \A v \in files : v \in files' \/
                (cleaner[k].pc # "idle" /\ v \in cleaner[k].todo)
<1> USE DEF TypeOK, CatalogTypeOK, QueuesTypeOK, StoresTypeOK, DeletionTypeOK, CleanerMoves,
            Clean, CleanFault, CleanerStep, CleanerFault, Purge, DropPoints, DropFile,
            CheckStatus, MarkDeleted, PurgeConflict, PurgeRefused, PurgeExhausted, FinishPurge,
            PurgeRetry, PurgeLost, Refused
<1>1. UNCHANGED <<worker, deleter, uploader>>
  OBVIOUS
<1>2. UNCHANGED <<document, job, chunked, lastVersion>>
  BY DEF rows, catalogVars
<1>3. \A x \in Cleaners \ {k} : cleaner'[x] = cleaner[x]
  OBVIOUS
<1>4. \A d \in Documents : cleanupQueue'[d] > 0 => cleanupQueue[d] > 0 \/
                (cleaner[k].pc # "idle" /\ d = cleaner[k].document)
  BY DEF queues, catalogVars, WakeCleanup, Push, Pop
<1>5. \A v \in Versions : jobLock[v] # k => jobLock'[v] = jobLock[v]
  BY ReleaseKeeps DEF locks, catalogVars, LockVersion
<1>6. \A v \in Versions : points'[v] = points[v] \/
                (cleaner[k].pc # "idle" /\ v \in cleaner[k].todo)
  BY DEF stores, catalogVars, IsFirst
<1>7. \A v \in files : v \in files' \/
                (cleaner[k].pc # "idle" /\ v \in cleaner[k].todo)
  BY DEF stores, catalogVars, IsFirst
<1> QED BY <1>1, <1>2, <1>3, <1>4, <1>5, <1>6, <1>7

LEMMA CleanerRows ==
    ASSUME TypeOK, NEW k \in Cleaners, CleanerMoves(k)
    PROVE  \/ UNCHANGED version
           \/ /\ FinishPurge(k)
              /\ \A v \in Versions :
                    /\ version'[v].document = version[v].document
                    /\ version'[v].status = IF v \in cleaner[k].marked THEN "DELETED"
                                            ELSE version[v].status
<1> USE DEF TypeOK, CatalogTypeOK
<1>1. CASE FinishPurge(k)
  BY <1>1, SaveStatusEffect DEF FinishPurge
<1>2. CASE ~FinishPurge(k)
  BY <1>2 DEF CleanerMoves, Clean, CleanFault, CleanerStep, CleanerFault, Purge, DropPoints,
              DropFile, CheckStatus, MarkDeleted, PurgeConflict, PurgeRefused, PurgeExhausted,
              PurgeRetry, PurgeLost, rows, catalogVars
<1> QED BY <1>1, <1>2

LEMMA NextCases ==
    ASSUME [Next]_vars
    PROVE  \/ \E w \in Workers : WorkerMoves(w)
           \/ \E k \in Cleaners : CleanerMoves(k)
           \/ \E r \in Deleters : DeleterSteps(r)
           \/ \E u \in Uploaders : UploaderSteps(u)
           \/ UNCHANGED vars
BY DEF Next, WorkerMoves, CleanerMoves, DeleterMoves, DeleterSteps, UploaderMoves, UploaderSteps,
       BreakDeadlock, Quiescent

\* The document of a version it publishes is the only row of documents a worker
\* writes, and it writes its active version only.
LEMMA PublishDocument ==
    ASSUME TypeOK, NEW w \in Workers, WorkerMoves(w), NEW d \in Documents
    PROVE  /\ document'[d].state = document[d].state
           /\ \/ document'[d].active = document[d].active
              \/ /\ Publish(w) /\ d = version[worker[w].version].document
                 /\ document'[d].active = worker[w].version
<1>1. CASE Publish(w)
  BY <1>1 DEF Publish, TypeOK, CatalogTypeOK, RowsTypeOK, DocumentRow
<1>2. CASE ~Publish(w)
  BY <1>2, WorkerFrame
<1> QED BY <1>1, <1>2

\* Versions and documents never disappear, a version keeps its document, and a
\* deleted document stays deleted.
LEMMA Monotone ==
    ASSUME IInv, [Next]_vars
    PROVE  /\ \A v \in Versions : Exists(v) =>
                 Exists(v)' /\ version'[v].document = version[v].document
           /\ \A d \in Documents :
                 /\ Deleted(d) => Deleted(d)'
                 /\ document[d].state # "absent" => document'[d].state # "absent"
           /\ lastVersion' >= lastVersion
<1> USE DEF Exists, Deleted
<1>a. TypeOK /\ lastVersion \in Nat
  BY DEF IInv, TypeOK, CatalogTypeOK
<1>1. CASE \E w \in Workers : WorkerMoves(w)
  <2> PICK w \in Workers : WorkerMoves(w)
    BY <1>1
  <2>1. \A v \in Versions : Exists(v) =>
           Exists(v)' /\ version'[v].document = version[v].document
    BY <1>a, WorkerRows
  <2> QED BY <1>a, <2>1, WorkerFrame, PublishDocument
<1>2. CASE \E k \in Cleaners : CleanerMoves(k)
  BY <1>2, <1>a, CleanerFrame, CleanerRows
<1>3. CASE \E r \in Deleters : DeleterSteps(r)
  <2> PICK r \in Deleters : DeleterSteps(r)
    BY <1>3
  <2>1. \A d \in Documents : document'[d] = document[d] \/ document'[d].state = "deleted"
    BY <1>a, DeleterRows DEF TypeOK, CatalogTypeOK, RowsTypeOK
  <2>2. \A v \in Versions : Exists(v) =>
           Exists(v)' /\ version'[v].document = version[v].document
    BY <1>a, DeleterRows
  <2> QED BY <1>a, <2>1, <2>2, DeleterFrame
<1>4. CASE \E u \in Uploaders : UploaderSteps(u)
  <2> PICK u \in Uploaders : UploaderSteps(u)
    BY <1>4
  <2>1. \A v \in Versions : Exists(v) =>
           Exists(v)' /\ version'[v].document = version[v].document
    <3>1. InsertVersion(u) => ~Exists(uploader[u].version)
      BY DEF IInv, DrawnVersions, Storing, InsertVersion
    <3> QED BY <1>a, <3>1, UploaderRows
  <2>2. ASSUME NEW d \in Documents
        PROVE  /\ Deleted(d) => Deleted(d)'
               /\ document[d].state # "absent" => document'[d].state # "absent"
    <3>1. Storing(u) /\ uploader[u].isNew =>
             document[uploader[u].document].state = "absent"
      BY DEF IInv, DrawnDocuments
    <3> QED BY <1>a, <3>1, UploaderRows
  <2> QED BY <1>a, <2>1, <2>2, UploaderFrame
<1>5. CASE UNCHANGED vars
  BY <1>5, <1>a DEF vars, catalogVars, rows
<1> QED BY <1>1, <1>2, <1>3, <1>4, <1>5, NextCases

-----------------------------------------------------------------------------
(***************************************************************************)
(* The conjuncts of the invariant                                          *)
(***************************************************************************)
\* The claim takes the job's row only when no other transaction has it, and as
\* long as the claimer holds it no upload can queue the version again.
LEMMA ClaimHeldStep ==
    ASSUME IInv, [Next]_vars
    PROVE  ClaimHeld'
<1>a. TypeOK /\ ClaimHeld /\ WorkerTypeOK /\ LocksTypeOK /\ DeliveredExists
  BY DEF IInv, TypeOK, CatalogTypeOK
<1>b. \A x \in Workers : worker[x].pc # "idle" => worker[x].version \in Versions
  BY <1>a, ClaimedTyped
<1>c. \A x \in Workers : worker[x].pc \in Claimed => worker[x].pc # "idle"
  BY DEF Claimed, Indexing, Failing
<1>1. CASE \E w \in Workers : WorkerMoves(w)
  <2> PICK w \in Workers : WorkerMoves(w)
    BY <1>1
  <2> DEFINE v == worker[w].version
  <2>1. ASSUME worker'[w].pc \in Claimed
        PROVE  jobLock'[worker'[w].version] = w /\ job'[worker'[w].version].status = "PENDING"
    <3>1. \/ Claim(w)
          \/ StartProcessing(w) \/ Resume(w) \/ Parse(w) \/ EnsureCollection(w) \/ IndexDense(w) \/ IndexSparse(w)
          \/ Verify(w) \/ MakeReady(w) \/ BeginFail(w)
          \/ worker'[w] = worker[w] /\ UNCHANGED <<job, jobLock>>
      BY <1>a, <2>1, MoveEffect DEF WorkerTypeOK, WorkerMoves, Work, WorkFault, WorkerStep,
         WorkerFault, Receive, SkipDelivery, NotClaimable, FailJob, LostRace, Publish, Retry,
         Fail, Overtaken, Acknowledge, Crash, Abandon, AbortWork, Claimed, Indexing, Failing, rows, locks
    <3>2. CASE Claim(w)
      BY <1>a, <1>b, <3>2
         DEF Claim, Claimable, At, GoTo, LockJob, rows, WorkerTypeOK, LocksTypeOK
    <3>3. CASE StartProcessing(w) \/ Resume(w) \/ Parse(w) \/ EnsureCollection(w) \/ IndexDense(w) \/ IndexSparse(w)
               \/ Verify(w) \/ MakeReady(w) \/ BeginFail(w)
      <4>1. worker[w].pc \in Claimed
        BY <3>3 DEF StartProcessing, Resume, Parse, EnsureCollection, IndexDense, IndexSparse, Verify, MakeReady,
                    BeginFail, CanFail, At, Claimed, Indexing, Failing
      <4>2. worker'[w].version = worker[w].version
        BY <1>a, <3>3, MoveEffect
           DEF StartProcessing, Resume, Parse, EnsureCollection, IndexDense, IndexSparse, Verify, MakeReady,
               BeginFail
      <4>3. UNCHANGED <<job, jobLock>>
        BY <3>3 DEF StartProcessing, Resume, Parse, EnsureCollection, IndexDense, IndexSparse, Verify, MakeReady,
                    BeginFail, rows, locks, catalogVars
      <4> QED BY <1>a, <4>1, <4>2, <4>3 DEF ClaimHeld
    <3>4. CASE worker'[w] = worker[w] /\ UNCHANGED <<job, jobLock>>
      BY <1>a, <2>1, <3>4 DEF ClaimHeld
    <3> QED BY <3>1, <3>2, <3>3, <3>4
  <2>2. ASSUME NEW x \in Workers \ {w}, worker[x].pc \in Claimed
        PROVE  /\ jobLock'[worker[x].version] = x
               /\ job'[worker[x].version].status = "PENDING"
    <3> DEFINE u == worker[x].version
    <3>1. u \in Versions /\ jobLock[u] = x /\ job[u].status = "PENDING" /\ x # None
      BY <1>a, <1>b, <1>c, <2>2, ProcessesDistinct DEF ClaimHeld
    <3>2. UNCHANGED job \/ worker[w].pc \in Claimed
      BY DEF WorkerMoves, Work, WorkFault, WorkerStep, WorkerFault, Receive, SkipDelivery,
             Claim, NotClaimable, FailJob, BeginFail, StartProcessing, LostRace, Resume, Parse,
             EnsureCollection, IndexDense, IndexSparse, Verify, MakeReady, Publish, Retry, Fail, Overtaken,
             Acknowledge, Crash, Abandon, AbortWork, At, Claimed, Indexing, Failing, CanFail, rows,
             catalogVars
    <3>3. worker[w].pc \in Claimed => v # u
      BY <1>a, <3>1 DEF ClaimHeld
    <3>4. job'[u] = job[u]
      BY <1>a, <3>1, <3>2, <3>3, WorkerRows
    <3>5. \/ UNCHANGED jobLock \/ ReleaseLocks(w)
          \/ LockJob(v, w) /\ JobFree(v, w)
      BY DEF WorkerMoves, Work, WorkFault, WorkerStep, WorkerFault, Receive, SkipDelivery,
             Claim, NotClaimable, FailJob, BeginFail, StartProcessing, LostRace, Resume, Parse,
             EnsureCollection, IndexDense, IndexSparse, Verify, MakeReady, Publish, Retry, Fail, Overtaken,
             Acknowledge, Crash, Abandon, AbortWork, locks, catalogVars
    <3>6. jobLock'[u] = x
      BY <1>a, <3>1, <3>5, ReleaseKeeps DEF LockJob, JobFree, LocksTypeOK
    <3> QED BY <3>1, <3>4, <3>6
  <2>3. \A x \in Workers \ {w} : worker'[x] = worker[x]
    BY <1>a, WorkerFrame
  <2> QED BY <2>1, <2>2, <2>3 DEF ClaimHeld
<1>2. CASE \E k \in Cleaners : CleanerMoves(k)
  BY <1>2, <1>a, <1>b, <1>c, CleanerFrame, ProcessesDistinct DEF ClaimHeld
<1>3. CASE \E r \in Deleters : DeleterSteps(r)
  BY <1>3, <1>a, <1>b, <1>c, DeleterFrame, ProcessesDistinct DEF ClaimHeld
<1>4. CASE \E u \in Uploaders : UploaderSteps(u)
  <2> PICK u \in Uploaders : UploaderSteps(u)
    BY <1>4
  <2>1. InsertVersion(u) => ~Exists(uploader[u].version)
    BY DEF IInv, DrawnVersions, Storing, InsertVersion
  <2>2. ASSUME NEW x \in Workers, worker[x].pc \in Claimed
        PROVE  /\ jobLock'[worker[x].version] = x
               /\ job'[worker[x].version].status = "PENDING"
    <3> DEFINE v == worker[x].version
    <3>1. /\ v \in Versions /\ jobLock[v] = x /\ job[v].status = "PENDING"
          /\ x \notin {None, u} /\ Exists(v)
      BY <1>a, <1>b, <1>c, <2>2, ProcessesDistinct DEF ClaimHeld, DeliveredExists
    <3>2. job'[v].status = "PENDING"
      BY <1>a, <2>1, <3>1, UploaderRows
    <3> QED BY <1>a, <3>1, <3>2, UploaderFrame
  <2> QED BY <1>a, <2>2, UploaderFrame DEF ClaimHeld
<1>5. CASE UNCHANGED vars
  BY <1>a, <1>5 DEF vars, catalogVars, rows, locks, ClaimHeld
<1> QED BY <1>1, <1>2, <1>3, <1>4, <1>5, NextCases

\* The version of a delivery exists when it is received, and stays.
LEMMA DeliveredExistsStep ==
    ASSUME IInv, [Next]_vars
    PROVE  DeliveredExists'
<1>a. TypeOK /\ WorkerTypeOK /\ DeliveredExists
  BY DEF IInv, TypeOK
<1>b. \A x \in Workers : worker[x].pc # "idle" => worker[x].version \in Versions
  BY <1>a, ClaimedTyped
<1>1. CASE \E w \in Workers : WorkerMoves(w)
  <2> PICK w \in Workers : WorkerMoves(w)
    BY <1>1
  <2>1. \/ \E v \in Versions : Receive(w, v)
        \/ worker'[w].pc = "idle"
        \/ worker[w].pc # "idle" /\ worker'[w].version = worker[w].version
    BY <1>a, MoveEffect DEF WorkerMoves, Work, WorkFault, WorkerStep, WorkerFault,
       SkipDelivery, Claim, NotClaimable, FailJob, BeginFail, StartProcessing, LostRace, Resume, Parse,
       EnsureCollection, IndexDense, IndexSparse, Verify, MakeReady, Publish, Retry, Fail, Overtaken,
       Acknowledge, Crash, Abandon, AbortWork, At, Indexing, Failing, CanFail
  <2>2. ASSUME NEW v \in Versions, Receive(w, v)
        PROVE  worker'[w].version = v /\ Exists(v)
    BY <1>a, <2>2 DEF Receive, WorkerTypeOK, Ingestible, Exists
  <2>3. \A v \in Versions : Exists(v) => Exists(v)'
    BY Monotone
  <2>4. worker'[w].pc # "idle" => version'[worker'[w].version].status # "absent"
    BY <1>a, <1>b, <2>1, <2>2, <2>3 DEF DeliveredExists, Exists
  <2>5. \A x \in Workers \ {w} : worker'[x] = worker[x]
    BY <1>a, WorkerFrame
  <2>6. ASSUME NEW x \in Workers \ {w}, worker'[x].pc # "idle"
        PROVE  version'[worker'[x].version].status # "absent"
    BY <1>a, <1>b, <2>3, <2>5, <2>6 DEF DeliveredExists, Exists
  <2> QED BY <2>4, <2>6 DEF DeliveredExists, Exists
<1>2. CASE UNCHANGED worker
  BY <1>a, <1>b, <1>2, Monotone DEF DeliveredExists
<1> QED
  BY <1>a, <1>1, <1>2, NextCases, CleanerFrame, DeleterFrame, UploaderFrame DEF vars

\* A version begins to exist by the insert of the upload that drew it only.
LEMMA Insertion ==
    ASSUME IInv, [Next]_vars, NEW v \in Versions, ~Exists(v)
    PROVE  \/ ~Exists(v)' /\ version'[v].document = version[v].document
           \/ \E u \in Uploaders : UploaderSteps(u) /\ InsertVersion(u) /\ v = uploader[u].version
<1> USE DEF Exists
<1>a. TypeOK /\ DeliveredExists /\ version[v].document \notin Documents
  BY ProcessesDistinct DEF IInv, VersionsHaveDocuments
<1>b. DeletionTypeOK /\ WorkerTypeOK
  BY <1>a DEF TypeOK
<1>1. CASE \E w \in Workers : WorkerMoves(w)
  <2> PICK w \in Workers : WorkerMoves(w)
    BY <1>1
  <2>1. worker[w].pc \in Claimed => v # worker[w].version
    BY <1>a DEF DeliveredExists, Claimed, Indexing, Failing
  <2> QED BY <1>a, <2>1, WorkerRows
<1>2. CASE \E k \in Cleaners : CleanerMoves(k)
  <2> PICK k \in Cleaners : CleanerMoves(k)
    BY <1>2
  <2>1. FinishPurge(k) => cleaner[k].document \in Documents /\ cleaner[k].pc # "idle"
    BY <1>b, DeletionTyped DEF FinishPurge, DeletionTypeOK
  <2>2. FinishPurge(k) => v \notin cleaner[k].marked
    BY <1>a, <2>1 DEF IInv, CleanupsOfDeleted
  <2> QED BY <1>a, <2>2, CleanerRows
<1>3. CASE \E r \in Deleters : DeleterSteps(r)
  <2> PICK r \in Deleters : DeleterSteps(r)
    BY <1>3
  <2>1. Tombstone(r) => deleter[r].document \in Documents /\ deleter[r].pc = "mark"
    BY <1>b, DeletionTyped DEF Tombstone, DeletionTypeOK
  <2>2. Tombstone(r) => v \notin deleter[r].marked
    BY <1>a, <2>1 DEF IInv, CleanupsOfDeleted
  <2> QED BY <1>a, <2>2, DeleterRows
<1>4. CASE \E u \in Uploaders : UploaderSteps(u)
  <2> PICK u \in Uploaders : UploaderSteps(u)
    BY <1>4
  <2>1. \/ version'[v] = version[v]
        \/ InsertVersion(u) /\ v = uploader[u].version
    BY <1>a, UploaderRows
  <2> QED BY <2>1
<1>5. CASE UNCHANGED vars
  BY <1>5 DEF vars, catalogVars, rows
<1> QED BY <1>1, <1>2, <1>3, <1>4, <1>5, NextCases

\* What the insert of an upload writes.
LEMMA InsertEffect ==
    ASSUME IInv, NEW u \in Uploaders, InsertVersion(u)
    PROVE  /\ Storing(u) /\ uploader[u].version \in Versions
           /\ uploader[u].document \in Documents
           /\ version'[uploader[u].version].document = uploader[u].document
           /\ version'[uploader[u].version].status = "QUEUED"
           /\ job'[uploader[u].version].status = "PENDING"
           /\ document'[uploader[u].document].state # "absent"
<1>1. RowsTypeOK /\ uploader[u] \in UploadRecord
  BY DEF IInv, TypeOK, CatalogTypeOK, UploadTypeOK
<1>2. uploader[u].pc = "insert" /\ uploader[u].version \in Versions
      /\ uploader[u].document \in Documents
  BY <1>1, UploadTyped DEF InsertVersion
<1>3. version'[uploader[u].version] =
        [status |-> "QUEUED", document |-> uploader[u].document, hash |-> uploader[u].hash]
  BY <1>1, <1>2 DEF InsertVersion, RowsTypeOK
<1>4. job'[uploader[u].version].status = "PENDING"
  BY <1>1, <1>2 DEF InsertVersion, RowsTypeOK, JobRow
<1>5. document'[uploader[u].document].state # "absent"
  <2>1. ~uploader[u].isNew => document[uploader[u].document].state # "absent"
    BY <1>2 DEF IInv, DrawnDocuments, Storing
  <2> QED BY <1>1, <1>2, <2>1 DEF InsertVersion, AddDocument, RowsTypeOK, DocumentRow
<1> QED BY <1>2, <1>3, <1>4, <1>5 DEF Storing

LEMMA VersionsHaveDocumentsStep ==
    ASSUME IInv, [Next]_vars
    PROVE  VersionsHaveDocuments'
<1>a. VersionsHaveDocuments /\ DrawnVersions /\ TypeOK
  BY DEF IInv
<1>b. Versions \subseteq Nat /\ lastVersion \in Nat /\ lastVersion' >= lastVersion
      /\ lastVersion' \in Nat
  <2>1. TypeOK'
    BY <1>a, StepTyped
  <2> QED BY <1>a, <2>1, VersionsAssumption, Monotone DEF TypeOK, CatalogTypeOK
<1> SUFFICES ASSUME NEW v \in Versions
             PROVE  /\ Exists(v)' => /\ v <= lastVersion'
                                     /\ version'[v].document \in Documents
                                     /\ document'[version'[v].document].state # "absent"
                    /\ ~Exists(v)' => version'[v].document = None
  BY DEF VersionsHaveDocuments, Exists
<1>1. CASE Exists(v)
  <2>1. /\ v <= lastVersion
        /\ version[v].document \in Documents
        /\ document[version[v].document].state # "absent"
    BY <1>1, <1>a DEF VersionsHaveDocuments
  <2>2. Exists(v)' /\ version'[v].document = version[v].document
        /\ document'[version[v].document].state # "absent"
    BY <1>1, <2>1, Monotone
  <2>3. v <= lastVersion'
    BY <1>b, <2>1
  <2> QED BY <2>1, <2>2, <2>3
<1>2. CASE ~Exists(v) /\ ~Exists(v)' /\ version'[v].document = version[v].document
  BY <1>2, <1>a DEF VersionsHaveDocuments
<1>3. CASE \E u \in Uploaders : InsertVersion(u) /\ v = uploader[u].version
  <2> PICK u \in Uploaders : InsertVersion(u) /\ v = uploader[u].version
    BY <1>3
  <2>1. v <= lastVersion
    BY <1>a, InsertEffect DEF DrawnVersions
  <2>2. v <= lastVersion'
    BY <1>b, <2>1
  <2>3. version'[v].status = "QUEUED"
    BY InsertEffect
  <2> QED BY <2>2, <2>3, InsertEffect DEF Exists
<1> QED BY <1>1, <1>2, <1>3, Insertion

\* The request goes on with the exception handler.
BeginsUndoing(u) ==
    \/ InsertRefused(u) \/ PutFails(u) \/ InsertFails(u)
    \/ AbortUpload(u) /\ uploader[u].pc = "insert"

\* The steps after which an upload has drawn a version or a document.
LEMMA UploaderMove ==
    ASSUME TypeOK, NEW u \in Uploaders, UploaderSteps(u), uploader'[u].pc = "lock" \/ Storing(u)'
    PROVE  /\ UNCHANGED <<document, version, job>>
           /\ \/ \E h \in Hashes, d \in Documents : UploadDocument(u, h, d)
              \/ \E h \in Hashes, d \in Documents : UploadVersion(u, h, d)
              \/ NumberVersion(u)
              \/ PutFile(u)
              \/ BeginsUndoing(u)
<1> USE DEF TypeOK, UploadTypeOK
<1>1. \/ \E h \in Hashes, d \in Documents : UploadDocument(u, h, d)
      \/ \E h \in Hashes, d \in Documents : UploadVersion(u, h, d)
      \/ NumberVersion(u)
      \/ PutFile(u)
      \/ BeginsUndoing(u)
  <2>1. \A v : [IdleUpload EXCEPT !.pc = "wake", !.version = v].pc = "wake"
    BY DEF IdleUpload
  <2>2. (\E e \in Versions : UploadFailed(u, e)) \/ InsertVersion(u) \/ UndoAndRequeue(u)
           => uploader'[u].pc = "wake"
    <3>1. \A v : uploader' = [uploader EXCEPT ![u] = [IdleUpload EXCEPT !.pc = "wake", !.version = v]]
             => uploader'[u].pc = "wake"
      BY ONLY <2>1, uploader \in [Uploaders -> UploadRecord], u \in Uploaders
    <3> QED BY ONLY <3>1 DEF UploadFailed, InsertVersion, UndoAndRequeue
  <2>3. (AbortUpload(u) /\ uploader[u].pc # "insert") \/ UndoUpload(u) \/ EnqueueIngestion(u)
           \/ UploadCrash(u) \/ UndoFails(u) => uploader'[u].pc = "idle"
    BY DEF AbortUpload, UndoUpload, EnqueueIngestion, UploadCrash, UndoFails, IdleUpload
  <2> QED
    BY <2>2, <2>3 DEF UploaderSteps, UploaderMoves, RequestUpload, HandleUpload, FailUpload,
       UploadRequest, UploaderStep, UploaderFault, BeginsUndoing, Storing, Undoing
<1>2. UNCHANGED <<document, version, job>>
  BY <1>1 DEF UploadDocument, UploadVersion, NumberVersion, PutFile, BeginsUndoing, InsertRefused,
              PutFails, InsertFails, AbortUpload, rows, catalogVars
<1> QED BY <1>1, <1>2

\* What an upload's record holds after each of them.
LEMMA UploaderMoveEffect ==
    ASSUME TypeOK, NEW u \in Uploaders
    PROVE  /\ \A h \in Hashes, d \in Documents : UploadDocument(u, h, d) =>
                /\ uploader'[u].pc = "put" /\ uploader'[u].isNew /\ uploader'[u].document = d
                /\ uploader'[u].version = lastVersion + 1 /\ lastVersion' = lastVersion + 1
                /\ lastVersion + 1 \in Versions
           /\ \A h \in Hashes, d \in Documents : UploadVersion(u, h, d) =>
                /\ uploader'[u].pc = "lock" /\ ~uploader'[u].isNew /\ uploader'[u].document = d
           /\ NumberVersion(u) =>
                /\ uploader'[u].pc = "put" /\ uploader'[u].isNew = uploader[u].isNew
                /\ uploader'[u].document = uploader[u].document
                /\ uploader'[u].version = lastVersion + 1 /\ lastVersion' = lastVersion + 1
                /\ lastVersion + 1 \in Versions
           /\ PutFile(u) =>
                /\ uploader'[u].pc = "insert" /\ uploader'[u].isNew = uploader[u].isNew
                /\ uploader'[u].document = uploader[u].document
                /\ uploader'[u].version = uploader[u].version /\ uploader[u].version \in files'
                /\ UNCHANGED lastVersion
           /\ BeginsUndoing(u) =>
                /\ uploader[u].pc \in {"put", "insert"} /\ uploader'[u].pc \in Undoing
                /\ uploader'[u].isNew = uploader[u].isNew
                /\ uploader'[u].document = uploader[u].document
                /\ uploader'[u].version = uploader[u].version
                /\ UNCHANGED <<files, lastVersion>>
<1>1. uploader[u] \in UploadRecord /\ uploader \in [Uploaders -> UploadRecord]
  BY DEF TypeOK, UploadTypeOK
<1>2. ASSUME NEW h \in Hashes, NEW d \in Documents, UploadDocument(u, h, d)
      PROVE  /\ uploader'[u].pc = "put" /\ uploader'[u].isNew /\ uploader'[u].document = d
             /\ uploader'[u].version = lastVersion + 1 /\ lastVersion' = lastVersion + 1
             /\ lastVersion + 1 \in Versions
  BY <1>1, <1>2 DEF UploadDocument, DrawVersion
<1>3. ASSUME NEW h \in Hashes, NEW d \in Documents, UploadVersion(u, h, d)
      PROVE  /\ uploader'[u].pc = "lock" /\ ~uploader'[u].isNew /\ uploader'[u].document = d
  BY <1>1, <1>3 DEF UploadVersion
<1>4. ASSUME NumberVersion(u)
      PROVE  /\ uploader'[u].pc = "put" /\ uploader'[u].isNew = uploader[u].isNew
             /\ uploader'[u].document = uploader[u].document
             /\ uploader'[u].version = lastVersion + 1 /\ lastVersion' = lastVersion + 1
             /\ lastVersion + 1 \in Versions
  <2>1. uploader[u] \in [pc : {"lock"}, document : Documents, isNew : {FALSE}, version : {None},
                         hash : Hashes]
    BY <1>1, <1>4, UploadTyped DEF NumberVersion
  <2>2. uploader'[u] = [uploader[u] EXCEPT !.pc = "put", !.version = lastVersion + 1]
    BY <1>1, <1>4 DEF NumberVersion
  <2>3. lastVersion' = lastVersion + 1 /\ lastVersion + 1 \in Versions
    BY <1>4 DEF NumberVersion, DrawVersion
  <2> QED BY <2>1, <2>2, <2>3
<1>5. ASSUME PutFile(u)
      PROVE  /\ uploader'[u].pc = "insert" /\ uploader'[u].isNew = uploader[u].isNew
             /\ uploader'[u].document = uploader[u].document
             /\ uploader'[u].version = uploader[u].version /\ uploader[u].version \in files'
             /\ UNCHANGED lastVersion
  <2>1. uploader[u] \in [pc : {"put", "insert"} \cup Undoing, document : Documents,
                         isNew : BOOLEAN, version : Versions, hash : Hashes]
    BY <1>1, <1>5, UploadTyped DEF PutFile
  <2>2. uploader'[u] = [uploader[u] EXCEPT !.pc = "insert"]
    BY <1>1, <1>5 DEF PutFile
  <2> QED BY <1>5, <2>1, <2>2 DEF PutFile
<1>6. ASSUME BeginsUndoing(u)
      PROVE  /\ uploader[u].pc \in {"put", "insert"} /\ uploader'[u].pc \in Undoing
             /\ uploader'[u].isNew = uploader[u].isNew
             /\ uploader'[u].document = uploader[u].document
             /\ uploader'[u].version = uploader[u].version
             /\ UNCHANGED <<files, lastVersion>>
  <2> USE DEF BeginsUndoing, InsertRefused, PutFails, InsertFails, AbortUpload
  <2>1. uploader[u].pc \in {"put", "insert"} /\ UNCHANGED <<files, lastVersion>>
    BY <1>6 DEF catalogVars, stores
  <2>2. uploader[u] \in [pc : {"put", "insert"} \cup Undoing, document : Documents,
                         isNew : BOOLEAN, version : Versions, hash : Hashes]
    BY <1>1, <2>1, UploadTyped
  <2>3. \E pc \in Undoing : uploader'[u] = [uploader[u] EXCEPT !.pc = pc]
    BY <1>1, <1>6 DEF Undoing
  <2> QED BY <2>1, <2>2, <2>3
<1> QED BY <1>2, <1>3, <1>4, <1>5, <1>6

LEMMA DrawnVersionsStep ==
    ASSUME IInv, [Next]_vars
    PROVE  DrawnVersions'
<1>a. DrawnVersions /\ VersionsHaveDocuments /\ TypeOK
  BY DEF IInv
<1>b. Versions \subseteq Nat /\ lastVersion \in Nat /\ lastVersion' \in Nat
      /\ lastVersion' >= lastVersion
  <2>1. TypeOK'
    BY <1>a, StepTyped
  <2> QED BY <1>a, <2>1, VersionsAssumption, Monotone DEF TypeOK, CatalogTypeOK
<1>c. \A x \in Uploaders : Storing(x) => uploader[x].version \in Versions
  BY <1>a, UploadTyped DEF TypeOK, UploadTypeOK, Storing
<1> DEFINE Own(x) == /\ uploader'[x].version <= lastVersion'
                     /\ version'[uploader'[x].version].status = "absent"
           Same(x) == Storing(x) /\ uploader'[x].version = uploader[x].version
           New(x) == /\ uploader'[x].version = lastVersion + 1
                     /\ lastVersion' = lastVersion + 1
                     /\ lastVersion + 1 \in Versions /\ UNCHANGED version
<1>1. ASSUME NEW u \in Uploaders, UploaderSteps(u), Storing(u)'
      PROVE  New(u) \/ (Same(u) /\ UNCHANGED version)
  <2>1. uploader'[u].pc # "lock"
    BY <1>1 DEF Storing, Undoing
  <2>2. PutFile(u) \/ uploader[u].pc \in {"put", "insert"} => Storing(u)
    BY DEF PutFile, Storing
  <2> QED BY <1>a, <1>1, <2>1, <2>2, UploaderMove, UploaderMoveEffect
<1>2. ASSUME NEW u \in Uploaders, New(u)
      PROVE  Own(u)
  <2>1. ~(lastVersion + 1 <= lastVersion)
    BY <1>b
  <2>2. ~Exists(lastVersion + 1)
    BY <1>a, <1>2, <2>1 DEF VersionsHaveDocuments
  <2>3. uploader'[u].version <= lastVersion'
    BY <1>b, <1>2
  <2> QED BY <1>2, <2>2, <2>3 DEF Exists
<1>3. ASSUME NEW u \in Uploaders, Same(u), Storing(u)'
      PROVE  Own(u)
  <2>1. /\ uploader[u].version \in Versions /\ uploader[u].version <= lastVersion
        /\ ~Exists(uploader[u].version)
    BY <1>a, <1>c, <1>3 DEF DrawnVersions
  <2>2. ASSUME NEW x \in Uploaders, UploaderSteps(x), InsertVersion(x),
               uploader[u].version = uploader[x].version
        PROVE  FALSE
    <3>1. Storing(x)
      BY <2>2, InsertEffect
    <3>2. x = u
      BY <1>a, <1>3, <2>2, <3>1 DEF DrawnVersions
    <3>3. uploader'[x].pc = "wake"
      BY <1>a, <2>2 DEF InsertVersion, TypeOK, UploadTypeOK, IdleUpload
    <3> QED BY <1>3, <3>2, <3>3 DEF Storing, Undoing
  <2>3. version'[uploader[u].version].status = "absent"
    <3> SUFFICES ASSUME NEW v \in Versions, v = uploader[u].version
                 PROVE  version'[v].status = "absent"
      BY <2>1
    <3>1. \/ ~Exists(v)'
          \/ \E x \in Uploaders : UploaderSteps(x) /\ InsertVersion(x) /\ v = uploader[x].version
      BY <2>1, Insertion
    <3> QED BY <2>2, <3>1 DEF Exists
  <2>4. uploader[u].version <= lastVersion'
    <3>1. \A a, b, c \in Nat : a <= b /\ c >= b => a <= c
      OBVIOUS
    <3> QED BY <1>b, <2>1, <3>1
  <2> QED BY <1>3, <2>3, <2>4
<1>4. \A u \in Uploaders : Storing(u)' => Same(u) \/ New(u)
  <2> SUFFICES ASSUME NEW u \in Uploaders, Storing(u)' PROVE Same(u) \/ New(u)
    OBVIOUS
  <2>1. CASE UploaderSteps(u)
    BY <1>1, <2>1
  <2>2. CASE uploader'[u] = uploader[u]
    BY <2>2 DEF Storing
  <2>3. UploaderSteps(u) \/ uploader'[u] = uploader[u]
    BY <1>a, NextCases, WorkerFrame, CleanerFrame, DeleterFrame, UploaderFrame DEF vars
  <2> QED BY <2>1, <2>2, <2>3
<1>5. ASSUME NEW u \in Uploaders, NEW x \in Uploaders, Storing(u)', Storing(x)',
             uploader'[u].version = uploader'[x].version
      PROVE  u = x
  <2>1. CASE Same(u) /\ Same(x)
    BY <1>a, <1>5, <2>1 DEF DrawnVersions
  <2>2. ASSUME NEW y \in Uploaders, Same(y)
        PROVE  uploader'[y].version # lastVersion + 1
    BY <1>a, <1>b, <1>c, <2>2 DEF DrawnVersions
  <2>3. CASE New(u) /\ New(x)
    <3>1. ASSUME NEW y \in Uploaders, New(y), Storing(y)'
          PROVE  UploaderSteps(y)
      <4>1. UploaderSteps(y) \/ uploader'[y] = uploader[y]
        BY <1>a, NextCases, WorkerFrame, CleanerFrame, DeleterFrame, UploaderFrame DEF vars
      <4>2. CASE uploader'[y] = uploader[y]
        BY <2>2, <3>1, <4>2 DEF Storing
      <4> QED BY <4>1, <4>2
    <3>2. UploaderSteps(u) /\ UploaderSteps(x)
      BY <1>5, <2>3, <3>1
    <3>3. u # x => uploader'[u] = uploader[u]
      BY <1>a, <3>2, UploaderFrame
    <3> QED BY <1>5, <2>2, <2>3, <3>3 DEF Storing
  <2> QED BY <1>4, <1>5, <2>1, <2>2, <2>3
<1> QED
  <2>1. \A u \in Uploaders : Storing(u)' => Own(u)
    BY <1>2, <1>3, <1>4
  <2> QED BY <1>5, <2>1 DEF DrawnVersions, Exists

\* A document begins to exist by the upload that drew it only, and with no
\* active version.
LEMMA DocumentSteps ==
    ASSUME IInv, [Next]_vars, NEW d \in Documents
    PROVE  /\ document[d].state = "absent" =>
                \/ document'[d].state = "absent"
                \/ \E u \in Uploaders : /\ UploaderSteps(u) /\ Storing(u)
                                        /\ uploader[u].isNew /\ uploader[u].document = d
                                        /\ uploader'[u].pc = "wake"
           /\ document'[d].active # document[d].active =>
                \/ document'[d] = [state |-> "deleted", active |-> None]
                \/ \E w \in Workers :
                      /\ WorkerMoves(w) /\ Publish(w) /\ d = version[worker[w].version].document
                      /\ document'[d].state = document[d].state
                      /\ document'[d].active = worker[w].version
<1>a. TypeOK /\ RowsTypeOK /\ DeletionTypeOK
  BY DEF IInv, TypeOK, CatalogTypeOK
<1>1. CASE \E w \in Workers : WorkerMoves(w)
  BY <1>1, <1>a, PublishDocument
<1>2. CASE \E k \in Cleaners : CleanerMoves(k)
  BY <1>2, <1>a, CleanerFrame
<1>3. CASE \E r \in Deleters : DeleterSteps(r)
  <2> PICK r \in Deleters : DeleterSteps(r)
    BY <1>3
  <2>1. CASE UNCHANGED document
    BY <2>1
  <2>2. CASE Tombstone(r) /\ document' = [document EXCEPT ![deleter[r].document] =
                                [state |-> "deleted", active |-> None]]
    <3>1. deleter[r].document = d => document[d].state # "absent"
      BY <2>2, <1>a DEF IInv, CleanupsOfDeleted, Tombstone
    <3> QED BY <2>2, <1>a, <3>1 DEF RowsTypeOK
  <2> QED BY <1>a, <2>1, <2>2, DeleterRows
<1>4. CASE \E u \in Uploaders : UploaderSteps(u)
  <2> PICK u \in Uploaders : UploaderSteps(u)
    BY <1>4
  <2>1. \/ document'[d] = document[d]
        \/ /\ Storing(u) /\ uploader[u].isNew
           /\ d = uploader[u].document /\ uploader'[u].pc = "wake"
           /\ document'[d].state = "live"
           /\ document'[d].active = document[d].active
    BY <1>a, UploaderRows
  <2> QED BY <2>1
<1>5. CASE UNCHANGED vars
  BY <1>5 DEF vars, catalogVars, rows
<1> QED BY <1>1, <1>2, <1>3, <1>4, <1>5, NextCases

\* Only an upload that has drawn a version has a new document.
LEMMA NewStores ==
    ASSUME NEW r \in UploadRecord, r.isNew
    PROVE  r.pc \in {"put", "insert"} \cup Undoing
<1>1. CASE r = IdleUpload
  BY <1>1 DEF IdleUpload
<1>2. CASE r \in [pc : {"lock"}, document : Documents, isNew : {FALSE}, version : {None},
                  hash : Hashes]
  BY <1>2
<1>3. CASE r \in [pc : {"put", "insert"} \cup Undoing, document : Documents,
                  isNew : BOOLEAN, version : Versions, hash : Hashes]
  BY <1>3
<1>4. CASE r \in [pc : {"wake"}, document : {None}, isNew : {FALSE}, version : Versions,
                  hash : {None}]
  BY <1>4
<1> QED BY <1>1, <1>2, <1>3, <1>4 DEF UploadRecord

LEMMA DrawnDocumentsStep ==
    ASSUME IInv, [Next]_vars
    PROVE  DrawnDocuments'
<1>a. DrawnDocuments /\ VersionsHaveDocuments /\ DeliveredExists /\ TypeOK /\ TypeOK'
  BY StepTyped DEF IInv
<1>b. \A x \in Uploaders : /\ uploader[x].pc = "lock" \/ Storing(x) =>
                                uploader[x].document \in Documents
                           /\ uploader[x].isNew => Storing(x)
  BY <1>a, UploadTyped, NewStores DEF TypeOK, UploadTypeOK, Storing
<1>c. \A x \in Uploaders : uploader'[x].isNew => Storing(x)'
  BY <1>a, NewStores DEF TypeOK, UploadTypeOK, Storing
<1>d. \A x \in Uploaders : UploaderSteps(x) \/ uploader'[x] = uploader[x]
  BY <1>a, NextCases, WorkerFrame, CleanerFrame, DeleterFrame, UploaderFrame DEF vars
<1>1. ASSUME NEW d \in Documents, document'[d].state = "absent"
      PROVE  document'[d].active = None
  <2>1. document[d].state = "absent" /\ document[d].active = None
    BY <1>a, <1>1, Monotone DEF DrawnDocuments
  <2>2. ASSUME NEW w \in Workers, Publish(w)
        PROVE  d # version[worker[w].version].document
    <3>1. worker[w].pc # "idle" /\ worker[w].version \in Versions
      BY <1>a, <2>2, ClaimedTyped DEF Publish, At, TypeOK
    <3> QED BY <1>a, <2>1, <3>1 DEF DeliveredExists, VersionsHaveDocuments
  <2> QED BY <1>1, <2>1, <2>2, DocumentSteps
<1>2. ASSUME NEW u \in Uploaders, uploader'[u].pc = "lock" \/ Storing(u)'
      PROVE  uploader'[u].isNew <=> document'[uploader'[u].document].state = "absent"
  <2>1. CASE UploaderSteps(u)
    <3>1. UNCHANGED document
      BY <1>2, <1>a, <2>1, UploaderMove
    <3>2. CASE \E h \in Hashes, d \in Documents : UploadDocument(u, h, d)
      <4>1. PICK h \in Hashes, d \in Documents : UploadDocument(u, h, d)
        BY <3>2
      <4>2. uploader'[u].isNew /\ uploader'[u].document = d
        BY <1>a, <4>1, UploaderMoveEffect
      <4>3. document[d].state = "absent"
        BY <4>1 DEF UploadDocument, Drawable
      <4> QED BY <3>1, <4>2, <4>3
    <3>3. CASE \E h \in Hashes, d \in Documents : UploadVersion(u, h, d)
      BY <1>a, <3>1, <3>3, UploaderMoveEffect DEF UploadVersion
    <3>4. CASE NumberVersion(u)
      <4>1. uploader[u].isNew <=> document[uploader[u].document].state = "absent"
        BY <1>a, <3>4 DEF NumberVersion, DrawnDocuments
      <4>2. /\ uploader'[u].isNew = uploader[u].isNew
            /\ uploader'[u].document = uploader[u].document
        BY <1>a, <3>4, UploaderMoveEffect
      <4> QED BY <3>1, <4>1, <4>2
    <3>5. CASE PutFile(u)
      BY <1>a, <3>1, <3>5, UploaderMoveEffect DEF PutFile, DrawnDocuments, Storing
    <3>6. CASE BeginsUndoing(u)
      BY <1>a, <3>1, <3>6, UploaderMoveEffect DEF DrawnDocuments, Storing
    <3> QED BY <1>2, <1>a, <2>1, <3>2, <3>3, <3>4, <3>5, <3>6, UploaderMove
  <2>2. CASE uploader'[u] = uploader[u]
    <3>0. uploader[u].pc = "lock" \/ Storing(u)
      BY <1>2, <2>2 DEF Storing
    <3>1. uploader[u].document \in Documents
      BY <3>0, <1>b
    <3>2. uploader[u].isNew <=> document[uploader[u].document].state = "absent"
      BY <3>0, <1>a DEF DrawnDocuments
    <3>3. ASSUME NEW x \in Uploaders, UploaderSteps(x), Storing(x),
                 uploader[x].isNew, uploader[x].document = uploader[u].document,
                 uploader'[x].pc = "wake", uploader[u].isNew
          PROVE  FALSE
      BY <1>2, <1>a, <2>2, <3>3 DEF DrawnDocuments, Storing, Undoing
    <3>4. document[uploader[u].document].state = "absent"
             <=> document'[uploader[u].document].state = "absent"
      BY <3>1, <3>2, <3>3, Monotone, DocumentSteps
    <3> QED BY <2>2, <3>2, <3>4
  <2> QED BY <1>d, <2>1, <2>2
<1>3. ASSUME NEW u \in Uploaders, uploader'[u].isNew
      PROVE  \/ uploader[u].isNew /\ uploader'[u].document = uploader[u].document
             \/ \E h \in Hashes, d \in Documents : UploaderSteps(u) /\ UploadDocument(u, h, d)
  <2>1. CASE uploader'[u] = uploader[u]
    BY <1>3, <2>1
  <2>2. CASE UploaderSteps(u)
    BY <1>3, <1>a, <1>c, <2>2, UploaderMove, UploaderMoveEffect
  <2> QED BY <1>d, <2>1, <2>2
<1>4. ASSUME NEW u \in Uploaders, NEW x \in Uploaders, uploader'[u].isNew, uploader'[x].isNew,
             uploader'[u].document = uploader'[x].document
      PROVE  u = x
  <2>1. ASSUME NEW y \in Uploaders, NEW z \in Uploaders, y # z, UploaderSteps(y),
               NEW h \in Hashes, NEW d \in Documents, UploadDocument(y, h, d)
        PROVE  uploader'[z].document # uploader'[y].document
    <3>1. uploader'[z] = uploader[z] /\ uploader[z].document # d
      BY <1>a, <2>1, UploaderFrame DEF UploadDocument, Drawable
    <3> QED BY <1>a, <2>1, <3>1, UploaderMoveEffect
  <2> QED BY <1>3, <1>4, <1>a, <2>1 DEF DrawnDocuments
<1> QED BY <1>1, <1>2, <1>4 DEF DrawnDocuments

\* What the record of a cleanup holds after its steps.
LEMMA CleanerMove ==
    ASSUME TypeOK, NEW k \in Cleaners, CleanerMoves(k), cleaner'[k].pc # "idle"
    PROVE  \/ /\ cleaner'[k].document \in Documents
              /\ cleanupQueue[cleaner'[k].document] > 0
              /\ cleaner'[k].todo \cup cleaner'[k].marked \subseteq VersionsOf(cleaner'[k].document)
           \/ /\ cleaner[k].pc # "idle" /\ cleaner'[k].document = cleaner[k].document
              /\ cleaner'[k].todo \cup cleaner'[k].marked
                    \subseteq cleaner[k].todo \cup cleaner[k].marked
<1>a. cleaner \in [Cleaners -> DeletionRecord({"points", "file", "check", "mark"})]
  BY DEF TypeOK, DeletionTypeOK
<1>b. cleaner[k].pc # "idle" =>
         cleaner[k] \in [pc : {"points", "file", "check", "mark"}, document : Documents,
                         todo : SUBSET Versions, chosen : SUBSET Versions,
                         marked : SUBSET Versions]
  BY <1>a, DeletionTyped
<1>1. \/ \E d \in Documents : Purge(k, d)
      \/ \E v \in Versions : \/ DropPoints(k, v) \/ DropFile(k, v)
                             \/ CheckStatus(k, v) \/ MarkDeleted(k, v)
      \/ cleaner'[k] = IdleDeletion
  BY <1>a DEF CleanerMoves, Clean, CleanFault, CleanerStep, CleanerFault, PurgeConflict,
              PurgeRefused, PurgeExhausted, FinishPurge, PurgeRetry, PurgeLost
<1>2. CASE \E d \in Documents : Purge(k, d)
  BY <1>2, <1>a DEF Purge, WithStatus
<1>3. ASSUME NEW v \in Versions, DropPoints(k, v)
      PROVE  /\ cleaner[k].pc # "idle" /\ cleaner'[k].document = cleaner[k].document
             /\ cleaner'[k].todo \cup cleaner'[k].marked
                   \subseteq cleaner[k].todo \cup cleaner[k].marked
  <2>1. cleaner[k].pc # "idle" /\ cleaner'[k] = [cleaner[k] EXCEPT !.pc = "file"]
    BY <1>3, <1>a DEF DropPoints
  <2> QED BY <2>1, <1>b
<1>4. ASSUME NEW v \in Versions, DropFile(k, v) \/ CheckStatus(k, v)
      PROVE  /\ cleaner[k].pc # "idle" /\ cleaner'[k].document = cleaner[k].document
             /\ cleaner'[k].todo \cup cleaner'[k].marked
                   \subseteq cleaner[k].todo \cup cleaner[k].marked
  <2>1. /\ cleaner[k].pc # "idle"
        /\ \E pc \in {"check", "mark"} :
              \/ cleaner'[k] = [cleaner[k] EXCEPT !.pc = pc]
              \/ cleaner'[k] = [cleaner[k] EXCEPT !.pc = "points", !.todo = @ \ {v}]
    BY <1>4, <1>a DEF DropFile, CheckStatus
  <2> QED BY <2>1, <1>b
<1>5. ASSUME NEW v \in Versions, MarkDeleted(k, v)
      PROVE  /\ cleaner[k].pc # "idle" /\ cleaner'[k].document = cleaner[k].document
             /\ cleaner'[k].todo \cup cleaner'[k].marked
                   \subseteq cleaner[k].todo \cup cleaner[k].marked
  <2>1. /\ cleaner[k].pc # "idle" /\ v \in cleaner[k].todo
        /\ cleaner'[k] = [cleaner[k] EXCEPT !.pc = "points", !.todo = @ \ {v},
                                            !.marked = @ \cup {v}]
    BY <1>5, <1>a DEF MarkDeleted, IsFirst
  <2> QED BY <2>1, <1>b
<1> QED BY <1>1, <1>2, <1>3, <1>4, <1>5 DEF IdleDeletion

\* What the record of a delete request holds after its steps.
LEMMA DeleterMove ==
    ASSUME TypeOK, NEW r \in Deleters, DeleterSteps(r)
    PROVE  \/ deleter'[r].pc = "idle"
           \/ deleter'[r] = deleter[r]
           \/ /\ deleter'[r].pc = "wake"
              /\ deleter'[r].document \in Documents /\ Deleted(deleter'[r].document)
           \/ /\ deleter'[r].pc = "wake" /\ Tombstone(r)
              /\ deleter'[r].document = deleter[r].document
           \/ /\ deleter'[r].pc = "mark"
              /\ deleter'[r].document \in Documents
              /\ document[deleter'[r].document].state = "live"
              /\ deleter'[r].todo \cup deleter'[r].marked \subseteq VersionsOf(deleter'[r].document)
           \/ /\ deleter'[r].pc = "mark" /\ deleter[r].pc = "mark"
              /\ deleter'[r].document = deleter[r].document
              /\ deleter'[r].todo \cup deleter'[r].marked
                    \subseteq deleter[r].todo \cup deleter[r].marked
<1>a. deleter \in [Deleters -> DeletionRecord({"mark", "wake"})]
  BY DEF TypeOK, DeletionTypeOK
<1>b. deleter[r].pc # "idle" =>
         deleter[r] \in [pc : {"mark", "wake"}, document : Documents, todo : SUBSET Versions,
                         chosen : SUBSET Versions, marked : SUBSET Versions]
  BY <1>a, DeletionTyped
<1>1. \/ \E d \in Documents : DeleteAgain(r, d) \/ Delete(r, d)
      \/ \E v \in Versions : MarkDeleting(r, v)
      \/ Tombstone(r)
      \/ deleter'[r] = IdleDeletion
      \/ deleter'[r] = deleter[r]
  BY <1>a DEF DeleterSteps, DeleterMoves, RequestDelete, HandleDelete, FailDelete, DeleteRequest,
     DeleterStep, AbortDelete, DeleteConflict, EnqueueCleanup, DeleteFault
<1>2. ASSUME NEW d \in Documents, DeleteAgain(r, d)
      PROVE  deleter'[r].pc = "wake" /\ deleter'[r].document = d /\ Deleted(d)
  BY <1>2, <1>a DEF DeleteAgain, AskCleanup, IdleDeletion, Deleted
<1>3. ASSUME NEW d \in Documents, Delete(r, d)
      PROVE  /\ deleter'[r].pc = "mark" /\ deleter'[r].document = d
             /\ document[d].state = "live"
             /\ deleter'[r].todo \cup deleter'[r].marked \subseteq VersionsOf(d)
  BY <1>3, <1>a DEF Delete, WithStatus
<1>4. ASSUME NEW v \in Versions, MarkDeleting(r, v)
      PROVE  /\ deleter'[r].pc = "mark" /\ deleter[r].pc = "mark"
             /\ deleter'[r].document = deleter[r].document
             /\ deleter'[r].todo \cup deleter'[r].marked
                   \subseteq deleter[r].todo \cup deleter[r].marked
  <2>1. /\ deleter[r].pc = "mark" /\ v \in deleter[r].todo
        /\ \E s \in {deleter[r].marked, deleter[r].marked \cup {v}} :
              deleter'[r] = [deleter[r] EXCEPT !.todo = @ \ {v}, !.marked = s]
    BY <1>4, <1>a DEF MarkDeleting, IsFirst
  <2> QED BY <2>1, <1>b
<1>5. Tombstone(r) => deleter'[r].pc = "wake" /\ deleter'[r].document = deleter[r].document
  BY <1>a DEF Tombstone, AskCleanup, IdleDeletion
<1> QED BY <1>1, <1>2, <1>3, <1>4, <1>5 DEF IdleDeletion

\* Versions keep their documents and deleted documents stay deleted, so what a
\* request or a cleanup has read of them stays true.
LEMMA CleanupsOfDeletedStep ==
    ASSUME IInv, [Next]_vars
    PROVE  CleanupsOfDeleted'
<1>a. CleanupsOfDeleted /\ VersionsHaveDocuments /\ TypeOK /\ DeletionTypeOK /\ RowsTypeOK
  BY DEF IInv, TypeOK, CatalogTypeOK
<1>b. /\ \A k \in Cleaners : cleaner[k].pc # "idle" =>
            cleaner[k].document \in Documents /\ cleaner[k].todo \cup cleaner[k].marked \subseteq Versions
      /\ \A r \in Deleters : deleter[r].pc # "idle" =>
            deleter[r].document \in Documents /\ deleter[r].todo \cup deleter[r].marked \subseteq Versions
  BY <1>a, DeletionTyped DEF DeletionTypeOK
<1>c. \A v \in Versions, d \in Documents : version[v].document = d => version'[v].document = d
  BY <1>a, Monotone, ProcessesDistinct DEF VersionsHaveDocuments
<1>d. \A d \in Documents : /\ Deleted(d) => document'[d].state = "deleted"
                           /\ document[d].state # "absent" => document'[d].state # "absent"
  BY Monotone DEF Deleted
<1>e. /\ \A k \in Cleaners : CleanerMoves(k) \/ cleaner'[k] = cleaner[k]
      /\ \A r \in Deleters : DeleterSteps(r) \/ deleter'[r] = deleter[r]
  BY <1>a, NextCases, WorkerFrame, CleanerFrame, DeleterFrame, UploaderFrame DEF vars
<1>1. ASSUME NEW d \in Documents, cleanupQueue'[d] > 0
      PROVE  document'[d].state = "deleted"
  <2>1. \/ cleanupQueue[d] > 0
        \/ \E k \in Cleaners : cleaner[k].pc # "idle" /\ d = cleaner[k].document
        \/ \E r \in Deleters : deleter[r].pc = "wake" /\ d = deleter[r].document
    BY <1>1, <1>a, NextCases, WorkerFrame, CleanerFrame, DeleterFrame, UploaderFrame
       DEF vars, catalogVars, queues
  <2>2. Deleted(d)
    BY <1>a, <2>1 DEF CleanupsOfDeleted
  <2> QED BY <1>d, <2>2
<1>2. ASSUME NEW k \in Cleaners, cleaner'[k].pc # "idle"
      PROVE  /\ document'[cleaner'[k].document].state = "deleted"
             /\ \A v \in cleaner'[k].todo \cup cleaner'[k].marked :
                   version'[v].document = cleaner'[k].document
  <2>1. CASE /\ cleaner'[k].document \in Documents
             /\ cleanupQueue[cleaner'[k].document] > 0
             /\ cleaner'[k].todo \cup cleaner'[k].marked \subseteq VersionsOf(cleaner'[k].document)
    BY <1>a, <1>c, <1>d, <2>1 DEF CleanupsOfDeleted, VersionsOf
  <2>2. CASE /\ cleaner[k].pc # "idle" /\ cleaner'[k].document = cleaner[k].document
             /\ cleaner'[k].todo \cup cleaner'[k].marked
                   \subseteq cleaner[k].todo \cup cleaner[k].marked
    <3>1. /\ Deleted(cleaner[k].document) /\ cleaner[k].document \in Documents
          /\ \A v \in cleaner[k].todo \cup cleaner[k].marked :
                v \in Versions /\ version[v].document = cleaner[k].document
      BY <1>a, <1>b, <2>2 DEF CleanupsOfDeleted
    <3> QED BY <1>c, <1>d, <2>2, <3>1
  <2> QED BY <1>2, <1>a, <1>e, <2>1, <2>2, CleanerMove
<1>3. ASSUME NEW r \in Deleters
      PROVE  /\ deleter'[r].pc = "wake" => document'[deleter'[r].document].state = "deleted"
             /\ deleter'[r].pc = "mark" =>
                  /\ document'[deleter'[r].document].state # "absent"
                  /\ \A v \in deleter'[r].todo \cup deleter'[r].marked :
                        version'[v].document = deleter'[r].document
  <2>1. CASE deleter'[r].pc = "wake" /\ deleter'[r].document \in Documents
             /\ Deleted(deleter'[r].document)
    BY <1>d, <2>1
  <2>2. CASE deleter'[r].pc = "wake" /\ Tombstone(r) /\ deleter'[r].document = deleter[r].document
    <3>1. deleter[r].document \in Documents
      BY <1>b, <2>2 DEF Tombstone
    <3> QED BY <1>a, <2>2, <3>1 DEF Tombstone, RowsTypeOK
  <2>3. CASE /\ deleter'[r].pc = "mark"
             /\ deleter'[r].document \in Documents
             /\ document[deleter'[r].document].state = "live"
             /\ deleter'[r].todo \cup deleter'[r].marked \subseteq VersionsOf(deleter'[r].document)
    BY <1>c, <1>d, <2>3 DEF VersionsOf
  <2>4. CASE /\ deleter'[r].pc = deleter[r].pc
             /\ deleter'[r].document = deleter[r].document
             /\ deleter'[r].todo \cup deleter'[r].marked
                   \subseteq deleter[r].todo \cup deleter[r].marked
    <3>1. CASE deleter[r].pc = "wake"
      BY <1>a, <1>b, <1>d, <2>4, <3>1 DEF CleanupsOfDeleted
    <3>2. CASE deleter[r].pc = "mark"
      <4>1. /\ document[deleter[r].document].state # "absent" /\ deleter[r].document \in Documents
            /\ \A v \in deleter[r].todo \cup deleter[r].marked :
                  v \in Versions /\ version[v].document = deleter[r].document
        BY <1>a, <1>b, <3>2 DEF CleanupsOfDeleted
      <4> QED BY <1>c, <1>d, <2>4, <3>2, <4>1
    <3> QED BY <2>4, <3>1, <3>2
  <2> QED BY <1>a, <1>e, <2>1, <2>2, <2>3, <2>4, DeleterMove
<1> QED BY <1>1, <1>2, <1>3 DEF CleanupsOfDeleted, Deleted

\* A worker writes the job's row and the points of its version only past the claim.
LEMMA WorkerWrites ==
    ASSUME TypeOK, NEW w \in Workers, WorkerMoves(w), NEW v \in Versions
    PROVE  /\ job'[v] # job[v] => worker[w].pc \in Claimed /\ v = worker[w].version
           /\ job'[v].status = "SUCCEEDED" => job[v].status = "SUCCEEDED" \/ Publish(w)
           /\ points'[v] # points[v] =>
                worker[w].pc \in {"dense", "sparse"} /\ v = worker[w].version
<1>a. RowsTypeOK /\ StoresTypeOK /\ job[v] \in JobRow
  BY DEF TypeOK, CatalogTypeOK, RowsTypeOK
<1>1. ASSUME NEW u, NEW s, SaveJob(u, s)
      PROVE  job'[v] = job[v] \/ (v = u /\ job'[v].status = s)
  BY <1>1, <1>a DEF SaveJob, RowsTypeOK, JobRow
<1>2. CASE FailJob(w) \/ LostRace(w) \/ Retry(w) \/ Fail(w) \/ Publish(w)
  <2>1. /\ worker[w].pc \in Claimed /\ UNCHANGED points
        /\ \/ Publish(w)
           \/ \E s \in {"PENDING", "FAILED"} : SaveJob(worker[w].version, s)
    BY <1>2 DEF FailJob, LostRace, Retry, Fail, Publish, At, CanFail, Claimed, Indexing,
                   Failing, stores
  <2>2. Publish(w) => SaveJob(worker[w].version, "SUCCEEDED")
    BY DEF Publish
  <2> QED BY <1>1, <2>1, <2>2
<1>3. CASE ~(FailJob(w) \/ LostRace(w) \/ Retry(w) \/ Fail(w) \/ Publish(w))
  <2>1. UNCHANGED job
    BY <1>3 DEF WorkerMoves, Work, WorkFault, WorkerStep, WorkerFault, Receive, SkipDelivery,
       Claim, NotClaimable, BeginFail, StartProcessing, Resume, Parse, EnsureCollection, IndexDense, IndexSparse,
       Verify, MakeReady, Overtaken, Acknowledge, Crash, Abandon, AbortWork, rows, catalogVars
  <2>2. IndexDense(w) \/ IndexSparse(w) \/ UNCHANGED points
    BY <1>3 DEF WorkerMoves, Work, WorkFault, WorkerStep, WorkerFault, Receive, SkipDelivery,
       Claim, NotClaimable, BeginFail, StartProcessing, Resume, Parse, EnsureCollection,
       Verify, MakeReady, Overtaken, Acknowledge, Crash, Abandon, AbortWork, stores, catalogVars
  <2>3. IndexDense(w) \/ IndexSparse(w) =>
           /\ worker[w].pc \in {"dense", "sparse"}
           /\ points'[v] # points[v] => v = worker[w].version
    BY <1>a DEF IndexDense, IndexSparse, UpsertDense, UpsertSparse, At, StoresTypeOK
  <2> QED BY <2>1, <2>2, <2>3
<1> QED BY <1>2, <1>3

\* What the commit of a published version writes.
LEMMA PublishEffect ==
    ASSUME IInv, NEW w \in Workers, Publish(w)
    PROVE  /\ worker[w].version \in Versions /\ Exists(worker[w].version)
           /\ job[worker[w].version].status = "PENDING"
           /\ version'[worker[w].version].status = "READY"
           /\ job'[worker[w].version].status = "SUCCEEDED"
           /\ worker[w].version \in chunked' /\ UNCHANGED points
<1>1. worker[w].pc = "publish" /\ worker[w].version \in Versions
  BY ClaimedTyped DEF IInv, TypeOK, Publish, At
<1>2. RowsTypeOK /\ DeliveredExists /\ ClaimHeld
  BY DEF IInv, TypeOK, CatalogTypeOK
<1>3. Exists(worker[w].version) /\ job[worker[w].version].status = "PENDING"
  BY <1>1, <1>2 DEF DeliveredExists, ClaimHeld, Claimed
<1>4. version'[worker[w].version].status = "READY"
  BY <1>1, <1>2, SaveVersionEffect DEF Publish
<1>5. job'[worker[w].version].status = "SUCCEEDED"
  BY <1>1, <1>2 DEF Publish, SaveJob, RowsTypeOK, JobRow
<1> QED BY <1>1, <1>3, <1>4, <1>5 DEF Publish, stores

\* Only the commit of a published version makes it READY or its job SUCCEEDED.
LEMMA PublishedIsSucceededStep ==
    ASSUME IInv, [Next]_vars
    PROVE  PublishedIsSucceeded'
<1>a. TypeOK /\ PublishedIsSucceeded /\ ClaimHeld
  BY DEF IInv
<1> SUFFICES ASSUME NEW v \in Versions
             PROVE  /\ version'[v].status = "READY" => job'[v].status = "SUCCEEDED"
                    /\ job'[v].status = "SUCCEEDED" =>
                         version'[v].status \in {"READY", "DELETING", "DELETED"}
  BY DEF PublishedIsSucceeded
<1>b. /\ version[v].status = "READY" => job[v].status = "SUCCEEDED"
      /\ job[v].status = "SUCCEEDED" => version[v].status \in {"READY", "DELETING", "DELETED"}
  BY <1>a DEF PublishedIsSucceeded
<1>1. CASE \E w \in Workers : WorkerMoves(w)
  <2> PICK w \in Workers : WorkerMoves(w)
    BY <1>1
  <2>1. CASE worker[w].pc \in Claimed /\ v = worker[w].version
    <3>1. job[v].status = "PENDING"
      BY <1>a, <2>1 DEF ClaimHeld
    <3> QED BY <1>a, <1>b, <2>1, <3>1, WorkerRows, WorkerWrites, PublishEffect
  <2>2. CASE ~(worker[w].pc \in Claimed /\ v = worker[w].version)
    BY <1>a, <1>b, <2>2, WorkerRows, WorkerWrites
  <2> QED BY <2>1, <2>2
<1>2. CASE \E k \in Cleaners : CleanerMoves(k)
  BY <1>2, <1>a, <1>b, CleanerFrame, CleanerRows
<1>3. CASE \E r \in Deleters : DeleterSteps(r)
  BY <1>3, <1>a, <1>b, DeleterFrame, DeleterRows
<1>4. CASE \E u \in Uploaders : UploaderSteps(u)
  <2> PICK u \in Uploaders : UploaderSteps(u)
    BY <1>4
  <2>1. \/ version'[v] = version[v] /\ job'[v] = job[v]
        \/ InsertVersion(u) /\ v = uploader[u].version
        \/ version'[v].status = "QUEUED" /\ job'[v].status = "PENDING"
    BY <1>a, UploaderRows
  <2> QED BY <1>b, <2>1, InsertEffect
<1>5. CASE UNCHANGED vars
  BY <1>5, <1>b DEF vars, catalogVars, rows
<1> QED BY <1>1, <1>2, <1>3, <1>4, <1>5, NextCases

\* An active version is one of its document's, since it is published on the
\* document it was inserted for.
LEMMA ActiveIsOwnStep ==
    ASSUME IInv, [Next]_vars
    PROVE  ActiveIsOwn'
<1>a. ActiveIsOwn /\ VersionsHaveDocuments /\ TypeOK /\ RowsTypeOK
  BY DEF IInv, TypeOK, CatalogTypeOK
<1> SUFFICES ASSUME NEW d \in Documents, document'[d].active # None
             PROVE  version'[document'[d].active].document = d
  BY DEF ActiveIsOwn
<1>1. CASE document'[d].active = document[d].active
  <2>1. document[d].active \in Versions /\ version[document[d].active].document = d
    BY <1>a, <1>1 DEF ActiveIsOwn, RowsTypeOK, DocumentRow
  <2>2. Exists(document[d].active)
    BY <1>a, <2>1, ProcessesDistinct DEF VersionsHaveDocuments
  <2> QED BY <1>1, <2>1, <2>2, Monotone
<1>2. ASSUME NEW w \in Workers, Publish(w), d = version[worker[w].version].document,
             document'[d].active = worker[w].version
      PROVE  version'[document'[d].active].document = d
  BY <1>2, PublishEffect, Monotone
<1> QED BY <1>1, <1>2, DocumentSteps

\* Nothing takes the active version of a live document out of READY: its job is
\* not pending, no cleanup and no tombstone is about its document, and an upload
\* queues FAILED versions only.
LEMMA ActiveIsReadyStep ==
    ASSUME IInv, [Next]_vars
    PROVE  ActiveIsReady'
<1>a. /\ ActiveIsReady /\ PublishedIsSucceeded /\ ClaimHeld /\ CleanupsOfDeleted
      /\ VersionsHaveDocuments /\ DrawnDocuments /\ DrawnVersions /\ TypeOK
      /\ RowsTypeOK /\ DeletionTypeOK
  BY DEF IInv, TypeOK, CatalogTypeOK
<1> SUFFICES ASSUME NEW d \in Documents, document'[d].state = "live", document'[d].active # None
             PROVE  /\ version'[document'[d].active].document = d
                    /\ version'[document'[d].active].status = "READY"
  BY DEF ActiveIsReady
<1>1. version'[document'[d].active].document = d
  BY ActiveIsOwnStep DEF ActiveIsOwn
<1>2. CASE document'[d].active = document[d].active
  <2> DEFINE v == document[d].active
  <2>1. document[d].state = "live"
    BY <1>a, <1>2, Monotone DEF DrawnDocuments, Deleted, RowsTypeOK, DocumentRow
  <2>2. v \in Versions /\ version[v].document = d /\ version[v].status = "READY"
    BY <1>a, <1>2, <2>1 DEF ActiveIsReady, RowsTypeOK, DocumentRow
  <2>3. job[v].status = "SUCCEEDED"
    BY <1>a, <2>2 DEF PublishedIsSucceeded
  <2>4. version'[v].status = "READY"
    <3>1. CASE \E w \in Workers : WorkerMoves(w)
      BY <1>a, <2>2, <2>3, <3>1, WorkerRows DEF ClaimHeld
    <3>2. CASE \E k \in Cleaners : CleanerMoves(k)
      <4> PICK k \in Cleaners : CleanerMoves(k)
        BY <3>2
      <4>1. FinishPurge(k) => v \notin cleaner[k].marked
        BY <1>a, <2>1, <2>2 DEF FinishPurge, CleanupsOfDeleted, Deleted
      <4> QED BY <1>a, <2>2, <4>1, CleanerRows
    <3>3. CASE \E r \in Deleters : DeleterSteps(r)
      <4> PICK r \in Deleters : DeleterSteps(r)
        BY <3>3
      <4>1. Tombstone(r) => deleter[r].document # d
        BY <1>a DEF Tombstone, RowsTypeOK
      <4>2. Tombstone(r) => v \notin deleter[r].marked
        BY <1>a, <2>2, <4>1 DEF Tombstone, CleanupsOfDeleted
      <4> QED BY <1>a, <2>2, <4>2, DeleterRows
    <3>4. CASE \E u \in Uploaders : UploaderSteps(u)
      <4> PICK u \in Uploaders : UploaderSteps(u)
        BY <3>4
      <4>1. InsertVersion(u) => v # uploader[u].version
        BY <1>a, <2>2, InsertEffect DEF DrawnVersions, Exists
      <4> QED BY <1>a, <2>2, <4>1, UploaderRows
    <3>5. CASE UNCHANGED vars
      BY <2>2, <3>5 DEF vars, catalogVars, rows
    <3> QED BY <3>1, <3>2, <3>3, <3>4, <3>5, NextCases
  <2> QED BY <1>1, <1>2, <2>4
<1>3. ASSUME NEW w \in Workers, Publish(w), document'[d].active = worker[w].version
      PROVE  version'[document'[d].active].status = "READY"
  BY <1>3, PublishEffect
<1> QED BY <1>1, <1>2, <1>3, DocumentSteps

\* A file is dropped by a cleanup of its deleted document, or by the upload that
\* stored it and did not insert its version.
LEMMA FileDropped ==
    ASSUME IInv, [Next]_vars, NEW v \in files, v \notin files'
    PROVE  \/ version[v].document \in Documents /\ Deleted(version[v].document)
           \/ \E u \in Uploaders : /\ UploaderSteps(u) /\ Storing(u) /\ v = uploader[u].version
                                   /\ ~Exists(v)
<1>a. /\ TypeOK /\ DeletionTypeOK /\ CleanupsOfDeleted /\ DrawnVersions
  BY DEF IInv, TypeOK
<1>1. CASE \E w \in Workers : WorkerMoves(w)
  BY <1>1, <1>a, WorkerFrame
<1>2. CASE \E k \in Cleaners : CleanerMoves(k)
  <2> PICK k \in Cleaners : CleanerMoves(k)
    BY <1>2
  <2>1. cleaner[k].pc # "idle" /\ v \in cleaner[k].todo
    BY <1>a, CleanerFrame
  <2>2. cleaner[k].document \in Documents
    BY <1>a, <2>1, DeletionTyped DEF DeletionTypeOK
  <2> QED BY <1>a, <2>1, <2>2 DEF CleanupsOfDeleted
<1>3. CASE \E r \in Deleters : DeleterSteps(r)
  BY <1>3, <1>a, DeleterFrame
<1>4. CASE \E u \in Uploaders : UploaderSteps(u)
  BY <1>4, <1>a, UploaderFrame DEF DrawnVersions
<1>5. CASE UNCHANGED vars
  BY <1>5 DEF vars, catalogVars, stores
<1> QED BY <1>1, <1>2, <1>3, <1>4, <1>5, NextCases

LEMMA SourceStaysStep ==
    ASSUME IInv, [Next]_vars
    PROVE  SourceStays'
<1>a. SourceStays /\ DrawnVersions /\ VersionsHaveDocuments /\ TypeOK /\ UploadTypeOK
  BY DEF IInv, TypeOK
<1>1. ASSUME NEW v \in Versions, Exists(v)',
             document'[version'[v].document].state # "deleted"
      PROVE  v \in files'
  <2>1. CASE Exists(v)
    <3>1. version'[v].document = version[v].document /\ version[v].document \in Documents
      BY <1>a, <2>1, Monotone DEF VersionsHaveDocuments
    <3>2. ~Deleted(version[v].document)
      BY <1>1, <3>1, Monotone DEF Deleted
    <3>3. v \in files
      BY <1>a, <2>1, <3>2 DEF SourceStays
    <3> QED BY <2>1, <3>2, <3>3, FileDropped
  <2>2. CASE ~Exists(v)
    <3>1. PICK u \in Uploaders : InsertVersion(u) /\ v = uploader[u].version
      BY <1>1, <2>2, Insertion
    <3>2. v \in files
      BY <1>a, <3>1 DEF SourceStays, InsertVersion
    <3> QED BY <3>1, <3>2 DEF InsertVersion, stores
  <2> QED BY <2>1, <2>2
<1>2. ASSUME NEW u \in Uploaders, uploader'[u].pc = "insert"
      PROVE  uploader'[u].version \in files'
  <2>1. CASE UploaderSteps(u)
    <3>1. Storing(u)' /\ uploader'[u].pc \notin {"put", "lock"} \cup Undoing
      BY <1>2 DEF Storing, Undoing
    <3>2. PutFile(u)
      BY <1>a, <2>1, <3>1, UploaderMove, UploaderMoveEffect
    <3>3. PutFile(u) => uploader'[u].version \in files'
      BY <1>a, UploaderMoveEffect
    <3> QED BY <3>2, <3>3
  <2>2. CASE uploader'[u] = uploader[u] /\ ~UploaderSteps(u)
    <3>1. uploader[u].pc = "insert" /\ Storing(u)
      BY <1>2, <2>2 DEF Storing
    <3>2. uploader[u].version \in files /\ ~Exists(uploader[u].version)
          /\ uploader[u].version \in Versions
      BY <1>a, <3>1, UploadTyped DEF SourceStays, DrawnVersions, UploadTypeOK
    <3>3. version[uploader[u].version].document \notin Documents
      BY <1>a, <3>2, ProcessesDistinct DEF VersionsHaveDocuments
    <3>4. ASSUME NEW x \in Uploaders, UploaderSteps(x), Storing(x),
                 uploader[u].version = uploader[x].version
          PROVE  FALSE
      BY <1>a, <2>2, <3>1, <3>4 DEF DrawnVersions
    <3> QED BY <2>2, <3>2, <3>3, <3>4, FileDropped
  <2>3. UploaderSteps(u) \/ uploader'[u] = uploader[u]
    BY <1>a, NextCases, WorkerFrame, CleanerFrame, DeleterFrame, UploaderFrame DEF IInv, vars
  <2> QED BY <2>1, <2>2, <2>3
<1>3. \A v \in Versions : Exists(v)' /\ document'[version'[v].document].state # "deleted"
         => v \in files'
  BY <1>1 DEF Deleted
<1> QED BY <1>2, <1>3 DEF SourceStays, Exists, Deleted

\* The points of a version change by the worker that has claimed it, or by a
\* cleanup of its deleted document.
LEMMA PointsChange ==
    ASSUME IInv, [Next]_vars, NEW v \in Versions, points'[v] # points[v]
    PROVE  \/ version[v].document \in Documents /\ Deleted(version[v].document)
           \/ \E w \in Workers : /\ WorkerMoves(w) /\ worker[w].pc \in {"dense", "sparse"}
                                 /\ v = worker[w].version
<1>a. TypeOK /\ DeletionTypeOK /\ CleanupsOfDeleted
  BY DEF IInv, TypeOK
<1>1. CASE \E w \in Workers : WorkerMoves(w)
  BY <1>1, <1>a, WorkerWrites
<1>2. CASE \E k \in Cleaners : CleanerMoves(k)
  <2> PICK k \in Cleaners : CleanerMoves(k)
    BY <1>2
  <2>1. cleaner[k].pc # "idle" /\ v \in cleaner[k].todo
    BY <1>a, CleanerFrame
  <2>2. cleaner[k].document \in Documents
    BY <1>a, <2>1, DeletionTyped DEF DeletionTypeOK
  <2> QED BY <1>a, <2>1, <2>2 DEF CleanupsOfDeleted
<1>3. CASE \E r \in Deleters : DeleterSteps(r)
  BY <1>3, <1>a, DeleterFrame
<1>4. CASE \E u \in Uploaders : UploaderSteps(u)
  BY <1>4, <1>a, UploaderFrame
<1>5. CASE UNCHANGED vars
  BY <1>5 DEF vars, catalogVars, stores
<1> QED BY <1>1, <1>2, <1>3, <1>4, <1>5, NextCases

LEMMA IndexStaysStep ==
    ASSUME IInv, [Next]_vars
    PROVE  IndexStays'
<1>a. /\ IndexStays /\ ClaimHeld /\ DeliveredExists /\ PublishedIsSucceeded
      /\ VersionsHaveDocuments /\ TypeOK /\ WorkerTypeOK
  BY DEF IInv, TypeOK
<1>b. \A x \in Workers : worker[x].pc # "idle" => worker[x].version \in Versions
  BY <1>a, ClaimedTyped
<1>c. \A v \in Versions : Exists(v) =>
         /\ version'[v].document = version[v].document
         /\ document'[version'[v].document].state # "deleted" => ~Deleted(version[v].document)
  BY <1>a, Monotone DEF VersionsHaveDocuments, Deleted
<1>d. \A v \in Versions : v \in chunked => v \in chunked'
  BY <1>a, NextCases, WorkerRows, CleanerFrame, DeleterFrame, UploaderFrame
     DEF vars, catalogVars, rows
<1>1. ASSUME NEW v \in Versions, version'[v].status = "READY"
      PROVE  /\ v \in chunked'
             /\ document'[version'[v].document].state # "deleted" => points'[v] = Vectors
  <2>1. CASE version[v].status = "READY"
    <3>1. Exists(v) /\ job[v].status = "SUCCEEDED"
      BY <1>a, <2>1 DEF Exists, PublishedIsSucceeded
    <3>2. \A w \in Workers : worker[w].pc \in {"dense", "sparse"} => worker[w].version # v
      BY <1>a, <3>1 DEF ClaimHeld, Claimed, Indexing, Failing
    <3>3. ~Deleted(version[v].document) => points'[v] = points[v]
      BY <3>2, PointsChange
    <3> QED BY <1>a, <1>c, <1>d, <2>1, <3>1, <3>3 DEF IndexStays, Complete
  <2>2. ASSUME NEW w \in Workers, Publish(w), v = worker[w].version
        PROVE  /\ v \in chunked'
               /\ document'[version'[v].document].state # "deleted" => points'[v] = Vectors
    <3>1. Exists(v) /\ v \in chunked' /\ points'[v] = points[v]
      BY <2>2, PublishEffect
    <3>2. Deleted(version[v].document) \/ Complete(v)
      BY <1>a, <2>2 DEF IndexStays, Publish, At
    <3> QED BY <1>c, <3>1, <3>2 DEF Complete
  <2>3. version[v].status # "READY" => \E w \in Workers : Publish(w) /\ v = worker[w].version
    <3> SUFFICES ASSUME version[v].status # "READY"
                 PROVE  \E w \in Workers : Publish(w) /\ v = worker[w].version
      OBVIOUS
    <3>1. ASSUME NEW u \in Uploaders, UploaderSteps(u)
          PROVE  FALSE
      BY <1>1, <1>a, <3>1, UploaderRows, InsertEffect
    <3>2. ~UNCHANGED version
      BY <1>1
    <3> QED
      BY <1>1, <1>a, <3>1, <3>2, NextCases, WorkerRows, CleanerRows, DeleterRows
         DEF vars, catalogVars, rows
  <2> QED BY <2>1, <2>2, <2>3
<1>2. ASSUME NEW w \in Workers, worker'[w].pc \in {"finalize", "publish"}
      PROVE  \/ document'[version'[worker'[w].version].document].state = "deleted"
             \/ points'[worker'[w].version] = Vectors
  <2> DEFINE v == worker[w].version
  <2>1. /\ worker'[w].version = v /\ worker[w].pc \in Claimed \ {"dense", "sparse"}
        /\ Deleted(version[v].document) \/ Complete(v)
    <3>1. CASE WorkerMoves(w)
      <4>1. Verify(w) \/ MakeReady(w) \/ worker'[w] = worker[w]
        <5>0. EnsureCollection(w) => worker'[w] = worker[w]
          BY DEF EnsureCollection
        <5>1. \A x \in Versions : Receive(w, x) => worker'[w].pc = "claim"
          BY <1>a DEF Receive, WorkerTypeOK
        <5>2. \A x \in Versions : SkipDelivery(w, x) => worker'[w] = worker[w]
          BY DEF SkipDelivery
        <5>3. NotClaimable(w) \/ Retry(w) \/ Overtaken(w) \/ Acknowledge(w) \/ Crash(w)
                 \/ Abandon(w) \/ AbortWork(w) => worker'[w].pc = "idle"
          BY <1>a, MoveEffect DEF NotClaimable, Retry, Overtaken, Acknowledge, Crash, Abandon, AbortWork
        <5>4. FailJob(w) \/ LostRace(w) \/ Publish(w) \/ Fail(w) => worker'[w].pc = "ack"
          BY <1>a, MoveEffect DEF FailJob, LostRace, Publish, Fail
        <5>5. /\ Claim(w) => worker'[w].pc = "claimed"
              /\ StartProcessing(w) \/ Resume(w) => worker'[w].pc = "parse"
              /\ Parse(w) => worker'[w].pc = "dense"
          BY <1>a, MoveEffect DEF Claim, StartProcessing, Resume, Parse
        <5>6. IndexDense(w) \/ IndexSparse(w) => worker'[w].pc \in {"dense", "sparse", "verify"}
          BY <1>a, MoveEffect DEF IndexDense, IndexSparse
        <5>7. BeginFail(w) => worker'[w].pc \in Failing
          BY <1>a, MoveEffect DEF BeginFail, Failing
        <5> QED
          BY <1>2, <3>1, <5>0, <5>1, <5>2, <5>3, <5>4, <5>5, <5>6, <5>7
             DEF WorkerMoves, Work, WorkFault, WorkerStep, WorkerFault, Failing
      <4>2. CASE Verify(w)
        BY <1>a, <4>2, MoveEffect DEF Verify, At, Claimed, Indexing, Failing
      <4>3. CASE MakeReady(w)
        BY <1>a, <4>3, MoveEffect DEF MakeReady, At, Claimed, IndexStays
      <4>4. CASE worker'[w] = worker[w]
        BY <1>2, <1>a, <4>4 DEF Claimed, IndexStays
      <4> QED BY <4>1, <4>2, <4>3, <4>4
    <3>2. CASE worker'[w] = worker[w]
      BY <1>2, <1>a, <3>2 DEF Claimed, IndexStays
    <3>3. WorkerMoves(w) \/ worker'[w] = worker[w]
      BY <1>a, NextCases, WorkerFrame, CleanerFrame, DeleterFrame, UploaderFrame DEF vars
    <3> QED BY <3>1, <3>2, <3>3
  <2>2. worker[w].pc # "idle" /\ v \in Versions /\ Exists(v)
    BY <1>a, <1>b, <2>1 DEF DeliveredExists, Claimed, Indexing, Failing
  <2>3. ASSUME NEW x \in Workers, worker[x].pc \in {"dense", "sparse"}, worker[x].version = v
        PROVE  FALSE
    <3>1. jobLock[v] = x /\ jobLock[v] = w
      BY <1>a, <2>1, <2>3 DEF ClaimHeld, Claimed, Indexing, Failing
    <3> QED BY <2>1, <2>3, <3>1
  <2>4. ~Deleted(version[v].document) => points'[v] = points[v]
    BY <2>2, <2>3, PointsChange
  <2> QED BY <1>c, <2>1, <2>2, <2>4 DEF Complete
<1> QED BY <1>1, <1>2 DEF IndexStays, Complete, Deleted, Vectors

-----------------------------------------------------------------------------
(***************************************************************************)
(* The theorems                                                            *)
(***************************************************************************)
LEMMA InitInv == Init => IInv
<1> SUFFICES ASSUME Init PROVE IInv
  OBVIOUS
<1>1. TypeOK
  BY InitTyped
<1>2. ClaimHeld /\ DeliveredExists /\ IndexStays
  BY DEF Init, CatalogInit, WorkerInit, IdleWorker, ClaimHeld, DeliveredExists, IndexStays,
         Claimed, Indexing, Failing
<1>3. VersionsHaveDocuments /\ ActiveIsOwn /\ PublishedIsSucceeded /\ ActiveIsReady
  BY DEF Init, CatalogInit, VersionsHaveDocuments, ActiveIsOwn, PublishedIsSucceeded,
         ActiveIsReady, Exists
<1>4. DrawnVersions /\ DrawnDocuments /\ SourceStays
  BY DEF Init, CatalogInit, UploadInit, IdleUpload, DrawnVersions, DrawnDocuments,
         SourceStays, Storing, Undoing, Exists
<1>5. CleanupsOfDeleted
  BY DEF Init, CatalogInit, DeletionInit, IdleDeletion, CleanupsOfDeleted
<1> QED BY <1>1, <1>2, <1>3, <1>4, <1>5 DEF IInv

LEMMA StepInv == IInv /\ [Next]_vars => IInv'
<1> SUFFICES ASSUME IInv, [Next]_vars PROVE IInv'
  OBVIOUS
<1>1. TypeOK'
  BY StepTyped DEF IInv
<1> QED
  BY <1>1, ClaimHeldStep, DeliveredExistsStep, VersionsHaveDocumentsStep, DrawnVersionsStep,
     DrawnDocumentsStep, CleanupsOfDeletedStep, ActiveIsOwnStep, PublishedIsSucceededStep,
     ActiveIsReadyStep, SourceStaysStep, IndexStaysStep DEF IInv

\* The invariant holds in every reachable state, whatever the number of workers,
\* requests, versions, chunks and attempts, and under every kind of fault.
THEOREM Invariance == Spec => []IInv
BY InitInv, StepInv, PTL DEF Spec

\* However often a version is delivered, and whatever crashes, one worker at a
\* time runs its pipeline: the conditional update of the job's row excludes a
\* second claim until the first transaction has ended.
THEOREM OneIngestionAtATime == Spec => []SingleIngestion
<1>1. IInv => SingleIngestion
  BY ClaimedTyped DEF IInv, ClaimHeld, SingleIngestion
<1> QED BY <1>1, Invariance, PTL

\* The stored PDF of a version is never lost while its document is live: a
\* duplicate or failed upload and a late cleanup delete other files only.
THEOREM SourcesAreKept == Spec => []SourceKept
<1>1. IInv => SourceKept
  BY DEF IInv, SourceStays, VersionsHaveDocuments, SourceKept, Exists, Deleted
<1> QED BY <1>1, Invariance, PTL

\* A version is READY only with a SUCCEEDED job, and a SUCCEEDED job stays with a
\* version that was published, so that nothing processes it again.
THEOREM PublishedOnce == Spec => []PublishedIsSucceeded
<1>1. IInv => PublishedIsSucceeded
  BY DEF IInv
<1> QED BY <1>1, Invariance, PTL

\* The active version of a live document is one of its own and READY: no failed,
\* overtaken or rolled back attempt leaves another in active_version_id.
THEOREM LiveIsAnswerable == Spec => []ActiveIsReady
<1>1. IInv => ActiveIsReady
  BY DEF IInv
<1> QED BY <1>1, Invariance, PTL

\* What list_searchable_version_ids returns has all of its chunk rows, all of its
\* vectors and its source PDF, though the index and the files are outside of the
\* transactions that publish and delete.
THEOREM SearchableIsWhole == Spec => []SearchableIsIndexed
<1>1. ASSUME IInv, NEW v \in Versions, Searchable(v)
      PROVE  Complete(v) /\ v \in chunked /\ v \in files
  <2>1. PICK d \in Documents : /\ document[d].state = "live" /\ document[d].active = v
                               /\ version[v].status = "READY"
    BY <1>1 DEF Searchable
  <2>2. version[v].document = d
    BY <1>1, <2>1, ProcessesDistinct DEF IInv, ActiveIsOwn
  <2> QED BY <1>1, <2>1, <2>2 DEF IInv, SourceStays, IndexStays, Exists, Deleted
<1>2. IInv => SearchableIsIndexed
  BY <1>1 DEF SearchableIsIndexed
<1> QED BY <1>2, Invariance, PTL
=============================================================================
