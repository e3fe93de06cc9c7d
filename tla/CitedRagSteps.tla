---------------------------- MODULE CitedRagSteps ----------------------------
(***************************************************************************)
(* What the steps of CitedRag may do: the transitions of the versions, a   *)
(* document that stays answerable, the refinement of Corpus, the files     *)
(* that belong to somebody, and the errors that lose work.  They rest on   *)
(* StrongInv, which adds the row locks of the open transactions and the    *)
(* stored files to IInv; LossInv adds the work that nothing will take on.  *)
(***************************************************************************)
EXTENDS CitedRagSafety, FiniteSetTheorems

\* A worker that is not idle has read one of the statuses it goes on with.
LEMMA SeenTyped ==
    ASSUME WorkerTypeOK, NEW w \in Workers, worker[w].pc # "idle"
    PROVE  worker[w].seen \in Ingestible
BY DEF WorkerTypeOK, WorkerRecord, IdleWorker

\* What the moves of a worker's record leave in it.
LEMMA MoveKeepsSeen ==
    ASSUME WorkerTypeOK, NEW w \in Workers
    PROVE  /\ \A pc : GoTo(w, pc) => worker'[w].seen = worker[w].seen
           /\ \A pc, chunks : Stage(w, pc, chunks) => worker'[w].seen = worker[w].seen
<1>1. worker[w] = [pc |-> worker[w].pc, version |-> worker[w].version,
                   seen |-> worker[w].seen, left |-> worker[w].left]
  <2>1. worker[w] \in WorkerRecord
    BY DEF WorkerTypeOK
  <2>2. CASE worker[w] = IdleWorker
    BY <2>2 DEF IdleWorker
  <2>3. CASE worker[w] # IdleWorker
    BY <2>1, <2>3 DEF WorkerRecord
  <2> QED BY <2>2, <2>3
<1>2. ASSUME NEW pc, GoTo(w, pc)
      PROVE  worker'[w].seen = worker[w].seen
  <2>1. worker'[w] = [worker[w] EXCEPT !.pc = pc]
    BY <1>2 DEF WorkerTypeOK, GoTo
  <2> QED BY <1>1, <2>1
<1>3. ASSUME NEW pc, NEW chunks, Stage(w, pc, chunks)
      PROVE  worker'[w].seen = worker[w].seen
  <2>1. worker'[w] = [worker[w] EXCEPT !.pc = pc, !.left = chunks]
    BY <1>3 DEF WorkerTypeOK, Stage
  <2> QED BY <1>1, <2>1
<1> QED BY <1>2, <1>3

-----------------------------------------------------------------------------
(***************************************************************************)
(* The row locks                                                           *)
(***************************************************************************)
\* How a transaction may change the locks of the versions.
LockStep(t) ==
    \/ UNCHANGED versionLock
    \/ ReleaseLocks(t)
    \/ \E v \in Versions : VersionFree(v, t) /\ LockVersion(v, t)

LEMMA LockSteps ==
    ASSUME TypeOK
    PROVE  /\ \A w \in Workers : WorkerMoves(w) => LockStep(w)
           /\ \A k \in Cleaners : CleanerMoves(k) => LockStep(k)
           /\ \A r \in Deleters : DeleterSteps(r) => LockStep(r)
           /\ \A u \in Uploaders : UploaderSteps(u) => LockStep(u)
<1>1. ASSUME NEW w \in Workers, WorkerMoves(w)
      PROVE  LockStep(w)
  <2>1. At(w, "idle") \/ worker[w].version \in Versions
    BY ClaimedTyped DEF TypeOK, At
  <2>2. CASE StartProcessing(w) \/ Parse(w) \/ MakeReady(w)
    BY <2>1, <2>2 DEF StartProcessing, Parse, MakeReady, At, LockStep
  <2>3. CASE ~(StartProcessing(w) \/ Parse(w) \/ MakeReady(w))
    BY <1>1, <2>3 DEF LockStep, WorkerMoves, Work, WorkFault, WorkerStep, WorkerFault, Receive,
       SkipDelivery, Claim, NotClaimable, FailJob, BeginFail, LostRace, Resume,
       EnsureCollection, IndexDense, IndexSparse, Verify, Publish, Retry, Fail, Overtaken,
       Acknowledge, Crash, Abandon, AbortWork, locks, catalogVars
  <2> QED BY <2>2, <2>3
<1>2. ASSUME NEW k \in Cleaners, CleanerMoves(k)
      PROVE  LockStep(k)
  BY <1>2 DEF LockStep, CleanerMoves, Clean, CleanFault, CleanerStep, CleanerFault, Purge,
     DropPoints, DropFile, CheckStatus, MarkDeleted, PurgeConflict, FinishPurge, PurgeRefused,
     PurgeExhausted, PurgeRetry, PurgeLost, locks, catalogVars
<1>3. ASSUME NEW r \in Deleters, DeleterSteps(r)
      PROVE  LockStep(r)
  BY <1>3 DEF LockStep, DeleterSteps, DeleterMoves, RequestDelete, HandleDelete, FailDelete,
     DeleteRequest, DeleterStep, AbortDelete, DeleteAgain, Delete, MarkDeleting, DeleteConflict,
     Tombstone, EnqueueCleanup, DeleteFault, locks, catalogVars
<1>4. ASSUME NEW u \in Uploaders, UploaderSteps(u)
      PROVE  LockStep(u)
  BY <1>4 DEF LockStep, UploaderSteps, UploaderMoves, RequestUpload, HandleUpload, FailUpload,
     UploadRequest, UploaderStep, UploaderFault, AbortUpload, UploadFailed, UploadDocument,
     UploadVersion, NumberVersion, PutFile, InsertVersion, InsertRefused, UndoUpload,
     UndoAndRequeue, EnqueueIngestion, UploadCrash, PutFails, InsertFails, UndoFails, locks,
     catalogVars
<1> QED BY <1>1, <1>2, <1>3, <1>4

\* A step of t takes no lock from another transaction, and gives none to one.
LEMMA OthersKeepLocks ==
    ASSUME LocksTypeOK, NEW t \in Transactions, LockStep(t), NEW v \in Versions
    PROVE  /\ versionLock[v] \notin {None, t} => versionLock'[v] = versionLock[v]
           /\ versionLock'[v] \notin {None, t} => versionLock[v] = versionLock'[v]
BY DEF LocksTypeOK, LockStep, ReleaseLocks, LockVersion, VersionFree

\* A worker changes the status of a version only with its row free or its own.
LEMMA WorkerHoldsRow ==
    ASSUME StrongInv, NEW w \in Workers, WorkerMoves(w), NEW v \in Versions,
           version'[v].status # version[v].status
    PROVE  /\ v = worker[w].version /\ versionLock[v] \in {None, w}
           /\ version[v].status \in Ingestible
           /\ \/ version'[v].status \in {"READY", "FAILED"}
              \/ version[v].status = "QUEUED" /\ version'[v].status = "PROCESSING"
<1>a. TypeOK /\ RowsTypeOK /\ WorkerTypeOK /\ RowsHeld
  BY DEF StrongInv, IInv, TypeOK, CatalogTypeOK
<1>1. v = worker[w].version /\ worker[w].pc \in Claimed
  BY <1>a, WorkerRows
<1>2. Publish(w) \/ Retry(w) \/ Fail(w)
  BY DEF WorkerMoves, Work, WorkFault, WorkerStep, WorkerFault, Receive, SkipDelivery, Claim,
     NotClaimable, FailJob, BeginFail, StartProcessing, LostRace, Resume, Parse,
     EnsureCollection, IndexDense, IndexSparse, Verify, MakeReady, Overtaken, Acknowledge, Crash, Abandon, AbortWork, rows,
     catalogVars
<1>3. CASE Publish(w)
  <2>1. version'[v].status = "READY"
    BY <1>1, <1>3, <1>a, SaveVersionEffect DEF Publish
  <2> QED BY <1>1, <1>3, <1>a, <2>1 DEF Publish, RowsHeld
<1>4. CASE Retry(w)
  <2>1. worker[w].seen = "QUEUED" /\ SaveVersion(v, "PROCESSING")
    BY <1>1, <1>4 DEF Retry
  <2>2. version'[v].status = "PROCESSING"
    BY <1>a, <2>1, SaveVersionEffect
  <2>3. worker[w].pc \in Processing /\ worker[w].pc \notin Failing
    BY <1>4 DEF Retry, Processing, Claimed, Indexing, Failing
  <2>4. versionLock[v] = w /\ version[v].status = "QUEUED"
    BY <1>1, <1>a, <2>1, <2>3 DEF RowsHeld
  <2> QED BY <1>1, <2>2, <2>4 DEF Ingestible
<1>5. CASE Fail(w)
  <2>1. version'[v].status = "FAILED"
    BY <1>1, <1>5, <1>a, SaveVersionEffect DEF Fail
  <2>2. worker[w].pc \in Processing
    BY <1>5 DEF Fail, Processing, Claimed, Failing, Indexing
  <2>3. VersionFree(v, w) /\ version[v].status \in Ingestible
    BY <1>1, <1>5, <1>a, <2>2 DEF Fail, IsProcessing, RowsHeld, Ingestible
  <2> QED BY <1>1, <2>1, <2>3 DEF VersionFree
<1> QED BY <1>2, <1>3, <1>4, <1>5

\* An update of a version waits for the transaction that has its row, and makes
\* one of the transitions of the policy.
LEMMA StatusStep ==
    ASSUME StrongInv, [Next]_vars, NEW v \in Versions, version'[v].status # version[v].status
    PROVE  /\ CommittedTransition(version[v].status, version'[v].status)
           /\ \/ ~Exists(v)
              \/ \E w \in Workers : WorkerMoves(w) /\ versionLock[v] \in {None, w}
              \/ \E k \in Cleaners : CleanerMoves(k) /\ versionLock[v] \in {None, k}
              \/ \E r \in Deleters : DeleterSteps(r) /\ versionLock[v] \in {None, r}
              \/ \E u \in Uploaders : UploaderSteps(u) /\ versionLock[v] \in {None, u}
<1> USE DEF CommittedTransition, AllowedTransitions, MarkableDeleting, VersionStatus
<1>a. /\ IInv /\ TypeOK /\ RowsTypeOK /\ RowsHeld /\ DrawnVersions
      /\ version[v].status \in VersionStatus \cup {"absent"}
  BY DEF StrongInv, IInv, TypeOK, CatalogTypeOK, RowsTypeOK, VersionRow
<1>1. CASE \E w \in Workers : WorkerMoves(w)
  <2> PICK w \in Workers : WorkerMoves(w)
    BY <1>1
  <2> QED BY WorkerHoldsRow DEF Ingestible
<1>2. CASE \E k \in Cleaners : CleanerMoves(k)
  <2> PICK k \in Cleaners : CleanerMoves(k)
    BY <1>2
  <2>1. v \in cleaner[k].marked /\ version'[v].status = "DELETED"
    BY <1>a, CleanerRows
  <2>2. versionLock[v] = k /\ version[v].status = "DELETING"
    BY <1>a, <2>1 DEF RowsHeld
  <2> QED BY <2>1, <2>2
<1>3. CASE \E r \in Deleters : DeleterSteps(r)
  <2> PICK r \in Deleters : DeleterSteps(r)
    BY <1>3
  <2>1. v \in deleter[r].marked /\ version'[v].status = "DELETING"
    BY <1>a, DeleterRows
  <2>2. versionLock[v] = r /\ version[v].status \notin {"absent", "DELETING", "DELETED"}
    BY <1>a, <2>1 DEF RowsHeld
  <2> QED BY <1>a, <2>1, <2>2
<1>4. CASE \E u \in Uploaders : UploaderSteps(u)
  <2> PICK u \in Uploaders : UploaderSteps(u)
    BY <1>4
  <2>1. CASE InsertVersion(u) /\ v = uploader[u].version
    <3>1. ~Exists(v) /\ version'[v].status = "QUEUED"
      BY <1>a, <2>1, InsertEffect DEF DrawnVersions
    <3> QED BY <3>1 DEF Exists
  <2>2. CASE ~(InsertVersion(u) /\ v = uploader[u].version)
    <3>1. version[v].status = "FAILED" /\ version'[v].status = "QUEUED"
      BY <1>a, <2>2, UploaderRows
    <3>2. \E e \in Versions : Requeue(e, u)
      BY <1>a, <2>2, <3>1 DEF UploaderSteps, UploaderMoves,
         RequestUpload, HandleUpload, FailUpload, UploadRequest, UploaderStep, UploaderFault,
         AbortUpload, UploadFailed, UploadDocument, UploadVersion, NumberVersion, PutFile,
         InsertVersion, InsertRefused, UndoUpload, UndoAndRequeue, FailedWithHash,
         EnqueueIngestion, UploadCrash, PutFails, InsertFails, UndoFails, WithHash, rows,
         catalogVars, RowsTypeOK
    <3>3. VersionFree(v, u)
      BY <1>a, <3>1, <3>2 DEF Requeue, RowsTypeOK
    <3> QED BY <3>1, <3>3 DEF VersionFree
  <2> QED BY <2>1, <2>2
<1>5. CASE UNCHANGED vars
  BY <1>5 DEF vars, catalogVars, rows
<1> QED BY <1>1, <1>2, <1>3, <1>4, <1>5, NextCases

\* The rows that a transaction has keep their locks and their statuses while
\* others move.
LEMMA RowsUntouched ==
    ASSUME StrongInv, [Next]_vars, NEW t,
           \/ t \in Workers /\ ~WorkerMoves(t)
           \/ t \in Cleaners /\ ~CleanerMoves(t)
           \/ t \in Deleters /\ ~DeleterSteps(t),
           NEW v \in Versions
    PROVE  /\ versionLock'[v] = t <=> versionLock[v] = t
           /\ versionLock[v] = t /\ Exists(v) => version'[v].status = version[v].status
<1>a. TypeOK /\ LocksTypeOK /\ t # None /\ t \in Transactions
  BY ProcessesDistinct DEF StrongInv, IInv, TypeOK, CatalogTypeOK, Transactions
<1>b. /\ t \in Workers => t \notin Cleaners \cup Deleters \cup Uploaders
      /\ t \in Cleaners => t \notin Deleters \cup Uploaders
      /\ t \in Deleters => t \notin Uploaders
  BY ProcessesAssumption
<1>1. (\E x \in Transactions \ {t} : LockStep(x)) \/ UNCHANGED versionLock
  <2>1. UNCHANGED vars => UNCHANGED versionLock
    BY DEF vars, catalogVars, locks
  <2> QED BY <1>a, <1>b, <2>1, NextCases, LockSteps DEF Transactions
<1>2. versionLock'[v] = t <=> versionLock[v] = t
  BY <1>a, <1>1, OthersKeepLocks
<1>3. versionLock[v] = t /\ Exists(v) => version'[v].status = version[v].status
  BY <1>a, <1>b, StatusStep
<1> QED BY <1>2, <1>3

\* A worker in the pipeline goes on with the row it has, takes the row of its own
\* version, or ends its transaction.
LEMMA ProcessingMoves ==
    ASSUME TypeOK, NEW w \in Workers, WorkerMoves(w)
    PROVE  \/ ReleaseLocks(w) /\ worker'[w].pc \notin Processing
           \/ /\ UNCHANGED versionLock /\ worker[w].pc \notin Processing
              /\ worker'[w].pc \notin Processing
           \/ /\ worker'[w].version = worker[w].version /\ worker'[w].seen = worker[w].seen
              /\ worker'[w].pc \in Processing /\ worker[w].pc \in Claimed
              /\ UNCHANGED version
              /\ \/ UNCHANGED versionLock
                 \/ LockVersion(worker[w].version, w)
              /\ \/ worker[w].pc \in Processing \ Failing
                 \/ StartProcessing(w) \/ Resume(w) \/ BeginFail(w)
              /\ worker'[w].pc = "publish" => MakeReady(w)
<1>a. WorkerTypeOK
  BY DEF TypeOK
<1> USE DEF Processing, Claimed, Indexing, Failing, At
<1>1. CASE (\E v \in Versions : Receive(w, v) \/ SkipDelivery(w, v)) \/ NotClaimable(w) \/ Claim(w)
           \/ Acknowledge(w)
  <2>1. \A v \in Versions : Receive(w, v) => worker'[w].pc = "claim"
    BY <1>a DEF Receive, WorkerTypeOK
  <2>2. NotClaimable(w) \/ Acknowledge(w) => worker'[w].pc = "idle"
    BY <1>a, MoveEffect DEF NotClaimable, Acknowledge
  <2>3. Claim(w) => worker'[w].pc = "claimed"
    BY <1>a, MoveEffect DEF Claim
  <2>4. \A v \in Versions : SkipDelivery(w, v) => worker'[w].pc = "idle"
    BY DEF SkipDelivery
  <2>5. UNCHANGED versionLock /\ worker[w].pc \in {"idle", "claim", "ack"}
    BY <1>1 DEF Receive, SkipDelivery, NotClaimable, Claim, Acknowledge, locks, catalogVars
  <2> QED BY <1>1, <2>1, <2>2, <2>3, <2>4, <2>5
<1>2. CASE FailJob(w) \/ LostRace(w) \/ Publish(w) \/ Fail(w) \/ Retry(w) \/ Overtaken(w)
           \/ Crash(w) \/ Abandon(w) \/ AbortWork(w)
  BY <1>2, <1>a, MoveEffect DEF FailJob, LostRace, Publish, Fail, Retry, Overtaken, Crash, Abandon,
     AbortWork
<1>3. CASE StartProcessing(w) \/ Resume(w)
  BY <1>3, <1>a, MoveEffect, MoveKeepsSeen DEF StartProcessing, Resume, rows, locks, catalogVars
<1>4. CASE Parse(w) \/ IndexDense(w) \/ IndexSparse(w) \/ Verify(w)
  <2>1. \E pc \in {"dense", "sparse", "verify", "finalize"} : \E chunks :
           GoTo(w, pc) \/ Stage(w, pc, chunks)
    BY <1>4 DEF Parse, IndexDense, IndexSparse, Verify
  <2>2. /\ worker'[w].version = worker[w].version /\ worker'[w].seen = worker[w].seen
        /\ worker'[w].pc \in {"dense", "sparse", "verify", "finalize"}
    BY <1>a, <2>1, MoveEffect, MoveKeepsSeen
  <2>3. /\ worker[w].pc \in Indexing /\ UNCHANGED version
        /\ UNCHANGED versionLock \/ LockVersion(worker[w].version, w)
    BY <1>4 DEF Parse, IndexDense, IndexSparse, Verify, rows, locks, catalogVars
  <2> QED BY <2>2, <2>3
<1>5. CASE MakeReady(w) \/ BeginFail(w)
  BY <1>5, <1>a, MoveEffect, MoveKeepsSeen
     DEF MakeReady, BeginFail, CanFail, rows, locks, catalogVars
<1>6. CASE EnsureCollection(w)
  BY <1>6 DEF EnsureCollection, rows, locks
<1> QED
  BY <1>1, <1>2, <1>3, <1>4, <1>5, <1>6 DEF WorkerMoves, Work, WorkFault, WorkerStep, WorkerFault

\* The rows of the workers.
LEMMA WorkerRowsHeld ==
    ASSUME StrongInv, [Next]_vars, NEW w \in Workers
    PROVE  /\ \A v \in Versions : versionLock'[v] = w =>
                 worker'[w].pc \in Processing /\ worker'[w].version = v
           /\ worker'[w].pc \in Processing /\ worker'[w].seen = "QUEUED" =>
                 /\ worker'[w].pc \notin Failing => versionLock'[worker'[w].version] = w
                 /\ versionLock'[worker'[w].version] = w =>
                       version'[worker'[w].version].status = "QUEUED"
           /\ worker'[w].pc = "publish" =>
                 /\ versionLock'[worker'[w].version] = w
                 /\ version'[worker'[w].version].status \in Ingestible
<1>a. TypeOK /\ WorkerTypeOK /\ LocksTypeOK /\ RowsHeld /\ DeliveredExists /\ w # None
  BY ProcessesDistinct DEF StrongInv, IInv, TypeOK, CatalogTypeOK
<1>b. worker[w].pc \in Claimed => worker[w].version \in Versions /\ Exists(worker[w].version)
  BY <1>a, ClaimedTyped DEF DeliveredExists, Claimed, Indexing, Failing
<1>c. /\ \A v \in Versions : versionLock[v] = w =>
            worker[w].pc \in Processing /\ worker[w].version = v
      /\ worker[w].pc \in Processing /\ worker[w].seen = "QUEUED" =>
            /\ worker[w].pc \notin Failing => versionLock[worker[w].version] = w
            /\ versionLock[worker[w].version] = w =>
                  version[worker[w].version].status = "QUEUED"
      /\ worker[w].pc = "publish" =>
            /\ versionLock[worker[w].version] = w
            /\ version[worker[w].version].status \in Ingestible
  BY <1>a DEF RowsHeld, At
<1>1. CASE WorkerMoves(w)
  <2>1. CASE ReleaseLocks(w) /\ worker'[w].pc \notin Processing
    BY <1>a, <2>1 DEF ReleaseLocks, Processing, Claimed
  <2>2. CASE UNCHANGED versionLock /\ worker[w].pc \notin Processing /\ worker'[w].pc \notin Processing
    BY <1>c, <2>2 DEF Processing, Claimed
  <2>3. CASE /\ worker'[w].version = worker[w].version /\ worker'[w].seen = worker[w].seen
             /\ worker'[w].pc \in Processing /\ worker[w].pc \in Claimed
             /\ UNCHANGED version
             /\ \/ UNCHANGED versionLock
                \/ LockVersion(worker[w].version, w)
             /\ \/ worker[w].pc \in Processing \ Failing
                \/ StartProcessing(w) \/ Resume(w) \/ BeginFail(w)
             /\ worker'[w].pc = "publish" => MakeReady(w)
    <3> DEFINE v == worker[w].version
    <3>1. v \in Versions /\ version'[v] = version[v]
      BY <1>b, <2>3
    <3>2. \A u \in Versions : versionLock'[u] = w => u = v
      BY <1>a, <1>c, <2>3 DEF LockVersion, LocksTypeOK
    <3>3. /\ StartProcessing(w) => versionLock'[v] = w /\ version[v].status = "QUEUED"
          /\ MakeReady(w) => versionLock'[v] = w /\ worker[w].pc = "finalize"
      BY <1>a, <3>1 DEF StartProcessing, MakeReady, At, LockVersion, LocksTypeOK
    <3>4. Resume(w) => worker[w].seen = "PROCESSING"
      BY DEF Resume
    <3>5. versionLock[v] = w => versionLock'[v] = w
      BY <1>a, <2>3, <3>1 DEF LockVersion, LocksTypeOK
    <3>6. BeginFail(w) => worker'[w].pc \in Failing /\ UNCHANGED versionLock
      BY <1>a, MoveEffect DEF BeginFail, Failing, catalogVars, locks
    <3>7. worker[w].pc \notin Processing => versionLock[v] # w
      BY <1>c, <3>1
    <3>8. worker[w].seen = "QUEUED" =>
             /\ worker'[w].pc \notin Failing => versionLock'[v] = w
             /\ versionLock'[v] = w => version[v].status = "QUEUED"
      <4>1. CASE StartProcessing(w)
        BY <3>3, <4>1
      <4>2. CASE Resume(w)
        BY <3>4, <4>2
      <4>3. CASE BeginFail(w)
        BY <1>c, <3>1, <3>6, <3>7, <4>3
      <4>4. CASE worker[w].pc \in Processing \ Failing
        BY <1>c, <3>1, <3>5, <4>4
      <4> QED BY <2>3, <4>1, <4>2, <4>3, <4>4
    <3>9. MakeReady(w) => version[v].status \in Ingestible
      <4>1. MakeReady(w) => IsProcessing(w, v) /\ worker[w].pc \in Processing
        BY DEF MakeReady, At, Processing, Claimed
      <4> QED BY <1>c, <4>1 DEF IsProcessing, Ingestible
    <3> HIDE DEF v
    <3> QED BY <2>3, <3>1, <3>2, <3>3, <3>8, <3>9 DEF v
  <2> QED BY <1>1, <1>a, <2>1, <2>2, <2>3, ProcessingMoves
<1>2. CASE ~WorkerMoves(w)
  <2>1. worker'[w] = worker[w]
    BY <1>a, <1>2, NextCases, WorkerFrame, CleanerFrame, DeleterFrame, UploaderFrame DEF vars
  <2>2. \A v \in Versions : versionLock'[v] = w <=> versionLock[v] = w
    BY <1>2, RowsUntouched
  <2>3. worker[w].pc \in Claimed /\ versionLock[worker[w].version] = w =>
           version'[worker[w].version].status = version[worker[w].version].status
    BY <1>2, <1>b, RowsUntouched
  <2>4. worker[w].pc \in Processing \/ worker[w].pc = "publish" => worker[w].pc \in Claimed
    BY DEF Processing, Claimed
  <2> QED BY <1>b, <1>c, <2>1, <2>2, <2>3, <2>4
<1> QED BY <1>1, <1>2

\* The rows of the delete requests and of the cleanups.
LEMMA DeletionRowsHeld ==
    ASSUME StrongInv, [Next]_vars
    PROVE  /\ \A r \in Deleters : \A v \in deleter'[r].marked :
                 /\ versionLock'[v] = r
                 /\ version'[v].status \notin {"absent", "DELETING", "DELETED"}
           /\ \A k \in Cleaners : \A v \in cleaner'[k].marked :
                 versionLock'[v] = k /\ version'[v].status = "DELETING"
<1>a. /\ TypeOK /\ DeletionTypeOK /\ DeletionTypeOK' /\ LocksTypeOK /\ RowsTypeOK /\ RowsHeld
  BY StepTyped DEF StrongInv, IInv, TypeOK, CatalogTypeOK
<1>1. ASSUME NEW r \in Deleters, NEW v \in deleter'[r].marked
      PROVE  /\ versionLock'[v] = r
             /\ version'[v].status \notin {"absent", "DELETING", "DELETED"}
  <2>0. v \in Versions
    BY <1>1, <1>a DEF DeletionTypeOK, DeletionRecord, IdleDeletion
  <2>1. v \in deleter[r].marked => versionLock[v] = r
                                   /\ version[v].status \notin {"absent", "DELETING", "DELETED"}
    BY <1>a DEF RowsHeld
  <2>2. CASE ~DeleterSteps(r)
    <3>1. deleter'[r] = deleter[r]
      BY <1>a, <2>2, NextCases, WorkerFrame, CleanerFrame, DeleterFrame, UploaderFrame DEF vars
    <3> QED BY <1>1, <2>0, <2>1, <2>2, <3>1, RowsUntouched DEF Exists
  <2>3. CASE DeleterSteps(r)
    <3>1. \/ \E x \in Versions : MarkDeleting(r, x)
          \/ deleter'[r] = deleter[r] /\ UNCHANGED <<versionLock, version>>
      <4>1. (\E d \in Documents : DeleteAgain(r, d) \/ Delete(r, d)) \/ Tombstone(r)
              => deleter'[r].marked = {}
        <5>1. \A d \in Documents : AskCleanup(r, d) => deleter'[r].marked = {}
          BY <1>a DEF AskCleanup, IdleDeletion, DeletionTypeOK
        <5>2. \A d \in Documents : Delete(r, d) => deleter'[r].marked = {}
          BY <1>a DEF Delete, DeletionTypeOK
        <5>3. Tombstone(r) => deleter'[r].marked = {}
          BY <1>a DEF Tombstone, AskCleanup, IdleDeletion, DeletionTypeOK
        <5> QED BY <5>1, <5>2, <5>3 DEF DeleteAgain
      <4>2. AbortDelete(r) \/ EnqueueCleanup(r) \/ DeleteFault(r)
              \/ (\E x \in Versions : DeleteConflict(r, x)) => deleter'[r].marked = {}
        BY <1>a DEF AbortDelete, EnqueueCleanup, DeleteFault, DeleteConflict, IdleDeletion,
                    DeletionTypeOK
      <4> QED BY <1>1, <2>3, <4>1, <4>2 DEF DeleterSteps, DeleterMoves, RequestDelete,
                 HandleDelete, FailDelete, DeleteRequest, DeleterStep
    <3>2. ASSUME NEW x \in Versions, MarkDeleting(r, x)
          PROVE  /\ versionLock'[v] = r
                 /\ version'[v].status \notin {"absent", "DELETING", "DELETED"}
      <4> DEFINE from == IF x \in deleter[r].chosen THEN {"READY"} ELSE MarkableDeleting
                 hit == version[x].status \in from
      <4>1. /\ UNCHANGED version /\ deleter[r].pc = "mark"
            /\ deleter' = [deleter EXCEPT ![r].todo = @ \ {x},
                                          ![r].marked = IF hit THEN @ \cup {x} ELSE @]
            /\ IF hit THEN LockVersion(x, r) ELSE UNCHANGED versionLock
        BY <3>2 DEF MarkDeleting, rows
      <4>2. v \in deleter[r].marked \/ (hit /\ v = x)
        <5>1. deleter[r] \in [pc : {"mark", "wake"}, document : Documents, todo : SUBSET Versions,
                              chosen : SUBSET Versions, marked : SUBSET Versions]
          BY <1>a, <4>1, DeletionTyped DEF DeletionTypeOK
        <5> HIDE DEF hit
        <5>2. deleter'[r].marked = IF hit THEN deleter[r].marked \cup {x} ELSE deleter[r].marked
          BY <1>a, <4>1, <5>1 DEF DeletionTypeOK
        <5> QED BY <1>1, <5>2
      <4>3. v \in deleter[r].marked => versionLock'[v] = r
        BY <1>a, <2>0, <2>1, <4>1 DEF LockVersion, LocksTypeOK
      <4>4. hit /\ v = x => versionLock'[v] = r
                            /\ version[v].status \notin {"absent", "DELETING", "DELETED"}
        BY <1>a, <2>0, <4>1 DEF LockVersion, LocksTypeOK, MarkableDeleting, VersionStatus
      <4> QED BY <2>1, <4>1, <4>2, <4>3, <4>4
    <3> QED BY <1>1, <2>1, <3>1, <3>2
  <2> QED BY <2>2, <2>3
<1>2. ASSUME NEW k \in Cleaners, NEW v \in cleaner'[k].marked
      PROVE  versionLock'[v] = k /\ version'[v].status = "DELETING"
  <2>0. v \in Versions
    BY <1>2, <1>a DEF DeletionTypeOK, DeletionRecord, IdleDeletion
  <2>1. v \in cleaner[k].marked => versionLock[v] = k /\ version[v].status = "DELETING"
    BY <1>a DEF RowsHeld
  <2>2. CASE ~CleanerMoves(k)
    <3>1. cleaner'[k] = cleaner[k]
      BY <1>a, <2>2, NextCases, WorkerFrame, CleanerFrame, DeleterFrame, UploaderFrame DEF vars
    <3> QED BY <1>2, <2>0, <2>1, <2>2, <3>1, RowsUntouched DEF Exists
  <2>3. CASE CleanerMoves(k)
    <3>1. \/ \E x \in Versions : MarkDeleted(k, x)
          \/ cleaner'[k].marked = cleaner[k].marked /\ UNCHANGED <<versionLock, version>>
      <4>1. (\E d \in Documents : Purge(k, d)) \/ FinishPurge(k) \/ PurgeRetry(k) \/ PurgeLost(k)
              \/ PurgeRefused(k) \/ PurgeExhausted(k)
              \/ (\E x \in Versions : PurgeConflict(k, x)) => cleaner'[k].marked = {}
        BY <1>a DEF Purge, FinishPurge, PurgeRefused, PurgeExhausted, PurgeRetry, PurgeLost,
                    PurgeConflict, IdleDeletion, DeletionTypeOK
      <4>2. ASSUME NEW x \in Versions, DropPoints(k, x) \/ DropFile(k, x) \/ CheckStatus(k, x)
            PROVE  cleaner'[k].marked = cleaner[k].marked /\ UNCHANGED <<versionLock, version>>
        <5>1. cleaner[k] \in [pc : {"points", "file", "check", "mark"}, document : Documents,
                              todo : SUBSET Versions, chosen : SUBSET Versions,
                              marked : SUBSET Versions]
          BY <1>a, <4>2, DeletionTyped DEF DeletionTypeOK, DropPoints, DropFile, CheckStatus
        <5>2. \E pc \in {"file", "check", "mark"} :
                 \/ cleaner'[k] = [cleaner[k] EXCEPT !.pc = pc]
                 \/ cleaner'[k] = [cleaner[k] EXCEPT !.pc = "points", !.todo = @ \ {x}]
          BY <1>a, <4>2 DEF DeletionTypeOK, DropPoints, DropFile, CheckStatus
        <5>3. UNCHANGED <<versionLock, version>>
          BY <4>2 DEF DropPoints, DropFile, CheckStatus, rows, locks, catalogVars
        <5> QED BY <5>1, <5>2, <5>3
      <4> QED BY <1>2, <2>3, <4>1, <4>2 DEF CleanerMoves, Clean, CleanFault, CleanerStep, CleanerFault
    <3>2. ASSUME NEW x \in Versions, MarkDeleted(k, x)
          PROVE  versionLock'[v] = k /\ version'[v].status = "DELETING"
      <4>1. /\ UNCHANGED version /\ version[x].status = "DELETING" /\ LockVersion(x, k)
        BY <3>2 DEF MarkDeleted, rows
      <4>2. v \in cleaner[k].marked \/ v = x
        <5>1. cleaner[k] \in [pc : {"points", "file", "check", "mark"}, document : Documents,
                              todo : SUBSET Versions, chosen : SUBSET Versions,
                              marked : SUBSET Versions]
          BY <1>a, <3>2, DeletionTyped DEF DeletionTypeOK, MarkDeleted
        <5>2. cleaner'[k] = [cleaner[k] EXCEPT !.pc = "points", !.todo = @ \ {x},
                                               !.marked = @ \cup {x}]
          BY <1>a, <3>2 DEF DeletionTypeOK, MarkDeleted
        <5> QED BY <1>2, <5>1, <5>2
      <4> QED BY <1>a, <2>0, <2>1, <4>1, <4>2 DEF LockVersion, LocksTypeOK
    <3> QED BY <1>2, <2>1, <3>1, <3>2
  <2> QED BY <2>2, <2>3
<1> QED BY <1>1, <1>2

LEMMA RowsHeldStep ==
    ASSUME StrongInv, [Next]_vars
    PROVE  RowsHeld'
BY WorkerRowsHeld, DeletionRowsHeld DEF RowsHeld, At

-----------------------------------------------------------------------------
(***************************************************************************)
(* The files                                                               *)
(***************************************************************************)
\* The only steps of an upload that store a file or that give one up.
LEMMA UploaderFiles ==
    ASSUME TypeOK, NEW u \in Uploaders, UploaderSteps(u)
    PROVE  /\ \A v \in files' : v \in files \/ (PutFile(u) /\ v = uploader[u].version)
           /\ Storing(u) =>
                \/ PutFile(u) \/ InsertVersion(u) \/ BeginsUndoing(u)
                \/ UploadCrash(u) \/ UndoFails(u)
                \/ uploader[u].version \notin files'
<1> USE DEF UploaderSteps, UploaderMoves, RequestUpload, HandleUpload, FailUpload, UploadRequest,
            UploaderStep, UploaderFault, AbortUpload, UploadFailed, UploadDocument, UploadVersion,
            NumberVersion, PutFile, InsertVersion, InsertRefused, UndoUpload, UndoAndRequeue,
            EnqueueIngestion, UploadCrash, PutFails, InsertFails, UndoFails, BeginsUndoing, stores,
            catalogVars
<1>1. \A v \in files' : v \in files \/ (PutFile(u) /\ v = uploader[u].version)
  OBVIOUS
<1>2. Storing(u) =>
        \/ PutFile(u) \/ InsertVersion(u) \/ BeginsUndoing(u)
        \/ UploadCrash(u) \/ UndoFails(u)
        \/ uploader[u].version \notin files'
  BY DEF Storing, Undoing
<1> QED BY <1>1, <1>2

\* What a cleanup has yet to handle and has marked after a step.
LEMMA CleanerFiles ==
    ASSUME TypeOK, NEW k \in Cleaners, CleanerMoves(k)
    PROVE  /\ files' \subseteq files
           /\ \/ cleaner'[k].marked = {} /\ cleaner'[k].pc \notin {"check", "mark"}
              \/ \E v \in Versions : /\ DropFile(k, v) /\ cleaner'[k].todo = cleaner[k].todo
                                     /\ cleaner'[k].marked = cleaner[k].marked
              \/ /\ cleaner'[k].marked = cleaner[k].marked
                 /\ cleaner'[k].pc \notin {"check", "mark"}
              \/ /\ cleaner'[k].marked = cleaner[k].marked /\ cleaner'[k].todo = cleaner[k].todo
                 /\ cleaner[k].pc \in {"check", "mark"}
              \/ \E v \in Versions : /\ MarkDeleted(k, v) /\ cleaner'[k].pc = "points"
                                     /\ cleaner'[k].marked = cleaner[k].marked \cup {v}
<1>a. /\ DeletionTypeOK
      /\ cleaner[k].pc # "idle" =>
           cleaner[k] \in [pc : {"points", "file", "check", "mark"}, document : Documents,
                           todo : SUBSET Versions, chosen : SUBSET Versions,
                           marked : SUBSET Versions]
  BY DeletionTyped DEF TypeOK, DeletionTypeOK
<1>1. (\E d \in Documents : Purge(k, d)) \/ FinishPurge(k) \/ PurgeRetry(k) \/ PurgeLost(k)
        \/ PurgeRefused(k) \/ PurgeExhausted(k) \/ (\E x \in Versions : PurgeConflict(k, x))
          => cleaner'[k].marked = {} /\ cleaner'[k].pc \notin {"check", "mark"}
  BY <1>a DEF Purge, FinishPurge, PurgeRefused, PurgeExhausted, PurgeRetry, PurgeLost,
              PurgeConflict, IdleDeletion, DeletionTypeOK
<1>2. ASSUME NEW v \in Versions, DropPoints(k, v)
      PROVE  cleaner'[k].marked = cleaner[k].marked /\ cleaner'[k].pc = "file"
  <2>1. cleaner[k].pc # "idle" /\ cleaner'[k] = [cleaner[k] EXCEPT !.pc = "file"]
    BY <1>2, <1>a DEF DropPoints, DeletionTypeOK
  <2> QED BY <1>a, <2>1
<1>3. ASSUME NEW v \in Versions, DropFile(k, v)
      PROVE  cleaner'[k].marked = cleaner[k].marked /\ cleaner'[k].todo = cleaner[k].todo
  <2>1. cleaner[k].pc # "idle" /\ cleaner'[k] = [cleaner[k] EXCEPT !.pc = "check"]
    BY <1>3, <1>a DEF DropFile, DeletionTypeOK
  <2> QED BY <1>a, <2>1
<1>4. ASSUME NEW v \in Versions, CheckStatus(k, v)
      PROVE  /\ cleaner'[k].marked = cleaner[k].marked
             /\ \/ cleaner'[k].pc = "points"
                \/ cleaner'[k].todo = cleaner[k].todo /\ cleaner[k].pc = "check"
  <2>1. /\ cleaner[k].pc = "check"
        /\ \/ cleaner'[k] = [cleaner[k] EXCEPT !.pc = "mark"]
           \/ cleaner'[k] = [cleaner[k] EXCEPT !.pc = "points", !.todo = @ \ {v}]
    BY <1>4, <1>a DEF CheckStatus, DeletionTypeOK
  <2> QED BY <1>a, <2>1
<1>5. ASSUME NEW v \in Versions, MarkDeleted(k, v)
      PROVE  cleaner'[k].pc = "points" /\ cleaner'[k].marked = cleaner[k].marked \cup {v}
  <2>1. /\ cleaner[k].pc # "idle"
        /\ cleaner'[k] = [cleaner[k] EXCEPT !.pc = "points", !.todo = @ \ {v},
                                            !.marked = @ \cup {v}]
    BY <1>5, <1>a DEF MarkDeleted, DeletionTypeOK
  <2> QED BY <1>a, <2>1
<1>6. files' \subseteq files
  BY DEF CleanerMoves, Clean, CleanFault, CleanerStep, CleanerFault, Purge, DropPoints, DropFile,
     CheckStatus, MarkDeleted, PurgeConflict, FinishPurge, PurgeRefused, PurgeExhausted, PurgeRetry,
     PurgeLost, stores, catalogVars
<1> QED
  BY <1>1, <1>2, <1>3, <1>4, <1>5, <1>6
     DEF CleanerMoves, Clean, CleanFault, CleanerStep, CleanerFault

\* Only an upload adds a file, that of its version.
LEMMA FilesGrow ==
    ASSUME TypeOK, [Next]_vars, NEW v \in files', v \notin files
    PROVE  \E u \in Uploaders : UploaderSteps(u) /\ PutFile(u) /\ v = uploader[u].version
<1>1. UNCHANGED vars => UNCHANGED files
  BY DEF vars, catalogVars, stores
<1> QED BY <1>1, NextCases, WorkerFrame, DeleterFrame, CleanerFiles, UploaderFiles

\* A version that is stored for the first time is new: it does not exist, and no
\* other upload, cleanup or file is about it.
LEMMA PutIsNew ==
    ASSUME StrongInv, NEW u \in Uploaders, PutFile(u)
    PROVE  /\ uploader[u].version \in Versions /\ uploader[u].version <= lastVersion
           /\ ~Exists(uploader[u].version)
           /\ \A k \in Cleaners : uploader[u].version \notin cleaner[k].todo \cup cleaner[k].marked
           /\ \A x \in Uploaders \ {u} : Storing(x) => uploader[x].version # uploader[u].version
<1>a. /\ DrawnVersions /\ VersionsHaveDocuments /\ CleanupsOfDeleted
      /\ DeletionTypeOK /\ UploadTypeOK
  BY DEF StrongInv, IInv, TypeOK
<1>1. Storing(u) /\ uploader[u].version \in Versions
  BY <1>a, UploadTyped DEF PutFile, Storing, UploadTypeOK
<1>2. /\ uploader[u].version <= lastVersion /\ ~Exists(uploader[u].version)
      /\ \A x \in Uploaders \ {u} : Storing(x) => uploader[x].version # uploader[u].version
  BY <1>1, <1>a DEF DrawnVersions
<1>3. version[uploader[u].version].document \notin Documents
  BY <1>1, <1>2, <1>a, ProcessesDistinct DEF VersionsHaveDocuments
<1>4. ASSUME NEW k \in Cleaners
      PROVE  uploader[u].version \notin cleaner[k].todo \cup cleaner[k].marked
  <2>1. CASE cleaner[k].pc = "idle"
    BY <1>a, <2>1 DEF DeletionTypeOK, DeletionRecord, IdleDeletion
  <2>2. CASE cleaner[k].pc # "idle"
    <3>1. cleaner[k].document \in Documents
      BY <1>a, <2>2, DeletionTyped DEF DeletionTypeOK
    <3> QED BY <1>3, <1>a, <2>2, <3>1 DEF CleanupsOfDeleted
  <2> QED BY <2>1, <2>2
<1> QED BY <1>1, <1>2, <1>4

LEMMA FilesFollowedStep ==
    ASSUME StrongInv, [Next]_vars
    PROVE  FilesFollowed'
<1>a. /\ IInv /\ TypeOK /\ FilesFollowed /\ StoresTypeOK /\ UploadTypeOK /\ DeletionTypeOK
      /\ Versions \subseteq Nat /\ lastVersion \in Nat /\ lastVersion' \in Nat
      /\ lastVersion' >= lastVersion
  BY StepTyped, Monotone, VersionsAssumption DEF StrongInv, IInv, TypeOK, CatalogTypeOK
<1>b. files \subseteq Versions /\ files' \subseteq Versions
  BY <1>a, StepTyped DEF TypeOK, CatalogTypeOK, StoresTypeOK
<1>1. ASSUME NEW v \in files'
      PROVE  v <= lastVersion' /\ version'[v].status # "DELETED"
  <2>1. CASE v \in files
    <3>1. v <= lastVersion /\ version[v].status # "DELETED"
      BY <1>a, <2>1 DEF FilesFollowed
    <3>2. v <= lastVersion'
      <4>1. \A a, b, c \in Nat : a <= b /\ c >= b => a <= c
        OBVIOUS
      <4> QED BY <1>a, <1>b, <2>1, <3>1, <4>1
    <3>3. ASSUME NEW k \in Cleaners, CleanerMoves(k)
          PROVE  version'[v].status # "DELETED"
      BY <1>a, <1>b, <2>1, <3>1, <3>3, CleanerRows DEF FilesFollowed
    <3>4. ASSUME NEW u \in Uploaders, UploaderSteps(u)
          PROVE  version'[v].status # "DELETED"
      BY <1>a, <1>b, <2>1, <3>1, <3>4, UploaderRows, InsertEffect
    <3>5. version'[v].status # "DELETED"
      BY <1>a, <1>b, <2>1, <3>1, <3>3, <3>4, NextCases, WorkerRows, DeleterRows
         DEF vars, catalogVars, rows
    <3> QED BY <3>2, <3>5
  <2>2. CASE v \notin files
    <3>1. PICK u \in Uploaders : PutFile(u) /\ v = uploader[u].version
      BY <1>a, <2>2, FilesGrow
    <3>2. v <= lastVersion /\ ~Exists(v) /\ UNCHANGED <<version, lastVersion>>
      BY <3>1, PutIsNew DEF PutFile, rows
    <3> QED BY <3>2 DEF Exists
  <2> QED BY <2>1, <2>2
<1>2. ASSUME NEW u \in Uploaders, uploader'[u].pc = "put"
      PROVE  uploader'[u].version \notin files'
  <2>1. CASE UploaderSteps(u)
    <3>1. /\ ~PutFile(u) /\ ~BeginsUndoing(u)
          /\ \A h \in Hashes, d \in Documents : ~UploadVersion(u, h, d)
      BY <1>2, <1>a, UploaderMoveEffect DEF Undoing
    <3>2. /\ (\E h \in Hashes, d \in Documents : UploadDocument(u, h, d)) \/ NumberVersion(u)
          /\ uploader'[u].version = lastVersion + 1
      <4>1. (\E h \in Hashes, d \in Documents : UploadDocument(u, h, d)) \/ NumberVersion(u)
        BY <1>2, <1>a, <2>1, <3>1, UploaderMove DEF Storing
      <4> QED BY <1>a, <4>1, UploaderMoveEffect
    <3>3. UNCHANGED files
      BY <3>2 DEF UploadDocument, NumberVersion, stores
    <3>4. \A v \in files : v \in Nat /\ v <= lastVersion
      BY <1>a, <1>b DEF FilesFollowed
    <3> QED BY <1>a, <3>2, <3>3, <3>4
  <2>2. CASE ~UploaderSteps(u) /\ uploader'[u] = uploader[u]
    <3>1. uploader[u].version \notin files /\ Storing(u)
      BY <1>2, <1>a, <2>2 DEF FilesFollowed, Storing
    <3>2. ASSUME NEW x \in Uploaders, UploaderSteps(x), PutFile(x)
          PROVE  uploader[x].version # uploader[u].version
      BY <2>2, <3>1, <3>2, PutIsNew
    <3> QED BY <1>a, <2>2, <3>1, <3>2, FilesGrow
  <2>3. UploaderSteps(u) \/ uploader'[u] = uploader[u]
    BY <1>a, NextCases, WorkerFrame, CleanerFrame, DeleterFrame, UploaderFrame DEF vars
  <2> QED BY <2>1, <2>2, <2>3
<1>3. ASSUME NEW k \in Cleaners
      PROVE  /\ cleaner'[k].marked \cap files' = {}
             /\ cleaner'[k].pc \in {"check", "mark"} =>
                   \A v \in files' : ~IsFirst(v, cleaner'[k].todo)
  <2>0. /\ cleaner[k].marked \cap files = {}
        /\ cleaner[k].pc \in {"check", "mark"} => \A v \in files : ~IsFirst(v, cleaner[k].todo)
    BY <1>a DEF FilesFollowed
  <2>1. CASE CleanerMoves(k)
    <3>1. files' \subseteq files
      BY <1>a, <2>1, CleanerFiles
    <3>2. ASSUME NEW v \in Versions, DropFile(k, v), cleaner'[k].todo = cleaner[k].todo,
                 cleaner'[k].marked = cleaner[k].marked
          PROVE  /\ cleaner'[k].marked \cap files' = {}
                 /\ \A x \in files' : ~IsFirst(x, cleaner'[k].todo)
      <4>1. files' = files \ {v} /\ IsFirst(v, cleaner[k].todo)
        BY <3>2 DEF DropFile
      <4>2. ASSUME NEW x \in files', IsFirst(x, cleaner[k].todo)
            PROVE  FALSE
        <5>1. x <= v /\ v <= x /\ x \in Nat /\ v \in Nat
          BY <1>a, <1>b, <4>1, <4>2 DEF IsFirst
        <5> QED BY <4>1, <4>2, <5>1
      <4> QED BY <2>0, <3>1, <3>2, <4>2
    <3>3. ASSUME NEW v \in Versions, MarkDeleted(k, v)
          PROVE  v \notin files
      BY <2>0, <3>3 DEF MarkDeleted
    <3> QED BY <1>a, <2>0, <2>1, <3>1, <3>2, <3>3, CleanerFiles
  <2>2. CASE cleaner'[k] = cleaner[k]
    <3>1. \A v \in files' : v \in files \/ v \notin cleaner[k].todo \cup cleaner[k].marked
      BY <1>a, FilesGrow, PutIsNew
    <3> QED BY <2>0, <2>2, <3>1 DEF IsFirst
  <2>3. CleanerMoves(k) \/ cleaner'[k] = cleaner[k]
    BY <1>a, NextCases, WorkerFrame, CleanerFrame, DeleterFrame, UploaderFrame DEF vars
  <2> QED BY <2>1, <2>2, <2>3
<1> QED BY <1>1, <1>2, <1>3 DEF FilesFollowed, IsFirst

\* A file becomes a stray only when the request that stored it dies, or fails to delete it.
LEMMA StrayByUpload ==
    ASSUME StrongInv, [Next]_vars, NEW v \in Versions, Stray(v)', ~Stray(v)
    PROVE  \E u \in Uploaders : (UploadCrash(u) \/ UndoFails(u)) /\ v = uploader[u].version
<1>a. IInv /\ TypeOK /\ DrawnVersions
  BY DEF StrongInv, IInv
<1>b. /\ v \in files' /\ ~Exists(v)'
      /\ \A u \in Uploaders : Storing(u)' => uploader'[u].version # v
  BY DEF Stray
<1>1. ~Exists(v)
  BY <1>a, <1>b, Monotone
<1>2. ASSUME NEW u \in Uploaders, PutFile(u)
      PROVE  uploader[u].version # v
  BY <1>a, <1>b, <1>2, UploaderMoveEffect DEF Storing
<1>3. v \in files
  BY <1>a, <1>b, <1>2, FilesGrow
<1>4. PICK u \in Uploaders : Storing(u) /\ uploader[u].version = v
  BY <1>1, <1>3 DEF Stray
<1>5. UploaderSteps(u)
  <2>1. uploader'[u] # uploader[u]
    BY <1>b, <1>4 DEF Storing
  <2> QED BY <1>a, <2>1, NextCases, WorkerFrame, CleanerFrame, DeleterFrame, UploaderFrame DEF vars
<1>6. ~InsertVersion(u)
  BY <1>a, <1>b, <1>4, InsertEffect DEF Exists
<1>7. ~BeginsUndoing(u)
  BY <1>a, <1>b, <1>4, UploaderMoveEffect DEF Storing
<1> QED BY <1>a, <1>b, <1>2, <1>4, <1>5, <1>6, <1>7, UploaderFiles

\* No step takes a fault back.
LEMMA FaultsCounted ==
    ASSUME [Next]_vars
    PROVE  faults' = faults \/ faults' = faults + 1
<1>1. ASSUME NEW w \in Workers, WorkerMoves(w)
      PROVE  faults' = faults \/ faults' = faults + 1
  BY <1>1 DEF WorkerMoves, Work, WorkFault, WorkerStep, WorkerFault, Receive, SkipDelivery,
     Claim, NotClaimable, StartProcessing, LostRace, Resume, Parse, EnsureCollection, IndexDense,
     IndexSparse, Verify, MakeReady, Publish, Retry, FailJob, BeginFail, Fail, Overtaken,
     Acknowledge, Crash, Abandon, AbortWork, catalogVars, Fault
<1>2. ASSUME NEW k \in Cleaners, CleanerMoves(k)
      PROVE  faults' = faults \/ faults' = faults + 1
  BY <1>2 DEF CleanerMoves, Clean, CleanFault, CleanerStep, CleanerFault, Purge, DropPoints,
     DropFile, CheckStatus, MarkDeleted, PurgeConflict, FinishPurge, PurgeRefused, PurgeExhausted,
     PurgeRetry, PurgeLost, catalogVars, Fault
<1>3. ASSUME NEW r \in Deleters, DeleterSteps(r)
      PROVE  faults' = faults \/ faults' = faults + 1
  BY <1>3 DEF DeleterSteps, DeleterMoves, RequestDelete, HandleDelete, FailDelete, DeleteRequest,
     DeleterStep, AbortDelete, DeleteAgain, Delete, MarkDeleting, DeleteConflict, Tombstone,
     EnqueueCleanup, DeleteFault, catalogVars, Fault
<1>4. ASSUME NEW u \in Uploaders, UploaderSteps(u)
      PROVE  faults' = faults \/ faults' = faults + 1
  BY <1>4 DEF UploaderSteps, UploaderMoves, RequestUpload, HandleUpload, FailUpload,
     UploadRequest, UploaderStep, UploaderFault, AbortUpload, UploadFailed, UploadDocument,
     UploadVersion, NumberVersion, PutFile, InsertVersion, InsertRefused, UndoUpload,
     UndoAndRequeue, EnqueueIngestion, UploadCrash, PutFails, InsertFails, UndoFails, catalogVars,
     Fault
<1>5. UNCHANGED vars => faults' = faults
  BY DEF vars, catalogVars
<1> QED BY <1>1, <1>2, <1>3, <1>4, <1>5, NextCases

\* A finite set that gains one element at most counts one more at most.
LEMMA AtMostOneMore ==
    ASSUME NEW S, NEW T, NEW x, IsFiniteSet(S), T \subseteq S \cup {x}
    PROVE  /\ IsFiniteSet(T) /\ Cardinality(S) \in Nat /\ Cardinality(T) \in Nat
           /\ Cardinality(T) <= Cardinality(S) + 1
           /\ T \subseteq S => Cardinality(T) <= Cardinality(S)
<1>1. /\ IsFiniteSet(S \cup {x}) /\ Cardinality(S) \in Nat
      /\ Cardinality(S \cup {x}) <= Cardinality(S) + 1
  <2>1. Cardinality(S) \in Nat
    BY FS_CardinalityType
  <2>2. /\ IsFiniteSet(S \cup {x})
        /\ Cardinality(S \cup {x}) = IF x \in S THEN Cardinality(S) ELSE Cardinality(S) + 1
    BY FS_AddElement
  <2> QED BY <2>1, <2>2
<1>2. IsFiniteSet(T) /\ Cardinality(T) \in Nat /\ Cardinality(T) <= Cardinality(S \cup {x})
  BY <1>1, FS_Subset, FS_CardinalityType
<1>3. T \subseteq S => Cardinality(T) <= Cardinality(S)
  BY FS_Subset
<1>4. Cardinality(S \cup {x}) \in Nat
  BY <1>1, FS_CardinalityType
<1> QED BY <1>1, <1>2, <1>3, <1>4

\* A step leaves one stray at most, and then it is a fault.
LEMMA StraysCountedStep ==
    ASSUME StrongInv, [Next]_vars
    PROVE  StraysCounted'
<1> DEFINE S == {v \in Versions : Stray(v)}
           T == {v \in Versions : Stray(v)'}
<1>a. IsFiniteSet(S) /\ Cardinality(S) <= faults /\ faults \in Nat
  BY DEF StrongInv, StraysCounted, IInv, TypeOK, CatalogTypeOK
<1>1. \E x : T \subseteq S \cup {x} /\ (T \subseteq S \/ faults' = faults + 1)
  <2>1. CASE T \subseteq S
    BY <2>1
  <2>2. CASE ~(T \subseteq S)
    <3>1. PICK u \in Uploaders : UploadCrash(u) \/ UndoFails(u)
      BY <2>2, StrayByUpload
    <3>2. faults' = faults + 1
      BY <3>1 DEF UploadCrash, UndoFails, Fault
    <3>3. ASSUME NEW v \in T \ S
          PROVE  \E x \in Uploaders : (UploadCrash(x) \/ UndoFails(x)) /\ v = uploader[x].version
      BY <3>3, StrayByUpload
    <3>4. ASSUME NEW x \in Uploaders, UploadCrash(x) \/ UndoFails(x)
          PROVE  x = u
      <4>1. uploader'[x] # uploader[x]
        BY <3>4 DEF StrongInv, IInv, TypeOK, UploadTypeOK, UploadCrash, UndoFails, IdleUpload,
                    Undoing, Fault
      <4>2. uploader' = [uploader EXCEPT ![u] = IdleUpload]
        BY <3>1 DEF UploadCrash, UndoFails
      <4> QED BY <4>1, <4>2 DEF StrongInv, IInv, TypeOK, UploadTypeOK
    <3>5. T \subseteq S \cup {uploader[u].version}
      BY <3>3, <3>4
    <3> QED BY <3>2, <3>5
  <2> QED BY <2>1, <2>2
<1>2. PICK x : T \subseteq S \cup {x} /\ (T \subseteq S \/ faults' = faults + 1)
  BY <1>1
<1>3. faults' = faults \/ faults' = faults + 1
  BY FaultsCounted
<1>4. IsFiniteSet(T) /\ Cardinality(T) <= faults'
  <2> HIDE DEF S, T
  <2>1. /\ IsFiniteSet(T) /\ Cardinality(S) \in Nat /\ Cardinality(T) \in Nat
        /\ Cardinality(T) <= Cardinality(S) + 1
        /\ T \subseteq S => Cardinality(T) <= Cardinality(S)
    BY <1>a, <1>2, AtMostOneMore
  <2>2. T \subseteq S \/ faults' = faults + 1
    BY <1>2
  <2> QED BY <1>a, <1>3, <2>1, <2>2
<1> QED BY <1>4 DEF StraysCounted

-----------------------------------------------------------------------------
(***************************************************************************)
(* The invariant                                                           *)
(***************************************************************************)
LEMMA InitStrong == Init => StrongInv
<1> SUFFICES ASSUME Init PROVE StrongInv
  OBVIOUS
<1>1. IInv
  BY InitInv
<1>2. RowsHeld
  <2>1. None \notin Workers
    BY ProcessesDistinct
  <2> QED BY <2>1 DEF Init, CatalogInit, WorkerInit, IdleWorker, DeletionInit, IdleDeletion,
                      RowsHeld, Processing, Claimed, Indexing, Failing, At
<1>3. FilesFollowed
  BY DEF Init, CatalogInit, UploadInit, IdleUpload, DeletionInit, IdleDeletion, FilesFollowed
<1>4. StraysCounted
  <2>1. {v \in Versions : Stray(v)} = {} /\ faults = 0
    BY DEF Init, CatalogInit, Stray
  <2> QED BY <2>1, FS_EmptySet DEF StraysCounted
<1> QED BY <1>1, <1>2, <1>3, <1>4 DEF StrongInv

LEMMA StepStrong == StrongInv /\ [Next]_vars => StrongInv'
<1> SUFFICES ASSUME StrongInv, [Next]_vars PROVE StrongInv'
  OBVIOUS
<1>1. IInv'
  BY StepInv DEF StrongInv
<1> QED BY <1>1, RowsHeldStep, FilesFollowedStep, StraysCountedStep DEF StrongInv

\* The invariant holds in every reachable state: an open transaction has the row of
\* every version that it is about to move, and every stored file is followed, except
\* for as many as there were faults.
THEOREM StrongInvariance == Spec => []StrongInv
BY InitStrong, StepStrong, PTL DEF Spec

\* Every stored PDF belongs to a version that is not purged or to an upload in progress,
\* except for one at most per fault: uploads that are refused, fail in the store or in
\* the database or are aborted, and cleanups that meet, leave none of their own.
THEOREM NothingIsOrphaned == Spec => []OrphansCostFaults
<1>1. ASSUME StrongInv PROVE OrphansCostFaults
  <2> DEFINE S == {v \in Versions : Stray(v)}
             T == {v \in files : Orphaned(v)}
  <2>1. IsFiniteSet(S) /\ Cardinality(S) <= faults /\ faults \in Nat
    BY <1>1 DEF StrongInv, StraysCounted, IInv, TypeOK, CatalogTypeOK
  <2>2. T \subseteq S
    <3>1. files \subseteq Versions /\ FilesFollowed
      BY <1>1 DEF StrongInv, IInv, TypeOK, CatalogTypeOK, StoresTypeOK
    <3> QED BY <3>1 DEF FilesFollowed, Orphaned, Stray, Exists
  <2>3. Cardinality(T) <= faults
    <3> HIDE DEF S, T
    <3> QED BY <2>1, <2>2, AtMostOneMore
  <2> QED BY <2>3 DEF OrphansCostFaults
<1> QED BY <1>1, StrongInvariance, PTL

-----------------------------------------------------------------------------
(***************************************************************************)
(* Work that is lost                                                       *)
(***************************************************************************)
\* What the record of a cleanup holds after each of its steps.
LEMMA CleanerRecord ==
    ASSUME TypeOK, NEW k \in Cleaners, CleanerMoves(k)
    PROVE  \/ \E d \in Documents :
                /\ Purge(k, d) /\ cleaner'[k].pc = "points"
                /\ cleaner'[k].todo = VersionsOf(d) \ WithStatus(Versions, {"DELETED"})
           \/ \E x \in Versions :
                /\ DropPoints(k, x) \/ DropFile(k, x)
                /\ cleaner'[k].pc \in {"file", "check"}
                /\ cleaner'[k].todo = cleaner[k].todo /\ cleaner'[k].marked = cleaner[k].marked
           \/ \E x \in Versions :
                /\ CheckStatus(k, x) /\ cleaner'[k].marked = cleaner[k].marked
                /\ \/ /\ version[x].status = "DELETING" /\ cleaner'[k].pc = "mark"
                      /\ cleaner'[k].todo = cleaner[k].todo
                   \/ /\ version[x].status # "DELETING" /\ cleaner'[k].pc = "points"
                      /\ cleaner'[k].todo = cleaner[k].todo \ {x}
           \/ \E x \in Versions :
                /\ MarkDeleted(k, x) /\ cleaner'[k].pc = "points"
                /\ cleaner'[k].todo = cleaner[k].todo \ {x}
                /\ cleaner'[k].marked = cleaner[k].marked \cup {x}
           \/ /\ \/ \E x \in Versions : PurgeConflict(k, x)
                 \/ FinishPurge(k) \/ PurgeRefused(k) \/ PurgeExhausted(k)
                 \/ PurgeRetry(k) \/ PurgeLost(k)
              /\ cleaner'[k].pc = "idle"
<1>a. /\ cleaner \in [Cleaners -> DeletionRecord({"points", "file", "check", "mark"})]
      /\ cleaner[k].pc # "idle" =>
           cleaner[k] \in [pc : {"points", "file", "check", "mark"}, document : Documents,
                           todo : SUBSET Versions, chosen : SUBSET Versions,
                           marked : SUBSET Versions]
  BY DeletionTyped DEF TypeOK, DeletionTypeOK
<1>1. ASSUME NEW d \in Documents, Purge(k, d)
      PROVE  /\ cleaner'[k].pc = "points"
             /\ cleaner'[k].todo = VersionsOf(d) \ WithStatus(Versions, {"DELETED"})
  BY <1>1, <1>a DEF Purge, WithStatus, VersionsOf
<1>2. ASSUME NEW x \in Versions, DropPoints(k, x) \/ DropFile(k, x)
      PROVE  /\ cleaner'[k].pc \in {"file", "check"}
             /\ cleaner'[k].todo = cleaner[k].todo /\ cleaner'[k].marked = cleaner[k].marked
  <2>1. /\ cleaner[k].pc # "idle"
        /\ \E pc \in {"file", "check"} : cleaner'[k] = [cleaner[k] EXCEPT !.pc = pc]
    BY <1>2, <1>a DEF DropPoints, DropFile
  <2> QED BY <1>a, <2>1
<1>3. ASSUME NEW x \in Versions, CheckStatus(k, x)
      PROVE  /\ cleaner'[k].marked = cleaner[k].marked
             /\ \/ /\ version[x].status = "DELETING" /\ cleaner'[k].pc = "mark"
                   /\ cleaner'[k].todo = cleaner[k].todo
                \/ /\ version[x].status # "DELETING" /\ cleaner'[k].pc = "points"
                   /\ cleaner'[k].todo = cleaner[k].todo \ {x}
  <2>1. /\ cleaner[k].pc # "idle"
        /\ \/ /\ version[x].status = "DELETING"
              /\ cleaner'[k] = [cleaner[k] EXCEPT !.pc = "mark"]
           \/ /\ version[x].status # "DELETING"
              /\ cleaner'[k] = [cleaner[k] EXCEPT !.pc = "points", !.todo = @ \ {x}]
    BY <1>3, <1>a DEF CheckStatus
  <2> QED BY <1>a, <2>1
<1>4. ASSUME NEW x \in Versions, MarkDeleted(k, x)
      PROVE  /\ cleaner'[k].pc = "points" /\ cleaner'[k].todo = cleaner[k].todo \ {x}
             /\ cleaner'[k].marked = cleaner[k].marked \cup {x}
  <2>1. /\ cleaner[k].pc # "idle"
        /\ cleaner'[k] = [cleaner[k] EXCEPT !.pc = "points", !.todo = @ \ {x},
                                            !.marked = @ \cup {x}]
    BY <1>4, <1>a DEF MarkDeleted
  <2> QED BY <1>a, <2>1
<1>5. (\E x \in Versions : PurgeConflict(k, x)) \/ FinishPurge(k) \/ PurgeRefused(k)
        \/ PurgeExhausted(k) \/ PurgeRetry(k) \/ PurgeLost(k)
         => cleaner'[k].pc = "idle"
  BY <1>a DEF PurgeConflict, FinishPurge, PurgeRefused, PurgeExhausted, PurgeRetry, PurgeLost,
              IdleDeletion
<1> QED
  BY <1>1, <1>2, <1>3, <1>4, <1>5 DEF CleanerMoves, Clean, CleanFault, CleanerStep, CleanerFault

\* A worker that carries a version goes on to do so while another transaction moves.
LEMMA CarriesStays ==
    ASSUME LocksTypeOK, NEW t \in Transactions, LockStep(t), NEW w \in Workers, w # t,
           worker'[w] = worker[w], NEW v \in Versions,
           version'[v].status = version[v].status, Carries(w, v)
    PROVE  Carries(w, v)'
<1>1. versionLock[v] = w => versionLock'[v] = w
  BY OthersKeepLocks, ProcessesDistinct
<1> QED BY <1>1 DEF Carries, IsProcessing

\* A step that ends a delivery leaves the version settled, or its message back in the
\* queue, or the version with another worker that carries it, unless it loses it.
LEMMA DeliveryEnds ==
    ASSUME StrongInv, QueuesTypeOK', NEW w \in Workers, WorkerMoves(w), NEW v \in Versions,
           v = worker[w].version, worker[w].pc # "idle", worker'[w].pc \in {"idle", "ack"},
           job'[v].status = "PENDING", ingestQueue'[v] = 0
    PROVE  \/ Abandon(w) \/ AbortWork(w)
           \/ /\ UNCHANGED <<version, ingestQueue>> /\ ~Carries(w, v)
              /\ job[v].status = "PENDING"
<1>a. TypeOK /\ RowsTypeOK /\ QueuesTypeOK /\ ClaimHeld
  BY DEF StrongInv, IInv, TypeOK, CatalogTypeOK
<1>b. WorkerTypeOK /\ w \in Workers
  BY <1>a DEF TypeOK
<1>1. ~Redeliver(v)
  BY <1>a DEF Redeliver, WakeIngestion, Push, QueuesTypeOK
<1>2. ~(Retry(w) \/ Crash(w))
  BY <1>1 DEF Retry, Crash
<1>3. ~SaveJob(v, "FAILED") /\ ~SaveJob(v, "SUCCEEDED")
  BY <1>a DEF SaveJob, RowsTypeOK, JobRow
<1>4. ~(FailJob(w) \/ Fail(w) \/ Publish(w))
  BY <1>3 DEF FailJob, Fail, Publish
<1>5. CASE LostRace(w)
  <2>1. job[v].status = "PENDING"
    BY <1>a, <1>5 DEF LostRace, At, ClaimHeld, Claimed
  <2> QED BY <1>5, <2>1 DEF LostRace, queues, Carries
<1>6. CASE Overtaken(w)
  <2>1. job[v].status = "PENDING" /\ UNCHANGED <<version, ingestQueue>>
    BY <1>6 DEF Overtaken, rows, queues
  <2> QED BY <1>6, <2>1 DEF Overtaken, Carries
<1>7. CASE NotClaimable(w) \/ Acknowledge(w)
  BY <1>7 DEF NotClaimable, Claimable, Acknowledge, At, Carries, catalogVars, rows, queues
<1>8. ASSUME Receive(w, v) \/ Claim(w) \/ StartProcessing(w) \/ Resume(w) \/ Parse(w)
                \/ IndexDense(w) \/ IndexSparse(w) \/ Verify(w) \/ MakeReady(w) \/ BeginFail(w)
      PROVE  FALSE
  <2>1. \E pc \in {"claimed"} \cup Indexing \cup Failing \cup {"finalize", "publish"} : \E chunks :
           GoTo(w, pc) \/ Stage(w, pc, chunks)
    BY <1>8 DEF Receive, Claim, StartProcessing, Resume, Parse, IndexDense, IndexSparse, Verify,
       MakeReady, BeginFail, Indexing, Failing, At
  <2> QED BY <1>b, <2>1, MoveEffect DEF Indexing, Failing
<1>9. ASSUME NEW x \in Versions, Receive(w, x) \/ SkipDelivery(w, x)
      PROVE  FALSE
  BY <1>9 DEF Receive, SkipDelivery, At
<1>10. ~EnsureCollection(w)
  BY DEF EnsureCollection, At
<1> QED
  BY <1>2, <1>4, <1>5, <1>6, <1>7, <1>8, <1>9, <1>10
     DEF WorkerMoves, Work, WorkFault, WorkerStep, WorkerFault

\* A step that goes on with a delivery goes on carrying the version.
LEMMA DeliveryGoesOn ==
    ASSUME StrongInv, RowsHeld', NEW w \in Workers, WorkerMoves(w), NEW v \in Versions,
           v = worker[w].version, worker[w].pc # "idle", worker'[w].pc \notin {"idle", "ack"}
    PROVE  /\ UNCHANGED <<version, job, ingestQueue>>
           /\ Carries(w, v) => Carries(w, v)'
<1>a. TypeOK /\ WorkerTypeOK /\ w \in Workers
  BY DEF StrongInv, IInv, TypeOK
<1>1. ~(NotClaimable(w) \/ LostRace(w) \/ Publish(w) \/ Retry(w) \/ FailJob(w) \/ Fail(w)
           \/ Overtaken(w) \/ Acknowledge(w) \/ Crash(w) \/ Abandon(w) \/ AbortWork(w))
  BY <1>a, MoveEffect DEF NotClaimable, LostRace, Publish, Retry, FailJob, Fail, Overtaken,
     Acknowledge, Crash, Abandon, AbortWork
<1>2. ASSUME NEW x \in Versions, Receive(w, x) \/ SkipDelivery(w, x)
      PROVE  FALSE
  BY <1>2 DEF Receive, SkipDelivery, At
<1>3. \/ Claim(w) \/ StartProcessing(w) \/ Resume(w) \/ Parse(w)
      \/ EnsureCollection(w) \/ IndexDense(w) \/ IndexSparse(w) \/ Verify(w)
      \/ MakeReady(w) \/ BeginFail(w)
  BY <1>1, <1>2 DEF WorkerMoves, Work, WorkFault, WorkerStep, WorkerFault
<1>4. UNCHANGED <<version, job, ingestQueue>>
  BY <1>3 DEF Claim, StartProcessing, Resume, Parse, EnsureCollection, IndexDense, IndexSparse,
     Verify, MakeReady, BeginFail, catalogVars, rows, queues
<1>5. worker'[w].version = v /\ worker'[w].seen = worker[w].seen
  <2>1. CASE EnsureCollection(w)
    BY <2>1 DEF EnsureCollection
  <2>2. CASE ~EnsureCollection(w)
    <3>1. \E pc, chunks : GoTo(w, pc) \/ Stage(w, pc, chunks)
      BY <1>3, <2>2 DEF Claim, StartProcessing, Resume, Parse, IndexDense, IndexSparse, Verify,
         MakeReady, BeginFail
    <3> QED BY <1>a, <3>1, MoveEffect, MoveKeepsSeen
  <2> QED BY <2>1, <2>2
<1>6. ASSUME Carries(w, v), worker'[w].pc \in Failing \cup {"finalize"}
      PROVE  IsProcessing(w, v)'
  <2>1. CASE worker'[w].seen = "PROCESSING"
    BY <1>4, <1>5, <1>6, <2>1 DEF Carries, IsProcessing
  <2>2. CASE worker'[w].seen = "QUEUED" /\ worker'[w].pc = "finalize"
    <3>1. versionLock'[v] = w
      BY <1>5, <2>2 DEF RowsHeld, Processing, Claimed, Failing
    <3> QED BY <2>2, <3>1 DEF IsProcessing
  <2>3. CASE worker'[w].pc \in Failing
    <3>1. BeginFail(w)
      <4>1. \E pc \in {"claimed", "parse", "dense", "sparse", "verify", "finalize", "publish"} : \E chunks :
               ~BeginFail(w) /\ ~EnsureCollection(w) => GoTo(w, pc) \/ Stage(w, pc, chunks)
        BY <1>3 DEF Claim, StartProcessing, Resume, Parse, IndexDense, IndexSparse, Verify, MakeReady
      <4>2. ~EnsureCollection(w)
        BY <2>3 DEF EnsureCollection, At, Failing
      <4> QED BY <1>a, <2>3, <4>1, <4>2, MoveEffect DEF Failing
    <3>2. IsProcessing(w, v) /\ UNCHANGED <<version, versionLock>>
      BY <3>1 DEF BeginFail, catalogVars, rows, locks
    <3> QED BY <1>5, <3>2 DEF IsProcessing
  <2>4. worker[w].seen \in Ingestible
    BY <1>a, SeenTyped
  <2> QED BY <1>5, <1>6, <2>1, <2>2, <2>3, <2>4 DEF Ingestible
<1> QED BY <1>4, <1>5, <1>6 DEF Carries

\* A worker leaves a version unattended only by an error that no handler catches.
LEMMA UnattendedByWorker ==
    ASSUME StrongInv, StrongInv', NEW w \in Workers, WorkerMoves(w), NEW v \in Versions,
           Unattended(v)', ~Unattended(v)
    PROVE  (Abandon(w) \/ AbortWork(w)) /\ v = worker[w].version
<1>a. /\ TypeOK /\ LocksTypeOK /\ QueuesTypeOK /\ QueuesTypeOK' /\ RowsHeld'
      /\ w \in Transactions /\ LockStep(w)
  BY LockSteps DEF StrongInv, IInv, TypeOK, CatalogTypeOK, Transactions
<1>b. /\ job'[v].status = "PENDING" /\ version'[v].status \in Ingestible /\ ingestQueue'[v] = 0
      /\ \A x \in Workers : ~Carries(x, v)'
      /\ \A u \in Uploaders : uploader[u].pc = "wake" => uploader[u].version # v
  BY <1>a, WorkerFrame DEF Unattended
<1>1. ASSUME version'[v].status = version[v].status, job[v].status = "PENDING",
             ingestQueue[v] = 0, ~Carries(w, v)
      PROVE  FALSE
  <2>1. ASSUME NEW x \in Workers PROVE ~Carries(x, v)
    BY <1>a, <1>b, <1>1, CarriesStays, WorkerFrame
  <2> QED BY <1>b, <1>1, <2>1 DEF Unattended
<1>2. CASE worker[w].pc = "idle"
  <2>1. PICK x \in Versions : Receive(w, x) \/ SkipDelivery(w, x)
    BY <1>2 DEF WorkerMoves, Work, WorkFault, WorkerStep, WorkerFault, Claim, NotClaimable,
       StartProcessing, LostRace, Resume, Parse, EnsureCollection, IndexDense, IndexSparse, Verify,
       MakeReady, Publish, Retry, FailJob, BeginFail, Fail, Overtaken, Acknowledge, Crash, Abandon,
       AbortWork, At, CanFail, Indexing, Failing
  <2>2. UNCHANGED <<version, job>> /\ ~Carries(w, v)
    BY <1>2, <2>1 DEF Receive, SkipDelivery, rows, Carries
  <2>3. CASE x = v
    <3>1. Receive(w, v)
      BY <1>b, <2>1, <2>2, <2>3 DEF SkipDelivery
    <3>2. worker'[w] = [pc |-> "claim", version |-> v, seen |-> version[v].status, left |-> {}]
      BY <1>a, <3>1 DEF Receive, TypeOK, WorkerTypeOK
    <3> QED BY <1>b, <2>2, <3>2 DEF Carries, Failing
  <2>4. CASE x # v
    <3>1. ingestQueue'[v] = ingestQueue[v]
      BY <1>a, <2>1, <2>4 DEF Receive, SkipDelivery, Pop, QueuesTypeOK
    <3> QED BY <1>1, <1>b, <2>2, <3>1
  <2> QED BY <2>3, <2>4
<1>3. CASE worker[w].pc # "idle" /\ v # worker[w].version
  <2>1. version'[v] = version[v] /\ job'[v] = job[v] /\ ~Carries(w, v)
    BY <1>a, <1>3, WorkerRows DEF Carries
  <2>2. ingestQueue'[v] = ingestQueue[v]
    BY <1>a, <1>3 DEF WorkerMoves, Work, WorkFault, WorkerStep, WorkerFault, Receive, SkipDelivery,
       Claim, NotClaimable, StartProcessing, LostRace, Resume, Parse, EnsureCollection, IndexDense,
       IndexSparse, Verify, MakeReady, Publish, Retry, FailJob, BeginFail, Fail, Overtaken,
       Acknowledge, Crash, Abandon, AbortWork, At, Redeliver, WakeIngestion, Push, QueuesTypeOK,
       queues, catalogVars
  <2> QED BY <1>1, <1>b, <2>1, <2>2
<1>4. CASE worker[w].pc # "idle" /\ v = worker[w].version
  <2>1. CASE worker'[w].pc \in {"idle", "ack"}
    BY <1>1, <1>a, <1>b, <1>4, <2>1, DeliveryEnds
  <2>2. CASE worker'[w].pc \notin {"idle", "ack"}
    BY <1>1, <1>a, <1>b, <1>4, <2>2, DeliveryGoesOn
  <2> QED BY <2>1, <2>2
<1> QED BY <1>2, <1>3, <1>4

\* Requests to delete and cleanups leave no version unattended: what they write, no
\* worker would take on.
LEMMA UnattendedByDeletion ==
    ASSUME StrongInv, NEW t \in Cleaners \cup Deleters,
           \/ t \in Cleaners /\ CleanerMoves(t)
           \/ t \in Deleters /\ DeleterSteps(t),
           NEW v \in Versions, Unattended(v)'
    PROVE  Unattended(v)
<1>a. TypeOK /\ LocksTypeOK /\ t \in Transactions /\ LockStep(t) /\ t \notin Workers
  BY LockSteps, ProcessesDistinct DEF StrongInv, IInv, TypeOK, CatalogTypeOK, Transactions
<1>1. UNCHANGED <<worker, uploader, job, ingestQueue>>
  <2>1. UNCHANGED ingestQueue
    BY DEF CleanerMoves, Clean, CleanFault, CleanerStep, CleanerFault, Purge,
       DropPoints, DropFile, CheckStatus, MarkDeleted, PurgeConflict, FinishPurge, PurgeRefused,
       PurgeExhausted, PurgeRetry, PurgeLost, DeleterSteps, DeleterMoves, RequestDelete,
       HandleDelete, FailDelete, DeleteRequest, DeleterStep, AbortDelete, DeleteAgain, Delete,
       MarkDeleting, DeleteConflict, Tombstone, EnqueueCleanup, DeleteFault, queues, catalogVars
  <2> QED BY <1>a, <2>1, CleanerFrame, DeleterFrame
<1>2. version'[v].status = version[v].status
  BY <1>a, CleanerRows, DeleterRows DEF Unattended, Ingestible
<1>3. ASSUME NEW w \in Workers PROVE ~Carries(w, v)
  BY <1>a, <1>1, <1>2, CarriesStays DEF Unattended
<1> QED BY <1>1, <1>2, <1>3 DEF Unattended

\* An upload leaves a version unattended only when it fails before it wakes the
\* worker: it wakes one for every version that it has inserted or queued again.
LEMMA UnattendedByUploader ==
    ASSUME StrongInv, QueuesTypeOK', NEW u \in Uploaders, UploaderSteps(u), NEW v \in Versions,
           Unattended(v)', ~Unattended(v)
    PROVE  UploadCrash(u) /\ uploader[u].pc = "wake" /\ v = uploader[u].version
<1>a. /\ TypeOK /\ LocksTypeOK /\ RowsTypeOK /\ QueuesTypeOK /\ UploadTypeOK
      /\ u \in Transactions /\ LockStep(u) /\ u \notin Workers
  BY LockSteps, ProcessesDistinct DEF StrongInv, IInv, TypeOK, CatalogTypeOK, Transactions
<1>b. \A x \in Versions : \A up : up = [IdleUpload EXCEPT !.pc = "wake", !.version = x] =>
         up.pc = "wake" /\ up.version = x
  BY DEF IdleUpload
<1>1. \A x \in Uploaders : uploader'[x].pc = "wake" => uploader'[x].version # v
  BY DEF Unattended
<1>2. ASSUME NEW e \in Versions, Requeue(e, u),
             uploader' = [uploader EXCEPT ![u] = [IdleUpload EXCEPT !.pc = "wake", !.version = e]]
      PROVE  version'[v] = version[v] /\ job'[v] = job[v]
  <2>1. e # v
    BY <1>1, <1>2, <1>a, <1>b DEF UploadTypeOK
  <2> QED BY <1>2, <1>a, <2>1 DEF Requeue, RowsTypeOK
<1>3. version'[v] = version[v] /\ job'[v] = job[v]
  <2>1. CASE InsertVersion(u)
    <3>1. uploader[u].version # v
      BY <1>1, <1>a, <1>b, <2>1 DEF InsertVersion, UploadTypeOK
    <3> QED BY <1>a, <2>1, <3>1 DEF InsertVersion, RowsTypeOK
  <2>2. CASE (\E e \in Versions : UploadFailed(u, e)) \/ UndoAndRequeue(u)
    BY <1>2, <2>2 DEF UploadFailed, UndoAndRequeue, FailedWithHash, WithHash
  <2>3. CASE ~(InsertVersion(u) \/ (\E e \in Versions : UploadFailed(u, e)) \/ UndoAndRequeue(u))
    BY <2>3 DEF UploaderSteps, UploaderMoves, RequestUpload, HandleUpload, FailUpload,
       UploadRequest, UploaderStep, UploaderFault, AbortUpload, UploadDocument, UploadVersion,
       NumberVersion, PutFile, InsertRefused, UndoUpload, EnqueueIngestion, UploadCrash, PutFails,
       InsertFails, UndoFails, rows, catalogVars
  <2> QED BY <2>1, <2>2, <2>3
<1>4. ASSUME NEW w \in Workers PROVE ~Carries(w, v)
  BY <1>a, <1>3, CarriesStays, UploaderFrame DEF Unattended
<1>5. ~EnqueueIngestion(u) => UNCHANGED ingestQueue
  BY DEF UploaderSteps, UploaderMoves, RequestUpload, HandleUpload, FailUpload,
     UploadRequest, UploaderStep, UploaderFault, AbortUpload, UploadFailed, UploadDocument,
     UploadVersion, NumberVersion, PutFile, InsertVersion, InsertRefused, UndoUpload,
     UndoAndRequeue, UploadCrash, PutFails, InsertFails, UndoFails, queues, catalogVars
<1>6. EnqueueIngestion(u) => ingestQueue'[v] = ingestQueue[v] /\ uploader[u].version # v
  BY <1>a DEF EnqueueIngestion, WakeIngestion, Push, QueuesTypeOK, Unattended
<1>7. ingestQueue[v] = 0
  BY <1>5, <1>6 DEF Unattended
<1>8. PICK x \in Uploaders : uploader[x].pc = "wake" /\ uploader[x].version = v
  BY <1>3, <1>4, <1>7 DEF Unattended
<1>9. x = u
  BY <1>a, <1>1, <1>8, UploaderFrame
<1>10. EnqueueIngestion(u) \/ UploadCrash(u)
  BY <1>8, <1>9 DEF UploaderSteps, UploaderMoves, RequestUpload, HandleUpload, FailUpload,
     UploadRequest, UploaderStep, UploaderFault, AbortUpload, UploadFailed, UploadDocument,
     UploadVersion, NumberVersion, PutFile, InsertVersion, InsertRefused, UndoUpload,
     UndoAndRequeue, PutFails, InsertFails, UndoFails, Undoing
<1> QED BY <1>6, <1>8, <1>9, <1>10

\* What is so before a step after which a deleted document is uncleaned.
LEMMA UncleanedBefore ==
    ASSUME StrongInv, [Next]_vars, NEW d \in Documents, Uncleaned(d)'
    PROVE  /\ Deleted(d)
           /\ \E v \in WithStatus(VersionsOf(d), {"DELETING"}) :
                 /\ version'[v].status = "DELETING"
                 /\ \A k \in Cleaners : v \notin cleaner'[k].todo \cup cleaner'[k].marked
<1>a. /\ IInv /\ TypeOK /\ RowsTypeOK /\ VersionsHaveDocuments /\ CleanupsOfDeleted /\ DeletionTypeOK
      /\ d # None
  BY ProcessesDistinct DEF StrongInv, IInv, TypeOK, CatalogTypeOK
<1>b. \A v \in Versions : Exists(v) => version'[v].document = version[v].document
  BY <1>a, Monotone
<1>c. /\ document'[d].state = "deleted"
      /\ \A r \in Deleters : deleter'[r].pc = "wake" => deleter'[r].document # d
  BY DEF Uncleaned, Deleted
<1>1. ASSUME NEW r \in Deleters, DeleterSteps(r), Tombstone(r)
      PROVE  deleter[r].document # d
  BY <1>a, <1>c, <1>1 DEF Tombstone, AskCleanup, IdleDeletion, DeletionTypeOK
<1>2. Deleted(d)
  <2>1. CASE \E w \in Workers : WorkerMoves(w)
    BY <1>a, <1>c, <2>1, PublishDocument DEF Deleted
  <2>2. CASE \E k \in Cleaners : CleanerMoves(k)
    BY <1>a, <1>c, <2>2, CleanerFrame DEF Deleted
  <2>3. CASE \E r \in Deleters : DeleterSteps(r)
    BY <1>a, <1>c, <1>1, <2>3, DeleterRows DEF Deleted, RowsTypeOK
  <2>4. CASE \E u \in Uploaders : UploaderSteps(u)
    BY <1>a, <1>c, <2>4, UploaderRows DEF Deleted
  <2>5. CASE UNCHANGED vars
    BY <1>c, <2>5 DEF Deleted, vars, catalogVars, rows
  <2> QED BY <2>1, <2>2, <2>3, <2>4, <2>5, NextCases
<1>3. PICK v \in Versions :
         /\ version'[v].document = d /\ version'[v].status = "DELETING"
         /\ \A k \in Cleaners : v \notin cleaner'[k].todo \cup cleaner'[k].marked
  BY DEF Uncleaned, WithStatus, VersionsOf
<1>4. version[v].status = "DELETING"
  <2>1. CASE \E w \in Workers : WorkerMoves(w)
    BY <1>a, <1>3, <2>1, WorkerRows
  <2>2. CASE \E k \in Cleaners : CleanerMoves(k)
    BY <1>a, <1>3, <2>2, CleanerRows
  <2>3. ASSUME NEW r \in Deleters, DeleterSteps(r)
        PROVE  version[v].status = "DELETING"
    <3>1. ASSUME Tombstone(r), v \in deleter[r].marked
          PROVE  FALSE
      <4>1. version[v].document = deleter[r].document /\ deleter[r].document \in Documents
        BY <1>a, <3>1, DeletionTyped DEF Tombstone, CleanupsOfDeleted, DeletionTypeOK
      <4>2. Exists(v)
        BY <1>a, <4>1, ProcessesDistinct DEF VersionsHaveDocuments
      <4> QED BY <1>1, <1>b, <1>3, <2>3, <3>1, <4>1, <4>2
    <3> QED BY <1>a, <1>3, <2>3, <3>1, DeleterRows
  <2>4. CASE \E u \in Uploaders : UploaderSteps(u)
    BY <1>a, <1>3, <2>4, UploaderRows, InsertEffect
  <2>5. CASE UNCHANGED vars
    BY <1>3, <2>5 DEF vars, catalogVars, rows
  <2> QED BY <2>1, <2>2, <2>3, <2>4, <2>5, NextCases
<1>5. version[v].document = d
  BY <1>b, <1>3, <1>4 DEF Exists
<1> QED BY <1>2, <1>3, <1>4, <1>5 DEF WithStatus, VersionsOf

\* Workers and uploads leave no cleanup undone.
LEMMA UncleanedByOthers ==
    ASSUME StrongInv, [Next]_vars, NEW t \in Workers \cup Uploaders,
           \/ t \in Workers /\ WorkerMoves(t)
           \/ t \in Uploaders /\ UploaderSteps(t),
           NEW d \in Documents, Uncleaned(d)'
    PROVE  Uncleaned(d)
<1>1. UNCHANGED <<deleter, cleaner, cleanupQueue>>
  BY WorkerFrame, UploaderFrame DEF StrongInv, IInv
<1> QED BY <1>1, UncleanedBefore DEF Uncleaned

\* A cleanup leaves a document uncleaned only by an error that does not retry it.
LEMMA UncleanedByCleaner ==
    ASSUME StrongInv, QueuesTypeOK', [Next]_vars,
           NEW k \in Cleaners, CleanerMoves(k), NEW d \in Documents, Uncleaned(d)', ~Uncleaned(d)
    PROVE  /\ d = cleaner[k].document
           /\ \/ PurgeLost(k) \/ PurgeExhausted(k)
              \/ \E x \in Versions : PurgeConflict(k, x)
<1>a. /\ TypeOK /\ QueuesTypeOK /\ DeletionTypeOK /\ CleanupsOfDeleted /\ RowsTypeOK
  BY DEF StrongInv, IInv, TypeOK, CatalogTypeOK
<1>b. /\ UNCHANGED deleter /\ cleanupQueue'[d] = 0
      /\ \A r \in Deleters : deleter[r].pc = "wake" => deleter[r].document # d
  BY <1>a, CleanerFrame DEF Uncleaned
<1>1. PICK v \in Versions :
         /\ version[v].document = d /\ version[v].status = "DELETING"
         /\ version'[v].status = "DELETING"
         /\ \A x \in Cleaners : v \notin cleaner'[x].todo \cup cleaner'[x].marked
  BY UncleanedBefore DEF WithStatus, VersionsOf
<1>2. Deleted(d)
  BY UncleanedBefore
<1>3. \A x \in Cleaners \ {k} : v \notin cleaner[x].todo \cup cleaner[x].marked
  BY <1>a, <1>1, CleanerFrame
<1>4. cleanupQueue[d] = 0 \/ v \in cleaner[k].todo \cup cleaner[k].marked
  <2>1. ASSUME NEW x \in Documents, Purge(k, x) PROVE cleanupQueue[d] = 0
    <3>1. v \notin VersionsOf(x) \ WithStatus(Versions, {"DELETED"})
      BY <1>a, <1>1, <2>1 DEF Purge, DeletionTypeOK
    <3>2. x # d
      BY <1>1, <3>1 DEF VersionsOf, WithStatus
    <3> QED BY <1>a, <1>b, <2>1, <3>2 DEF Purge, Pop, QueuesTypeOK
  <2>2. ASSUME NEW x \in Documents, cleanupQueue' = Push(cleanupQueue, x) PROVE cleanupQueue[d] = 0
    BY <1>a, <1>b, <2>2 DEF Push, QueuesTypeOK
  <2>3. CASE PurgeRetry(k) \/ PurgeRefused(k)
    <3>1. cleaner[k].pc # "idle" /\ cleanupQueue' = Push(cleanupQueue, cleaner[k].document)
      BY <2>3 DEF PurgeRetry, PurgeRefused, Refused, WakeCleanup
    <3> QED BY <1>a, <2>2, <3>1, DeletionTyped DEF DeletionTypeOK
  <2>4. CASE ~PurgeRetry(k) /\ ~PurgeRefused(k) /\ ~\E x \in Documents : Purge(k, x)
    <3>1. UNCHANGED cleanupQueue
      BY <2>4 DEF CleanerMoves, Clean, CleanFault, CleanerStep, CleanerFault, DropPoints,
         DropFile, CheckStatus, MarkDeleted, PurgeConflict, FinishPurge, PurgeExhausted, PurgeLost,
         queues, catalogVars
    <3> QED BY <1>b, <3>1
  <2> QED BY <2>1, <2>3, <2>4
<1>5. v \in cleaner[k].todo \cup cleaner[k].marked
  BY <1>1, <1>2, <1>3, <1>4, <1>b DEF Uncleaned, WithStatus, VersionsOf
<1>6. cleaner[k].pc # "idle"
  BY <1>a, <1>5 DEF DeletionTypeOK, DeletionRecord, IdleDeletion
<1>7. d = cleaner[k].document
  BY <1>a, <1>1, <1>5, <1>6 DEF CleanupsOfDeleted
<1>8. ~FinishPurge(k)
  <2>1. FinishPurge(k) => v \in cleaner[k].marked
    BY <1>5 DEF FinishPurge
  <2> QED BY <1>a, <1>1, <2>1, SaveStatusEffect DEF FinishPurge
<1>9. ~PurgeRetry(k) /\ ~PurgeRefused(k)
  <2>1. ~(cleanupQueue' = Push(cleanupQueue, d))
    BY <1>a, <1>b DEF Push, QueuesTypeOK
  <2> QED BY <1>7, <2>1 DEF PurgeRetry, PurgeRefused, WakeCleanup
<1>10. PurgeLost(k) \/ PurgeExhausted(k) \/ \E x \in Versions : PurgeConflict(k, x)
  <2>1. ~\E x \in Documents : Purge(k, x)
    BY <1>6 DEF Purge
  <2> QED BY <1>a, <1>1, <1>5, <1>8, <1>9, <2>1, CleanerRecord
<1> QED BY <1>7, <1>10

\* A request leaves a document uncleaned only when it fails before it enqueues the
\* cleanup: every tombstone, of a document that was deleted meanwhile too, does so.
LEMMA UncleanedByDeleter ==
    ASSUME StrongInv, QueuesTypeOK', [Next]_vars,
           NEW r \in Deleters, DeleterSteps(r), NEW d \in Documents, Uncleaned(d)', ~Uncleaned(d)
    PROVE  DeleteFault(r) /\ deleter[r].pc = "wake" /\ d = deleter[r].document
<1>a. TypeOK /\ QueuesTypeOK /\ DeletionTypeOK
  BY DEF StrongInv, IInv, TypeOK, CatalogTypeOK
<1>1. UNCHANGED cleaner
  BY <1>a, DeleterFrame
<1>2. ~EnqueueCleanup(r) => UNCHANGED cleanupQueue
  BY DEF DeleterSteps, DeleterMoves, RequestDelete, HandleDelete, FailDelete, DeleteRequest,
     DeleterStep, AbortDelete, DeleteAgain, Delete, MarkDeleting, DeleteConflict, Tombstone,
     DeleteFault, queues, catalogVars
<1>3. EnqueueCleanup(r) => cleanupQueue'[d] = cleanupQueue[d] /\ deleter[r].document # d
  BY <1>a DEF EnqueueCleanup, WakeCleanup, Push, QueuesTypeOK, Uncleaned
<1>4. cleanupQueue[d] = 0
  BY <1>2, <1>3 DEF Uncleaned
<1>5. PICK x \in Deleters : deleter[x].pc = "wake" /\ deleter[x].document = d
  BY <1>1, <1>4, UncleanedBefore DEF Uncleaned
<1>6. x = r
  BY <1>a, <1>5, DeleterFrame DEF Uncleaned
<1>7. EnqueueCleanup(r) \/ DeleteFault(r)
  BY <1>5, <1>6 DEF DeleterSteps, DeleterMoves, RequestDelete, HandleDelete, FailDelete,
     DeleteRequest, DeleterStep, AbortDelete, DeleteAgain, Delete, MarkDeleting, DeleteConflict,
     Tombstone
<1> QED BY <1>3, <1>5, <1>6, <1>7

\* What was lost stays so until a message is put in the queue for it.
LEMMA LostStays ==
    ASSUME TypeOK, [Next]_vars
    PROVE  /\ \A v \in lostIngestions : v \in lostIngestions' \/ ingestQueue'[v] # 0
           /\ \A d \in lostCleanups : d \in lostCleanups' \/ cleanupQueue'[d] # 0
<1>a. QueuesTypeOK /\ LostTypeOK
  BY DEF TypeOK, CatalogTypeOK
<1>1. \/ UNCHANGED lost
      \/ \E v : WakeIngestion(v) \/ LoseIngestion(v)
      \/ \E d : WakeCleanup(d) \/ LoseCleanup(d)
  <2>1. ASSUME NEW w \in Workers, WorkerMoves(w)
        PROVE  UNCHANGED lost \/ \E v : WakeIngestion(v) \/ LoseIngestion(v)
    BY <2>1 DEF WorkerMoves, Work, WorkFault, WorkerStep, WorkerFault, Receive, SkipDelivery,
       Claim, NotClaimable, StartProcessing, LostRace, Resume, Parse, EnsureCollection, IndexDense,
       IndexSparse, Verify, MakeReady, Publish, Retry, FailJob, BeginFail, Fail, Overtaken,
       Acknowledge, Crash, Abandon, AbortWork, Redeliver, catalogVars
  <2>2. ASSUME NEW k \in Cleaners, CleanerMoves(k)
        PROVE  UNCHANGED lost \/ \E d : WakeCleanup(d) \/ LoseCleanup(d)
    BY <2>2 DEF CleanerMoves, Clean, CleanFault, CleanerStep, CleanerFault, Purge, DropPoints,
       DropFile, CheckStatus, MarkDeleted, PurgeConflict, FinishPurge, PurgeRefused, PurgeExhausted,
       PurgeRetry, PurgeLost, catalogVars
  <2>3. ASSUME NEW r \in Deleters, DeleterSteps(r)
        PROVE  UNCHANGED lost \/ \E d : WakeCleanup(d) \/ LoseCleanup(d)
    BY <2>3 DEF DeleterSteps, DeleterMoves, RequestDelete, HandleDelete, FailDelete, DeleteRequest,
       DeleterStep, AbortDelete, DeleteAgain, Delete, MarkDeleting, DeleteConflict, Tombstone,
       EnqueueCleanup, DeleteFault, catalogVars
  <2>4. ASSUME NEW u \in Uploaders, UploaderSteps(u)
        PROVE  UNCHANGED lost \/ \E v : WakeIngestion(v) \/ LoseIngestion(v)
    BY <2>4 DEF UploaderSteps, UploaderMoves, RequestUpload, HandleUpload, FailUpload,
       UploadRequest, UploaderStep, UploaderFault, AbortUpload, UploadFailed, UploadDocument,
       UploadVersion, NumberVersion, PutFile, InsertVersion, InsertRefused, UndoUpload,
       UndoAndRequeue, EnqueueIngestion, UploadCrash, PutFails, InsertFails, UndoFails, catalogVars
  <2>5. UNCHANGED vars => UNCHANGED lost
    BY DEF vars, catalogVars
  <2> QED BY <2>1, <2>2, <2>3, <2>4, <2>5, NextCases
<1>2. ASSUME NEW v, WakeIngestion(v) \/ LoseIngestion(v)
      PROVE  /\ \A x \in lostIngestions : x \in lostIngestions' \/ ingestQueue'[x] # 0
             /\ UNCHANGED lostCleanups
  BY <1>2, <1>a DEF WakeIngestion, LoseIngestion, Push, QueuesTypeOK, LostTypeOK
<1>3. ASSUME NEW d, WakeCleanup(d) \/ LoseCleanup(d)
      PROVE  /\ \A x \in lostCleanups : x \in lostCleanups' \/ cleanupQueue'[x] # 0
             /\ UNCHANGED lostIngestions
  BY <1>3, <1>a DEF WakeCleanup, LoseCleanup, Push, QueuesTypeOK, LostTypeOK
<1> QED BY <1>1, <1>2, <1>3 DEF lost

\* Work that nothing will take on is named, for the error that has dropped it.
LEMMA LossesNamedStep ==
    ASSUME LossInv, StrongInv', [Next]_vars
    PROVE  LossesNamed'
<1>a. StrongInv /\ TypeOK /\ QueuesTypeOK' /\ LossesNamed
  BY DEF LossInv, StrongInv, IInv, TypeOK, CatalogTypeOK
<1>1. ASSUME NEW v \in Versions, Unattended(v)'
      PROVE  v \in lostIngestions'
  <2>1. CASE Unattended(v)
    BY <1>a, <1>1, <2>1, LostStays DEF LossesNamed, Unattended
  <2>2. ASSUME ~Unattended(v), NEW w \in Workers, WorkerMoves(w)
        PROVE  v \in lostIngestions'
    BY <1>a, <1>1, <2>2, UnattendedByWorker DEF Abandon, AbortWork, LoseIngestion
  <2>3. ASSUME ~Unattended(v), NEW u \in Uploaders, UploaderSteps(u)
        PROVE  v \in lostIngestions'
    BY <1>a, <1>1, <2>3, UnattendedByUploader DEF UploadCrash, LoseIngestion
  <2>4. CASE UNCHANGED vars
    <3>1. Unattended(v)' = Unattended(v)
      BY <2>4 DEF vars, catalogVars, rows, locks, queues, Unattended, Carries, IsProcessing
    <3> QED BY <1>1, <2>1, <3>1
  <2> QED BY <1>a, <1>1, <2>1, <2>2, <2>3, <2>4, NextCases, UnattendedByDeletion
<1>2. ASSUME NEW d \in Documents, Uncleaned(d)'
      PROVE  d \in lostCleanups'
  <2>1. CASE Uncleaned(d)
    BY <1>a, <1>2, <2>1, LostStays DEF LossesNamed, Uncleaned
  <2>2. ASSUME ~Uncleaned(d), NEW k \in Cleaners, CleanerMoves(k)
        PROVE  d \in lostCleanups'
    BY <1>a, <1>2, <2>2, UncleanedByCleaner DEF PurgeLost, PurgeExhausted, PurgeConflict, LoseCleanup
  <2>3. ASSUME ~Uncleaned(d), NEW r \in Deleters, DeleterSteps(r)
        PROVE  d \in lostCleanups'
    BY <1>a, <1>2, <2>3, UncleanedByDeleter DEF DeleteFault, LoseCleanup
  <2>4. CASE UNCHANGED vars
    <3>1. Uncleaned(d)' = Uncleaned(d)
      BY <2>4 DEF vars, catalogVars, rows, queues, Uncleaned, Deleted, WithStatus, VersionsOf
    <3> QED BY <1>2, <2>1, <3>1
  <2> QED BY <1>a, <1>2, <2>1, <2>2, <2>3, <2>4, NextCases, UncleanedByOthers
<1> QED BY <1>1, <1>2 DEF LossesNamed

\* At first there is nothing to lose.
LEMMA InitLoss == Init => LossInv
<1> SUFFICES ASSUME Init PROVE LossInv
  OBVIOUS
<1>1. \A v \in Versions : ~Unattended(v)
  BY DEF Init, CatalogInit, Unattended, Ingestible
<1>2. \A d \in Documents : ~Uncleaned(d)
  BY DEF Init, CatalogInit, Uncleaned, Deleted
<1> QED BY <1>1, <1>2, InitStrong DEF LossInv, LossesNamed

LEMMA StepLoss == LossInv /\ [Next]_vars => LossInv'
<1> SUFFICES ASSUME LossInv, [Next]_vars PROVE LossInv'
  OBVIOUS
<1>1. StrongInv'
  BY StepStrong DEF LossInv
<1> QED BY <1>1, LossesNamedStep DEF LossInv

\* The invariant holds in every reachable state: an ingestion or a cleanup that nothing
\* will take on is one whose last message or request ended in an error.
THEOREM LossInvariance == Spec => []LossInv
BY InitLoss, StepLoss, PTL DEF Spec

\* Work is forgotten only by the errors that drop its message or the request before it
\* sends one: retries, duplicate deliveries, lost races, crashes of workers and repeated
\* requests forget none, for any number of workers, cleanups, requests, documents and
\* versions.
THEOREM OnlyErrorsLose == Spec => []OnlyErrorsLoseWork
<1>1. ASSUME LossInv PROVE OnlyErrorsLoseWork
  <2>a. DeletionTypeOK /\ CleanupsOfDeleted /\ LossesNamed
    BY <1>1 DEF LossInv, StrongInv, IInv, TypeOK
  <2>1. \A v \in Versions : IngestionForgotten(v) => Unattended(v)
    BY DEF IngestionForgotten, Unattended, Carries, At
  <2>2. ASSUME NEW d \in Documents, CleanupForgotten(d)
        PROVE  Uncleaned(d)
    <3>1. PICK v \in Versions : version[v].document = d /\ version[v].status = "DELETING"
      BY <2>2 DEF CleanupForgotten, WithStatus, VersionsOf
    <3>2. ASSUME NEW k \in Cleaners, v \in cleaner[k].todo \cup cleaner[k].marked
          PROVE  FALSE
      <4>1. cleaner[k].pc # "idle"
        BY <2>a, <3>2 DEF DeletionTypeOK, DeletionRecord, IdleDeletion
      <4>2. cleaner[k].document = d
        BY <2>a, <3>1, <3>2, <4>1 DEF CleanupsOfDeleted
      <4> QED BY <2>2, <4>2 DEF CleanupForgotten
    <3> QED BY <2>2, <3>1, <3>2 DEF CleanupForgotten, Uncleaned, Deleted, WithStatus, VersionsOf
  <2> QED BY <2>a, <2>1, <2>2 DEF OnlyErrorsLoseWork, LossesNamed
<1> QED BY <1>1, LossInvariance, PTL

-----------------------------------------------------------------------------
(***************************************************************************)
(* The steps                                                               *)
(***************************************************************************)
\* Every commit moves a version along a transition of the policy, though the
\* statuses are read in one statement and written in another, retries trust what
\* they read at the start, and a request or a cleanup works from a list of versions.
THEOREM PolicyIsKept == Spec => LifecycleSteps
<1>1. StrongInv /\ [Next]_vars =>
         [\A v \in Versions : version'[v].status # version[v].status =>
             CommittedTransition(version[v].status, version'[v].status)]_version
  BY StatusStep
<1> QED BY <1>1, StrongInvariance, PTL DEF Spec, LifecycleSteps

\* A live document that can be answered from stays so while new versions of it are
\* uploaded, ingested, failed and published, until it is deleted.
THEOREM ServingIsKept == Spec => KeepsServing
<1>1. ASSUME StrongInv, [Next]_vars, NEW d \in Documents, document[d].state = "live", Served(d),
             document'[d].state = "live"
      PROVE  Served(d)'
  <2>1. IInv /\ IInv' /\ RowsTypeOK
    BY <1>1, StepInv DEF StrongInv, IInv, TypeOK, CatalogTypeOK
  <2>2. document'[d].active # None
    <3>1. \A w \in Workers : Publish(w) => worker[w].version # None
      BY <2>1, PublishEffect, ProcessesDistinct
    <3> QED BY <1>1, <2>1, <3>1, DocumentSteps DEF Served
  <2> QED BY <1>1, <2>1, <2>2 DEF Served, IInv, ActiveIsReady
<1>2. StrongInv /\ [Next]_vars =>
         [\A d \in Documents :
             document[d].state = "live" /\ Served(d) /\ document'[d].state = "live"
               => Served(d)']_vars
  BY <1>1
<1> QED BY <1>2, StrongInvariance, PTL DEF Spec, KeepsServing

-----------------------------------------------------------------------------
(***************************************************************************)
(* The refinement of Corpus                                                *)
(***************************************************************************)
\* The state of Corpus that a state of CitedRag stands for.
state == [d \in Documents |-> document[d].state]
visible == [d \in Documents |-> Visible(d)]
published == {v \in Versions : job[v].status = "SUCCEEDED"}

\* The active version of a live document is READY, so what queries see of a
\* document is its two columns.
LEMMA VisibleIsActive ==
    ASSUME IInv, NEW d \in Documents
    PROVE  Visible(d) = IF document[d].state = "live" THEN document[d].active ELSE None
BY DEF IInv, ActiveIsReady, Visible, Served

LEMMA InitCorpus == Init => C!Init
BY DEF Init, CatalogInit, C!Init, Visible

\* Only the commit of a published version adds to what is published.
LEMMA PublishedChange ==
    ASSUME IInv, [Next]_vars
    PROVE  \/ published' = published
           \/ \E w \in Workers : WorkerMoves(w) /\ Publish(w)
<1> USE DEF published
<1>a. TypeOK /\ PublishedIsSucceeded
  BY DEF IInv
<1>1. ASSUME NEW w \in Workers, WorkerMoves(w), ~Publish(w), NEW v \in Versions
      PROVE  job'[v].status = "SUCCEEDED" <=> job[v].status = "SUCCEEDED"
  <2>1. job[v].status = "SUCCEEDED" => ~(worker[w].pc \in Claimed /\ v = worker[w].version)
    BY <1>1 DEF IInv, ClaimHeld
  <2> QED BY <1>a, <1>1, <2>1, WorkerWrites
<1>2. ASSUME NEW u \in Uploaders, UploaderSteps(u), NEW v \in Versions
      PROVE  job'[v].status = "SUCCEEDED" <=> job[v].status = "SUCCEEDED"
  <2>1. InsertVersion(u) /\ v = uploader[u].version =>
           version[v].status = "absent" /\ job'[v].status = "PENDING"
    BY InsertEffect DEF IInv, DrawnVersions, Exists
  <2> QED BY <1>a, <1>2, <2>1, UploaderRows DEF PublishedIsSucceeded
<1>3. UNCHANGED vars => UNCHANGED job
  BY DEF vars, catalogVars, rows
<1> QED BY <1>a, <1>1, <1>2, <1>3, NextCases, CleanerFrame, DeleterFrame

\* The commit of a worker that publishes is a Publish of the corpus, the commit of a
\* tombstone a Delete, the commit of a new document's row an Add, and everything
\* else is invisible.
LEMMA StepCorpus ==
    ASSUME IInv, IInv', [Next]_vars
    PROVE  [C!Next]_C!vars
<1>a. TypeOK /\ RowsTypeOK /\ RowsTypeOK' /\ VersionsHaveDocuments /\ DrawnDocuments /\ CleanupsOfDeleted
      /\ document \in [Documents -> DocumentRow] /\ document' \in [Documents -> DocumentRow]
  BY StepTyped DEF IInv, TypeOK, CatalogTypeOK, RowsTypeOK
<1>b. /\ visible = [d \in Documents |->
                      IF document[d].state = "live" THEN document[d].active ELSE None]
      /\ visible' = [d \in Documents |->
                      IF document'[d].state = "live" THEN document'[d].active ELSE None]
  <2>1. \A d \in Documents :
           Visible(d)' = IF document'[d].state = "live" THEN document'[d].active ELSE None
    BY <1>a DEF IInv, ActiveIsReady, Visible, Served
  <2> QED BY <2>1, VisibleIsActive DEF visible
<1>c. /\ state' = [d \in Documents |-> document'[d].state]
      /\ C!vars = <<state, visible, published>>
      /\ C!vars' = <<state', visible', published'>>
  BY DEF state, visible, published, C!vars
<1>1. ASSUME NEW w \in Workers, WorkerMoves(w), Publish(w)
      PROVE  C!Next
  <2>0. PICK v \in Versions, d \in Documents : v = worker[w].version /\ d = version[v].document
    BY <1>1, <1>a, PublishEffect DEF VersionsHaveDocuments
  <2>1. /\ document[d].state # "absent"
        /\ job[v].status = "PENDING" /\ job'[v].status = "SUCCEEDED"
    BY <1>1, <1>a, <2>0, PublishEffect DEF VersionsHaveDocuments
  <2>2. document' = [document EXCEPT ![d].active = v]
    BY <1>1, <2>0 DEF Publish
  <2>3. \A x \in Versions \ {v} : job'[x] = job[x]
    BY <1>1, <1>a, <2>0, WorkerRows
  <2>4. published' = published \cup {v} /\ v \notin published
    BY <2>1, <2>3 DEF published
  <2>5. state' = state
    BY <1>a, <1>c, <2>2 DEF state, DocumentRow
  <2>6. visible' = [visible EXCEPT ![d] = IF state[d] = "live" THEN v ELSE @]
    BY <1>a, <1>b, <2>1, <2>2 DEF state, DocumentRow
  <2>7. C!Publish(d, v)
    BY <2>1, <2>4, <2>5, <2>6 DEF C!Publish, state, visible, published
  <2> QED BY <2>1, <2>7 DEF C!Next
<1>2. ASSUME ~\E w \in Workers : WorkerMoves(w) /\ Publish(w)
      PROVE  published' = published
  BY <1>2, PublishedChange
<1>3. ASSUME UNCHANGED document, published' = published
      PROVE  UNCHANGED C!vars
  BY <1>3, <1>b, <1>c DEF state
<1>4. ASSUME NEW r \in Deleters, DeleterSteps(r), Tombstone(r)
      PROVE  C!Next \/ UNCHANGED C!vars
  <2>1. PICK d \in Documents : d = deleter[r].document /\ document[d].state # "absent"
    <3>1. deleter[r].pc = "mark"
      BY <1>4 DEF Tombstone
    <3> QED BY <1>a, <3>1, DeletionTyped DEF TypeOK, DeletionTypeOK, CleanupsOfDeleted
  <2>2. document' = [document EXCEPT ![d] = [state |-> "deleted", active |-> None]]
    BY <1>4, <2>1 DEF Tombstone
  <2>3. published' = published
    BY <1>a, <1>4, DeleterFrame DEF published
  <2>4. visible' = [visible EXCEPT ![d] = None]
    BY <1>a, <1>b, <2>1, <2>2
  <2>5. state' = [state EXCEPT ![d] = "deleted"]
    BY <1>a, <1>c, <2>1, <2>2 DEF state
  <2>6. CASE document[d].state = "live"
    <3>1. C!Delete(d)
      BY <2>1, <2>3, <2>4, <2>5, <2>6 DEF C!Delete, state, visible, published
    <3> QED BY <2>1, <3>1 DEF C!Next
  <2>7. CASE document[d].state = "deleted"
    BY <1>b, <1>c, <2>1, <2>3, <2>4, <2>5, <2>7 DEF state
  <2> QED BY <1>a, <2>1, <2>6, <2>7 DEF DocumentRow
<1>5. ASSUME NEW u \in Uploaders, UploaderSteps(u), published' = published
      PROVE  C!Next \/ UNCHANGED C!vars
  <2>1. CASE UNCHANGED document
    BY <1>3, <1>5, <2>1
  <2>2. CASE ~UNCHANGED document
    <3>1. /\ uploader[u].pc \in {"insert", "refused"} /\ uploader[u].isNew
          /\ document' = [document EXCEPT ![uploader[u].document].state = "live"]
      BY <1>5, <2>2 DEF UploaderSteps, UploaderMoves, RequestUpload, HandleUpload, FailUpload,
         UploadRequest, UploaderStep, UploaderFault, AbortUpload, UploadFailed, UploadDocument,
         UploadVersion, NumberVersion, PutFile, InsertVersion, InsertRefused, UndoUpload,
         UndoAndRequeue, EnqueueIngestion, UploadCrash, PutFails, InsertFails, UndoFails,
         AddDocument, rows, catalogVars
    <3>2. PICK d \in Documents : /\ d = uploader[u].document
                                 /\ document[d].state = "absent" /\ document[d].active = None
      BY <1>a, <3>1, UploadTyped DEF TypeOK, UploadTypeOK, DrawnDocuments, Storing, Undoing
    <3>3. state' = [state EXCEPT ![d] = "live"]
      BY <1>a, <1>c, <3>1, <3>2 DEF state, DocumentRow
    <3>4. visible' = visible
      BY <1>a, <1>b, <3>1, <3>2 DEF DocumentRow
    <3>5. C!Add(d)
      BY <1>5, <3>2, <3>3, <3>4 DEF C!Add, state, visible, published
    <3> QED BY <3>2, <3>5 DEF C!Next
  <2> QED BY <2>1, <2>2
<1>6. CASE \E w \in Workers : WorkerMoves(w)
  BY <1>6, <1>a, <1>1, <1>3, PublishedChange, WorkerFrame
<1>7. CASE ~\E w \in Workers : WorkerMoves(w)
  <2>1. ASSUME NEW r \in Deleters, DeleterSteps(r)
        PROVE  C!Next \/ UNCHANGED C!vars
    BY <1>7, <1>a, <1>2, <1>3, <1>4, <2>1, DeleterRows
  <2>2. ASSUME NEW k \in Cleaners, CleanerMoves(k)
        PROVE  UNCHANGED C!vars
    BY <1>7, <1>a, <1>2, <1>3, <2>2, CleanerFrame
  <2>3. UNCHANGED vars => UNCHANGED document
    BY DEF vars, catalogVars, rows
  <2> QED BY <1>7, <1>2, <1>3, <1>5, <2>1, <2>2, <2>3, NextCases
<1> QED BY <1>6, <1>7

\* Upload, ingestion and deletion implement Corpus: whatever the transactions, the
\* index, the queue and the faults do, a query sees documents to which versions are
\* published one at a time, each once, and a deleted document never again.
THEOREM ImplementsCorpus == Spec => CorpusSpec
<1>1. Init => C!Init
  BY InitCorpus
<1>2. IInv /\ IInv' /\ [Next]_vars => [C!Next]_C!vars
  BY StepCorpus
<1> QED BY <1>1, <1>2, Invariance, PTL DEF Spec, CorpusSpec, C!Spec
=============================================================================
