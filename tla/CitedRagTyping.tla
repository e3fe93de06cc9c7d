--------------------------- MODULE CitedRagTyping ---------------------------
(***************************************************************************)
(* Type correctness of CitedRag: what each kind of update keeps typed, a   *)
(* lemma for each kind of process with one step per action, and the        *)
(* theorem that puts them together.                                        *)
(***************************************************************************)
EXTENDS CitedRag, TLAPS

\* What a step leaves alone stays typed.
LEMMA Frame ==
    /\ RowsTypeOK /\ UNCHANGED rows => RowsTypeOK'
    /\ LocksTypeOK /\ UNCHANGED locks => LocksTypeOK'
    /\ StoresTypeOK /\ UNCHANGED stores => StoresTypeOK'
    /\ QueuesTypeOK /\ UNCHANGED queues => QueuesTypeOK'
    /\ LostTypeOK /\ UNCHANGED lost => LostTypeOK'
    /\ CatalogTypeOK /\ UNCHANGED catalogVars => CatalogTypeOK'
BY DEF RowsTypeOK, LocksTypeOK, StoresTypeOK, QueuesTypeOK, LostTypeOK, CatalogTypeOK,
       rows, locks, stores, queues, lost, catalogVars, Complete

\* The end of a transaction leaves the lock tables typed.
LEMMA ReleaseTyped ==
    ASSUME LocksTypeOK, NEW t, ReleaseLocks(t)
    PROVE  LocksTypeOK'
BY DEF LocksTypeOK, ReleaseLocks

\* So does taking the lock of a row.
LEMMA LockTyped ==
    ASSUME LocksTypeOK, NEW x, NEW t \in Transactions,
           \/ LockVersion(x, t) /\ UNCHANGED <<jobLock, documentLock>>
           \/ LockJob(x, t) /\ UNCHANGED <<versionLock, documentLock>>
           \/ LockDocument(x, t) /\ UNCHANGED <<versionLock, jobLock>>
    PROVE  LocksTypeOK'
BY DEF LocksTypeOK, LockVersion, LockJob, LockDocument

\* Moving a set of versions to a status keeps the rows typed.
LEMMA SaveStatusTyped ==
    ASSUME RowsTypeOK, NEW vs, NEW s \in VersionStatus, SaveStatus(vs, s)
    PROVE  version' \in [Versions -> VersionRow]
BY DEF RowsTypeOK, SaveStatus, VersionRow

\* So do the worker's updates of one version and of one job.
LEMMA SaveVersionTyped ==
    ASSUME RowsTypeOK, NEW v, NEW s \in VersionStatus, SaveVersion(v, s)
    PROVE  version' \in [Versions -> VersionRow]
BY DEF RowsTypeOK, SaveVersion, VersionRow

LEMMA SaveJobTyped ==
    ASSUME RowsTypeOK, NEW v, NEW s \in JobStatus, SaveJob(v, s)
    PROVE  job' \in [Versions -> JobRow]
<1>1. CASE v \in Versions
  <2>1. job[v] \in JobRow /\ job[v].attempts + 1 \in Nat
    BY <1>1 DEF RowsTypeOK, JobRow
  <2>2. job' = [job EXCEPT ![v] = [job[v] EXCEPT !.status = s, !.attempts = @ + 1]]
    BY <1>1 DEF SaveJob
  <2> QED BY <2>1, <2>2 DEF RowsTypeOK, JobRow
<1>2. CASE v \notin Versions
  BY <1>2 DEF RowsTypeOK, SaveJob, JobRow
<1> QED BY <1>1, <1>2

\* Queues are counters.
LEMMA PushTyped ==
    ASSUME NEW D, NEW queue \in [D -> Nat], NEW x
    PROVE  Push(queue, x) \in [D -> Nat]
<1>1. CASE x \in D
  <2>1. queue[x] + 1 \in Nat
    BY <1>1
  <2> QED BY <2>1 DEF Push
<1>2. CASE x \notin D
  BY <1>2 DEF Push
<1> QED BY <1>1, <1>2

LEMMA PopTyped ==
    ASSUME NEW D, NEW queue \in [D -> Nat], NEW x \in D, queue[x] > 0
    PROVE  Pop(queue, x) \in [D -> Nat]
<1>1. queue[x] - 1 \in Nat
  OBVIOUS
<1> QED BY <1>1 DEF Pop

\* A message that is put in a queue, and one that is lost.
LEMMA WakeTyped ==
    ASSUME QueuesTypeOK, LostTypeOK,
           \/ \E v : WakeIngestion(v) /\ UNCHANGED cleanupQueue
           \/ \E d : WakeCleanup(d) /\ UNCHANGED ingestQueue
    PROVE  QueuesTypeOK' /\ LostTypeOK'
<1>1. CASE \E v : WakeIngestion(v) /\ UNCHANGED cleanupQueue
  BY <1>1, PushTyped DEF WakeIngestion, QueuesTypeOK, LostTypeOK
<1>2. CASE \E d : WakeCleanup(d) /\ UNCHANGED ingestQueue
  BY <1>2, PushTyped DEF WakeCleanup, QueuesTypeOK, LostTypeOK
<1> QED BY <1>1, <1>2

LEMMA LoseTyped ==
    ASSUME LostTypeOK,
           \/ \E v \in Versions : LoseIngestion(v)
           \/ \E d \in Documents : LoseCleanup(d)
    PROVE  LostTypeOK'
BY DEF LostTypeOK, LoseIngestion, LoseCleanup

LEMMA FaultTyped ==
    ASSUME faults \in Nat, NEW kind, Fault(kind)
    PROVE  faults' \in Nat
BY DEF Fault

-----------------------------------------------------------------------------
(***************************************************************************)
(* The workers                                                             *)
(***************************************************************************)
\* The updates of a worker's own record.
LEMMA MoveTyped ==
    ASSUME WorkerTypeOK, NEW w \in Workers, worker[w].pc # "idle",
           \/ \E pc \in {"ack"} \cup Claimed : GoTo(w, pc)
           \/ \E pc \in Claimed, chunks \in SUBSET Chunks : Stage(w, pc, chunks)
           \/ Idle(w)
    PROVE  WorkerTypeOK'
<1>0. worker[w] \in WorkerRecord /\ worker[w] # IdleWorker
  BY DEF WorkerTypeOK, IdleWorker
<1>1. CASE \E pc \in {"ack"} \cup Claimed : GoTo(w, pc)
  <2> PICK pc \in {"ack"} \cup Claimed : GoTo(w, pc)
    BY <1>1
  <2>1. [worker[w] EXCEPT !.pc = pc] \in WorkerRecord
    BY <1>0 DEF WorkerRecord
  <2> QED BY <2>1 DEF WorkerTypeOK, GoTo
<1>2. CASE \E pc \in Claimed, chunks \in SUBSET Chunks : Stage(w, pc, chunks)
  <2> PICK pc \in Claimed, chunks \in SUBSET Chunks : Stage(w, pc, chunks)
    BY <1>2
  <2>1. [worker[w] EXCEPT !.pc = pc, !.left = chunks] \in WorkerRecord
    BY <1>0 DEF WorkerRecord
  <2>2. worker' = [worker EXCEPT ![w] = [worker[w] EXCEPT !.pc = pc, !.left = chunks]]
    BY DEF WorkerTypeOK, Stage
  <2> QED BY <2>1, <2>2 DEF WorkerTypeOK
<1>3. CASE Idle(w)
  BY <1>3 DEF WorkerTypeOK, WorkerRecord, Idle, IdleWorker
<1> QED BY <1>1, <1>2, <1>3

\* A worker that is not idle has a version.
LEMMA ClaimedTyped ==
    ASSUME WorkerTypeOK, NEW w \in Workers, worker[w].pc # "idle"
    PROVE  worker[w].version \in Versions /\ worker[w].left \in SUBSET Chunks
BY DEF WorkerTypeOK, WorkerRecord, IdleWorker

LEMMA WorkerTyped ==
    ASSUME TypeOK, NEW w \in Workers, WorkerStep(w) \/ WorkerFault(w)
    PROVE  CatalogTypeOK' /\ WorkerTypeOK'
<1> USE Frame DEF TypeOK, CatalogTypeOK, At
<1> DEFINE v == worker[w].version
<1>0. w \in Transactions
  BY DEF Transactions
<1>1. CASE \E u \in Versions : Receive(w, u)
  <2> PICK u \in Versions : Receive(w, u)
    BY <1>1
  <2>1. QueuesTypeOK'
    BY PopTyped DEF Receive, QueuesTypeOK
  <2>2. WorkerTypeOK'
    BY DEF Receive, WorkerTypeOK, WorkerRecord, Ingestible
  <2> QED BY <2>1, <2>2 DEF Receive
<1>2. CASE \E u \in Versions : SkipDelivery(w, u)
  <2>1. QueuesTypeOK'
    BY <1>2, PopTyped DEF SkipDelivery, QueuesTypeOK
  <2> QED BY <1>2, <2>1 DEF SkipDelivery, WorkerTypeOK
<1>3. CASE NotClaimable(w) \/ Resume(w) \/ Verify(w) \/ BeginFail(w) \/ Acknowledge(w)
  <2>1. WorkerTypeOK'
    BY <1>3, MoveTyped DEF NotClaimable, Resume, Verify, BeginFail, CanFail, Acknowledge,
                           Claimed, Indexing, Failing
  <2> QED BY <1>3, <2>1 DEF NotClaimable, Resume, Verify, BeginFail, Acknowledge
<1>4. CASE Claim(w) \/ StartProcessing(w) \/ Parse(w) \/ MakeReady(w)
  <2>1. LocksTypeOK'
    BY <1>0, <1>4, LockTyped DEF Claim, StartProcessing, Parse, MakeReady, locks
  <2>2. WorkerTypeOK'
    BY <1>4, MoveTyped DEF Claim, StartProcessing, Parse, MakeReady, Claimed, Indexing, Failing
  <2> QED BY <1>4, <2>1, <2>2 DEF Claim, StartProcessing, Parse, MakeReady
<1>5. CASE IndexDense(w) \/ IndexSparse(w)
  <2>1. v \in Versions /\ worker[w].left \in SUBSET Chunks
    BY <1>5, ClaimedTyped DEF IndexDense, IndexSparse
  <2>2. StoresTypeOK'
    <3>1. CASE IndexDense(w)
      <4> PICK c \in worker[w].left :
            points' = [points EXCEPT ![v] = (@ \ {<<c, "sparse">>}) \cup {<<c, "dense">>}]
        BY <3>1 DEF IndexDense, UpsertDense
      <4>1. (points[v] \ {<<c, "sparse">>}) \cup {<<c, "dense">>} \in SUBSET Vectors
        BY <2>1 DEF StoresTypeOK, Vectors
      <4> QED BY <3>1, <4>1 DEF IndexDense, UpsertDense, StoresTypeOK
    <3>2. CASE IndexSparse(w)
      <4> PICK c \in worker[w].left :
            points' = [points EXCEPT ![v] = @ \cup {<<c, "sparse">>}]
        BY <3>2 DEF IndexSparse, UpsertSparse
      <4>1. points[v] \cup {<<c, "sparse">>} \in SUBSET Vectors
        BY <2>1 DEF StoresTypeOK, Vectors
      <4> QED BY <3>2, <4>1 DEF IndexSparse, UpsertSparse, StoresTypeOK
    <3> QED BY <1>5, <3>1, <3>2
  <2>3. WorkerTypeOK'
    BY <1>5, <2>1, MoveTyped DEF IndexDense, IndexSparse, Claimed, Indexing, Failing
  <2> QED BY <1>5, <2>2, <2>3 DEF IndexDense, IndexSparse
<1>8. CASE EnsureCollection(w)
  BY <1>8 DEF EnsureCollection, StoresTypeOK, WorkerTypeOK
<1>6. CASE FailJob(w) \/ LostRace(w) \/ Publish(w) \/ Retry(w) \/ Fail(w)
  <2>0. worker[w].pc # "idle"
    BY <1>6 DEF FailJob, CanFail, LostRace, Publish, Retry, Fail, Indexing, Failing
  <2>1. LocksTypeOK'
    BY <1>6, ReleaseTyped DEF FailJob, LostRace, Publish, Retry, Fail
  <2>2. WorkerTypeOK'
    BY <1>6, <2>0, MoveTyped DEF FailJob, LostRace, Publish, Retry, Fail
  <2>3. job' \in [Versions -> JobRow]
    BY <1>6, SaveJobTyped DEF FailJob, LostRace, Publish, Retry, Fail, JobStatus
  <2>4. version' \in [Versions -> VersionRow]
    BY <1>6, SaveVersionTyped
       DEF FailJob, LostRace, Publish, Retry, Fail, VersionStatus, RowsTypeOK
  <2>5. v \in Versions
    BY <2>0, ClaimedTyped
  <2>6. document' \in [Documents -> DocumentRow]
    BY <1>6, <2>5
       DEF FailJob, LostRace, Publish, Retry, Fail, RowsTypeOK, DocumentRow
  <2>7. chunked' \in SUBSET Versions
    BY <1>6, <2>5
       DEF FailJob, LostRace, Publish, Retry, Fail, KeepChunks, RowsTypeOK
  <2>8. RowsTypeOK'
    BY <2>3, <2>4, <2>6, <2>7 DEF RowsTypeOK
  <2>9. QueuesTypeOK' /\ LostTypeOK'
    BY <1>6, WakeTyped DEF FailJob, LostRace, Publish, Retry, Fail, Redeliver
  <2> QED BY <1>6, <2>1, <2>2, <2>8, <2>9 DEF FailJob, LostRace, Publish, Retry, Fail
<1>7. CASE Overtaken(w) \/ Crash(w) \/ Abandon(w)
  <2>0. worker[w].pc # "idle"
    BY <1>7 DEF Overtaken, Crash, Abandon, Failing
  <2>1. LocksTypeOK'
    BY <1>7, ReleaseTyped DEF Overtaken, Crash, Abandon
  <2>2. WorkerTypeOK'
    BY <1>7, <2>0, MoveTyped DEF Overtaken, Crash, Abandon
  <2>3. QueuesTypeOK' /\ LostTypeOK'
    BY <1>7, <2>0, ClaimedTyped, WakeTyped, LoseTyped DEF Overtaken, Crash, Abandon, Redeliver
  <2>4. faults' \in Nat
    BY <1>7, FaultTyped DEF Overtaken, Crash, Abandon
  <2> QED BY <1>7, <2>1, <2>2, <2>3, <2>4 DEF Overtaken, Crash, Abandon
<1> QED
  BY <1>1, <1>2, <1>3, <1>4, <1>5, <1>6, <1>7, <1>8 DEF WorkerStep, WorkerFault

-----------------------------------------------------------------------------
(***************************************************************************)
(* Delete requests and cleanups                                            *)
(***************************************************************************)
\* A request or a cleanup that is not idle has a document.
LEMMA DeletionTyped ==
    ASSUME NEW pcs, NEW r \in DeletionRecord(pcs), r.pc # "idle"
    PROVE  r \in [pc : pcs, document : Documents, todo : SUBSET Versions,
                  chosen : SUBSET Versions, marked : SUBSET Versions]
BY DEF DeletionRecord, IdleDeletion

LEMMA DeleterTyped ==
    ASSUME TypeOK, NEW r \in Deleters, DeleteRequest(r) \/ DeleterStep(r) \/ DeleteFault(r)
    PROVE  CatalogTypeOK' /\ DeletionTypeOK'
<1> USE Frame DEF TypeOK, CatalogTypeOK, DeletionTypeOK
<1> DEFINE self == deleter[r]
           R == DeletionRecord({"mark", "wake"})
<1>0. r \in Transactions /\ self \in R /\ IdleDeletion \in R
  BY DEF Transactions, DeletionRecord
<1>a. ASSUME NEW d \in Documents
      PROVE  [IdleDeletion EXCEPT !.pc = "wake", !.document = d] \in R
  BY <1>a DEF DeletionRecord, IdleDeletion
<1>1. CASE \E d \in Documents : DeleteAgain(r, d)
  BY <1>1, <1>a DEF DeleteAgain, AskCleanup
<1>2. CASE \E d \in Documents : Delete(r, d)
  <2> PICK d \in Documents : Delete(r, d)
    BY <1>2
  <2>1. deleter' \in [Deleters -> R]
    BY DEF Delete, DeletionRecord, WithStatus, VersionsOf
  <2> QED BY <2>1 DEF Delete
<1>3. CASE \E v \in Versions : MarkDeleting(r, v)
  <2> PICK v \in Versions : MarkDeleting(r, v)
    BY <1>3
  <2>1. LocksTypeOK'
    BY <1>0, LockTyped DEF MarkDeleting, locks
  <2>a. self \in [pc : {"mark", "wake"}, document : Documents, todo : SUBSET Versions,
                  chosen : SUBSET Versions, marked : SUBSET Versions]
    BY <1>0, DeletionTyped DEF MarkDeleting
  <2>2. [self EXCEPT !.todo = @ \ {v}, !.marked = @ \cup {v}] \in R
        /\ [self EXCEPT !.todo = @ \ {v}, !.marked = @] \in R
    BY <2>a DEF DeletionRecord
  <2>3. deleter' \in [Deleters -> R]
    BY <2>2 DEF MarkDeleting
  <2> QED BY <2>1, <2>3 DEF MarkDeleting
<1>4. CASE \E v \in Versions : DeleteConflict(r, v)
  BY <1>0, <1>4, ReleaseTyped DEF DeleteConflict
<1>5. CASE Tombstone(r)
  <2>1. self.document \in Documents
    BY <1>0, <1>5, DeletionTyped DEF Tombstone
  <2>2. version' \in [Versions -> VersionRow]
    BY <1>5, SaveStatusTyped DEF Tombstone, VersionStatus
  <2>3. RowsTypeOK'
    BY <1>5, <2>2 DEF Tombstone, RowsTypeOK, DocumentRow
  <2>4. LocksTypeOK'
    BY <1>5, ReleaseTyped DEF Tombstone
  <2>5. deleter' \in [Deleters -> R]
    BY <1>5, <1>a, <2>1 DEF Tombstone, AskCleanup
  <2> QED BY <1>5, <2>3, <2>4, <2>5 DEF Tombstone
<1>6. CASE EnqueueCleanup(r)
  <2>1. QueuesTypeOK' /\ LostTypeOK'
    BY <1>6, WakeTyped DEF EnqueueCleanup
  <2> QED BY <1>0, <1>6, <2>1 DEF EnqueueCleanup
<1>7. CASE DeleteFault(r)
  <2>1. LostTypeOK'
    BY <1>0, <1>7, DeletionTyped, LoseTyped DEF DeleteFault
  <2> QED BY <1>0, <1>7, <2>1, ReleaseTyped, FaultTyped DEF DeleteFault
<1> QED
  BY <1>1, <1>2, <1>3, <1>4, <1>5, <1>6, <1>7 DEF DeleteRequest, DeleterStep

LEMMA CleanerTyped ==
    ASSUME TypeOK, NEW k \in Cleaners, CleanerStep(k) \/ CleanerFault(k)
    PROVE  CatalogTypeOK' /\ DeletionTypeOK'
<1> USE Frame DEF TypeOK, CatalogTypeOK, DeletionTypeOK
<1> DEFINE self == cleaner[k]
           R == DeletionRecord({"points", "file", "check", "mark"})
<1>0. k \in Transactions /\ self \in R /\ IdleDeletion \in R
  BY DEF Transactions, DeletionRecord
<1>a. ASSUME self.pc # "idle"
      PROVE  self \in [pc : {"points", "file", "check", "mark"}, document : Documents,
                       todo : SUBSET Versions, chosen : SUBSET Versions,
                       marked : SUBSET Versions]
  BY <1>0, <1>a, DeletionTyped
<1>1. CASE \E d \in Documents : Purge(k, d)
  <2> PICK d \in Documents : Purge(k, d)
    BY <1>1
  <2>1. cleaner' \in [Cleaners -> R]
    BY DEF Purge, DeletionRecord, WithStatus, VersionsOf
  <2>2. QueuesTypeOK'
    BY PopTyped DEF Purge, QueuesTypeOK
  <2> QED BY <2>1, <2>2 DEF Purge
<1>2. CASE \E v \in Versions : DropPoints(k, v)
  <2> PICK v \in Versions : DropPoints(k, v)
    BY <1>2
  <2>1. [self EXCEPT !.pc = "file"] \in R
    BY <1>a DEF DropPoints, DeletionRecord
  <2>2. StoresTypeOK'
    BY DEF DropPoints, StoresTypeOK
  <2> QED BY <2>1, <2>2 DEF DropPoints
<1>3. CASE \E v \in Versions : DropFile(k, v)
  <2> PICK v \in Versions : DropFile(k, v)
    BY <1>3
  <2>1. [self EXCEPT !.pc = "check"] \in R
    BY <1>a DEF DropFile, DeletionRecord
  <2>2. StoresTypeOK'
    BY DEF DropFile, StoresTypeOK
  <2> QED BY <2>1, <2>2 DEF DropFile
<1>9. CASE \E v \in Versions : CheckStatus(k, v)
  <2> PICK v \in Versions : CheckStatus(k, v)
    BY <1>9
  <2>1. [self EXCEPT !.pc = "mark"] \in R
        /\ [self EXCEPT !.pc = "points", !.todo = @ \ {v}] \in R
    BY <1>a DEF CheckStatus, DeletionRecord
  <2>2. cleaner' \in [Cleaners -> R]
    BY <2>1 DEF CheckStatus
  <2> QED BY <2>2 DEF CheckStatus
<1>4. CASE \E v \in Versions : MarkDeleted(k, v)
  <2> PICK v \in Versions : MarkDeleted(k, v)
    BY <1>4
  <2>1. [self EXCEPT !.pc = "points", !.todo = @ \ {v}, !.marked = @ \cup {v}] \in R
    BY <1>a DEF MarkDeleted, DeletionRecord
  <2>2. LocksTypeOK'
    BY <1>0, LockTyped DEF MarkDeleted
  <2>3. cleaner' \in [Cleaners -> R]
    BY <2>1 DEF MarkDeleted
  <2> QED BY <2>2, <2>3 DEF MarkDeleted
<1>5. CASE \/ \E v \in Versions : PurgeConflict(k, v)
           \/ PurgeExhausted(k)
  <2>1. LostTypeOK'
    BY <1>a, <1>5, LoseTyped DEF PurgeConflict, PurgeExhausted, Refused
  <2> QED BY <1>0, <1>5, <2>1, ReleaseTyped DEF PurgeConflict, PurgeExhausted
<1>6. CASE FinishPurge(k)
  <2>1. version' \in [Versions -> VersionRow]
    BY <1>6, SaveStatusTyped DEF FinishPurge, VersionStatus
  <2>2. RowsTypeOK'
    BY <1>6, <2>1 DEF FinishPurge, RowsTypeOK
  <2> QED BY <1>0, <1>6, <2>2, ReleaseTyped DEF FinishPurge
<1>7. CASE PurgeRetry(k) \/ PurgeRefused(k)
  <2>1. QueuesTypeOK' /\ LostTypeOK'
    BY <1>7, WakeTyped DEF PurgeRetry, PurgeRefused
  <2> QED BY <1>0, <1>7, <2>1, ReleaseTyped, FaultTyped DEF PurgeRetry, PurgeRefused
<1>8. CASE PurgeLost(k)
  <2>1. LostTypeOK'
    BY <1>a, <1>8, LoseTyped DEF PurgeLost
  <2> QED BY <1>0, <1>8, <2>1, ReleaseTyped, FaultTyped DEF PurgeLost
<1> QED
  BY <1>1, <1>2, <1>3, <1>4, <1>5, <1>6, <1>7, <1>8, <1>9 DEF CleanerStep, CleanerFault

-----------------------------------------------------------------------------
(***************************************************************************)
(* Uploads                                                                 *)
(***************************************************************************)
\* What an upload's record holds at each step.
LEMMA UploadTyped ==
    ASSUME NEW r \in UploadRecord
    PROVE  /\ r.pc \in {"lock", "put", "insert"} \cup Undoing =>
                r.document \in Documents /\ r.hash \in Hashes
           /\ r.pc \in {"put", "insert", "wake"} \cup Undoing => r.version \in Versions
           /\ r.pc = "lock" =>
                r \in [pc : {"lock"}, document : Documents, isNew : {FALSE}, version : {None},
                       hash : Hashes]
           /\ r.pc \in {"put", "insert"} \cup Undoing =>
                r \in [pc : {"put", "insert"} \cup Undoing, document : Documents,
                       isNew : BOOLEAN, version : Versions, hash : Hashes]
<1> USE DEF Undoing
<1>1. CASE r = IdleUpload
  BY <1>1 DEF IdleUpload
<1>2. CASE r \in [pc : {"lock"}, document : Documents, isNew : {FALSE}, version : {None},
                  hash : Hashes]
  BY <1>2
<1>3. CASE r \in [pc : {"put", "insert"} \cup Undoing, document : Documents,
                  isNew : BOOLEAN, version : Versions, hash : Hashes]
  BY <1>3
<1>4. CASE r \in [pc : {"wake"}, document : {None}, isNew : {FALSE}, version : Versions,
                  hash : {None}]
  BY <1>4
<1> QED BY <1>1, <1>2, <1>3, <1>4 DEF UploadRecord

\* The records of an idle upload and of one that is to wake the worker.
LEMMA UploadRecords ==
    /\ IdleUpload \in UploadRecord
    /\ \A v \in Versions : [IdleUpload EXCEPT !.pc = "wake", !.version = v] \in UploadRecord
BY DEF UploadRecord, IdleUpload

LEMMA DrawTyped ==
    ASSUME lastVersion \in Nat, DrawVersion
    PROVE  lastVersion' \in Nat
BY DEF DrawVersion

LEMMA RequeueTyped ==
    ASSUME RowsTypeOK, NEW e \in Versions, NEW u, Requeue(e, u)
    PROVE  version' \in [Versions -> VersionRow] /\ job' \in [Versions -> JobRow]
BY DEF RowsTypeOK, Requeue, VersionRow, JobRow, VersionStatus, JobStatus

LEMMA AddDocumentTyped ==
    ASSUME RowsTypeOK, NEW u, AddDocument(u)
    PROVE  document' \in [Documents -> DocumentRow]
BY DEF RowsTypeOK, AddDocument, DocumentRow

LEMMA UploaderTyped ==
    ASSUME TypeOK, NEW u \in Uploaders, UploadRequest(u) \/ UploaderStep(u) \/ UploaderFault(u)
    PROVE  CatalogTypeOK' /\ UploadTypeOK'
<1> USE Frame, UploadRecords DEF TypeOK, CatalogTypeOK, UploadTypeOK
<1> DEFINE self == uploader[u]
<1>0. u \in Transactions /\ self \in UploadRecord
  BY DEF Transactions
<1>1. CASE \E e \in Versions : UploadFailed(u, e)
  <2>1. RowsTypeOK'
    BY <1>1, RequeueTyped DEF UploadFailed, RowsTypeOK
  <2> QED BY <1>1, <2>1 DEF UploadFailed
<1>2. CASE \E h \in Hashes, d \in Documents : UploadDocument(u, h, d)
  <2> PICK h \in Hashes, d \in Documents : UploadDocument(u, h, d)
    BY <1>2
  <2>1. uploader' \in [Uploaders -> UploadRecord]
    BY DEF UploadDocument, DrawVersion, UploadRecord
  <2>2. lastVersion' \in Nat
    BY DrawTyped DEF UploadDocument
  <2> QED BY <2>1, <2>2 DEF UploadDocument
<1>3. CASE \E h \in Hashes, d \in Documents : UploadVersion(u, h, d)
  <2> PICK h \in Hashes, d \in Documents : UploadVersion(u, h, d)
    BY <1>3
  <2>1. [pc |-> "lock", document |-> d, isNew |-> FALSE, version |-> None, hash |-> h]
          \in UploadRecord
    BY DEF UploadRecord
  <2> QED BY <2>1 DEF UploadVersion
<1>4. CASE NumberVersion(u)
  <2>1. [self EXCEPT !.pc = "put", !.version = lastVersion + 1] \in UploadRecord
    BY <1>0, <1>4, UploadTyped DEF NumberVersion, DrawVersion, UploadRecord
  <2>2. LocksTypeOK'
    BY <1>0, <1>4, LockTyped DEF NumberVersion
  <2>3. lastVersion' \in Nat
    BY <1>4, DrawTyped DEF NumberVersion
  <2> QED BY <1>4, <2>1, <2>2, <2>3 DEF NumberVersion
<1>5. CASE PutFile(u)
  <2>1. self.version \in Versions /\ [self EXCEPT !.pc = "insert"] \in UploadRecord
    BY <1>0, <1>5, UploadTyped DEF PutFile, UploadRecord
  <2>2. StoresTypeOK'
    BY <1>5, <2>1 DEF PutFile, StoresTypeOK
  <2> QED BY <1>5, <2>1, <2>2 DEF PutFile
<1>6. CASE InsertVersion(u)
  <2>1. self.version \in Versions /\ self.document \in Documents /\ self.hash \in Hashes
    BY <1>0, <1>6, UploadTyped DEF InsertVersion
  <2>2. version' \in [Versions -> VersionRow]
    BY <1>6, <2>1 DEF InsertVersion, RowsTypeOK, VersionRow, VersionStatus
  <2>3. job' \in [Versions -> JobRow]
    BY <1>6, <2>1 DEF InsertVersion, RowsTypeOK, JobRow, JobStatus
  <2>4. RowsTypeOK'
    BY <1>6, <2>2, <2>3, AddDocumentTyped DEF InsertVersion, RowsTypeOK
  <2> QED BY <1>6, <2>1, <2>4, ReleaseTyped DEF InsertVersion
<1>7. CASE InsertRefused(u) \/ PutFails(u) \/ InsertFails(u)
  <2>1. \A pc \in Undoing : [self EXCEPT !.pc = pc] \in UploadRecord
    BY <1>0, <1>7, UploadTyped DEF InsertRefused, PutFails, InsertFails, UploadRecord
  <2>2. UploadTypeOK'
    BY <1>7, <2>1 DEF InsertRefused, PutFails, InsertFails, Undoing
  <2> QED BY <1>7, <2>2, ReleaseTyped, FaultTyped DEF InsertRefused, PutFails, InsertFails
<1>8. CASE UndoAndRequeue(u)
  <2> PICK e \in FailedWithHash(u) :
        /\ Requeue(e, u)
        /\ uploader' = [uploader EXCEPT ![u] = [IdleUpload EXCEPT !.pc = "wake", !.version = e]]
    BY <1>8 DEF UndoAndRequeue
  <2>1. e \in Versions
    BY DEF FailedWithHash, WithHash
  <2>2. RowsTypeOK'
    BY <1>8, <2>1, RequeueTyped, AddDocumentTyped DEF UndoAndRequeue, RowsTypeOK
  <2>3. StoresTypeOK'
    BY <1>8 DEF UndoAndRequeue, StoresTypeOK
  <2> QED BY <1>8, <2>1, <2>2, <2>3, ReleaseTyped DEF UndoAndRequeue
<1>9. CASE EnqueueIngestion(u)
  <2>1. QueuesTypeOK' /\ LostTypeOK'
    BY <1>9, WakeTyped DEF EnqueueIngestion
  <2> QED BY <1>9, <2>1 DEF EnqueueIngestion
<1>10. CASE UploadCrash(u)
  <2>1. LostTypeOK'
    BY <1>0, <1>10, UploadTyped, LoseTyped DEF UploadCrash
  <2> QED BY <1>10, <2>1, ReleaseTyped, FaultTyped DEF UploadCrash
<1>11. CASE UndoUpload(u) \/ UndoFails(u)
  <2>1. StoresTypeOK'
    BY <1>11 DEF UndoUpload, UndoFails, StoresTypeOK
  <2> QED BY <1>11, <2>1, ReleaseTyped, FaultTyped DEF UndoUpload, UndoFails
<1> QED
  BY <1>1, <1>2, <1>3, <1>4, <1>5, <1>6, <1>7, <1>8, <1>9, <1>10, <1>11
     DEF UploadRequest, UploaderStep, UploaderFault

-----------------------------------------------------------------------------
LEMMA InitTyped == Init => TypeOK
<1> SUFFICES ASSUME Init PROVE TypeOK
  OBVIOUS
<1>1. CatalogTypeOK
  BY IndexAtStartAssumption
     DEF Init, CatalogInit, CatalogTypeOK, RowsTypeOK, LocksTypeOK, StoresTypeOK, QueuesTypeOK,
         LostTypeOK, DocumentRow, VersionRow, JobRow
<1>2. WorkerTypeOK /\ DeletionTypeOK /\ UploadTypeOK
  BY DEF Init, WorkerInit, DeletionInit, UploadInit, WorkerTypeOK, WorkerRecord,
         DeletionTypeOK, DeletionRecord, UploadTypeOK, UploadRecord
<1> QED BY <1>1, <1>2 DEF TypeOK

LEMMA StepTyped == TypeOK /\ [Next]_vars => TypeOK'
<1> SUFFICES ASSUME TypeOK, [Next]_vars PROVE TypeOK'
  OBVIOUS
<1> USE DEF TypeOK
<1>0. /\ UNCHANGED worker => WorkerTypeOK'
      /\ UNCHANGED <<deleter, cleaner>> => DeletionTypeOK'
      /\ UNCHANGED uploader => UploadTypeOK'
  BY DEF WorkerTypeOK, DeletionTypeOK, UploadTypeOK
<1>1. CASE \E w \in Workers : Work(w) \/ WorkFault(w)
  BY <1>0, <1>1, WorkerTyped DEF Work, WorkFault
<1>2. CASE \E k \in Cleaners : Clean(k) \/ CleanFault(k)
  BY <1>0, <1>2, CleanerTyped DEF Clean, CleanFault
<1>3. CASE \E r \in Deleters : RequestDelete(r) \/ HandleDelete(r) \/ FailDelete(r)
  BY <1>0, <1>3, DeleterTyped DEF RequestDelete, HandleDelete, FailDelete
<1>4. CASE \E u \in Uploaders : RequestUpload(u) \/ HandleUpload(u) \/ FailUpload(u)
  BY <1>0, <1>4, UploaderTyped DEF RequestUpload, HandleUpload, FailUpload
<1>5. CASE BreakDeadlock
  <2>1. ASSUME NEW u \in Uploaders, AbortUpload(u) PROVE TypeOK'
    <3>0. uploader[u] \in UploadRecord
      BY DEF UploadTypeOK
    <3>1. CASE UNCHANGED <<files, locks>>
      <4>1. uploader[u].pc = "insert" \/ UploadTypeOK'
        BY <2>1, UploadRecords DEF AbortUpload, UploadTypeOK
      <4>2. uploader[u].pc = "insert" => [uploader[u] EXCEPT !.pc = "refused"] \in UploadRecord
        BY <3>0, UploadTyped DEF UploadRecord, Undoing
      <4>3. UploadTypeOK'
        BY <2>1, <4>1, <4>2 DEF AbortUpload, UploadTypeOK
      <4>4. StoresTypeOK'
        BY <2>1, <3>1 DEF AbortUpload, CatalogTypeOK, StoresTypeOK
      <4> QED BY <1>0, <2>1, <3>1, <4>3, <4>4, Frame DEF AbortUpload, CatalogTypeOK
    <3>2. CASE ReleaseLocks(u)
      <4>1. StoresTypeOK'
        BY <2>1 DEF AbortUpload, CatalogTypeOK, StoresTypeOK
      <4>2. uploader[u].pc = "insert" => [uploader[u] EXCEPT !.pc = "refused"] \in UploadRecord
        BY <3>0, UploadTyped DEF UploadRecord, Undoing
      <4>3. UploadTypeOK'
        BY <2>1, <4>2, UploadRecords DEF AbortUpload, UploadTypeOK
      <4> QED BY <1>0, <2>1, <3>2, <4>1, <4>3, ReleaseTyped, Frame DEF AbortUpload, CatalogTypeOK
    <3> QED BY <2>1, <3>1, <3>2 DEF AbortUpload
  <2>2. ASSUME NEW r \in Deleters, AbortDelete(r) PROVE TypeOK'
    <3>1. DeletionTypeOK'
      BY <2>2 DEF AbortDelete, DeletionTypeOK, DeletionRecord
    <3> QED BY <1>0, <2>2, <3>1, ReleaseTyped, Frame DEF AbortDelete, CatalogTypeOK
  <2>3. ASSUME NEW w \in Workers, AbortWork(w) PROVE TypeOK'
    <3>1. WorkerTypeOK'
      BY <2>3 DEF AbortWork, Idle, WorkerTypeOK, WorkerRecord
    <3>2. LostTypeOK'
      BY <2>3, ClaimedTyped, LoseTyped DEF AbortWork, At, CatalogTypeOK
    <3> QED BY <3>2, <1>0, <2>3, <3>1, ReleaseTyped, Frame DEF AbortWork, CatalogTypeOK
  <2> QED BY <1>5, <2>1, <2>2, <2>3 DEF BreakDeadlock
<1>6. CASE UNCHANGED vars
  BY <1>0, <1>6, Frame DEF vars
<1> QED BY <1>1, <1>2, <1>3, <1>4, <1>5, <1>6 DEF Next, Quiescent

\* Every variable of the document side keeps its type, whatever the number of
\* documents, versions and processes.
THEOREM TypeCorrect == Spec => []TypeOK
BY InitTyped, StepTyped, PTL DEF Spec
=============================================================================
