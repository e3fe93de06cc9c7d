------------------------------ MODULE Catalog ------------------------------
(***************************************************************************)
(* The state the parts of the system share: the committed PostgreSQL rows, *)
(* the row locks that open transactions hold, the Qdrant points, the files *)
(* of the object store and the messages in the arq queue.                  *)
(*                                                                         *)
(* PostgreSQL runs at READ COMMITTED.  A row below is its last committed   *)
(* value; what a transaction has written and not committed is in the local *)
(* record of the process that runs it, and is applied by its commit step.  *)
(* An UPDATE of a row that another transaction has updated waits for that  *)
(* transaction and then re-evaluates its WHERE clause on the new row.      *)
(***************************************************************************)
EXTENDS Lifecycle, Naturals, FiniteSets

CONSTANTS
    Documents,    \* document ids
    Versions,     \* document version ids, numbered in the order of creation
    Hashes,       \* content hashes, of one collection
    Chunks,       \* the chunks a version is cut into; an upsert batch is one chunk
    Workers,      \* executions of ingest_document_version
    Cleaners,     \* executions of cleanup_deleted_document
    Uploaders,    \* handlers of the two upload routes
    Deleters,     \* handlers of the delete route
    MaxAttempts,  \* ingestion_max_attempts
    FaultKinds,   \* the kinds of fault the environment may inject
    MaxFaults,    \* bound: how many of them
    MaxCleanups,  \* bound: outstanding cleanup messages of a document
    IndexAtStart, \* whether Qdrant may have its collection when the service begins
    None

Transactions == Workers \cup Cleaners \cup Uploaders \cup Deleters

ASSUME VersionsAssumption == Versions \subseteq Nat \ {0}
ASSUME MaxAttemptsAssumption == MaxAttempts \in Nat \ {0}
ASSUME FaultKindsAssumption ==
    FaultKinds \subseteq {"crash", "timeout", "qdrant", "storage", "redis"}
ASSUME BoundsAssumption == MaxFaults \in Nat /\ MaxCleanups \in Nat
ASSUME IndexAtStartAssumption == IndexAtStart \subseteq BOOLEAN
ASSUME NoneAssumption ==
    None \notin Transactions \cup Versions \cup Documents \cup Hashes
ASSUME ProcessesAssumption ==
    /\ Workers \cap Cleaners = {} /\ Workers \cap Uploaders = {}
    /\ Workers \cap Deleters = {} /\ Cleaners \cap Uploaders = {}
    /\ Cleaners \cap Deleters = {} /\ Uploaders \cap Deleters = {}

VARIABLES
    document,      \* documents: live until deleted_at is set; active_version_id
    version,       \* document_versions: ingestion_status, document_id, content_hash
    job,           \* ingestion_jobs: status, attempt_count
    chunked,       \* versions whose pages and chunks rows are committed
    versionLock,   \* the transaction that has updated the version's row
    jobLock,       \* the transaction that has updated the job's row
    documentLock,  \* the transaction that has the document's row FOR UPDATE
    points,        \* named vectors in Qdrant, by version
    index,         \* whether Qdrant's collection exists
    files,         \* versions whose source PDF is stored
    ingestQueue,   \* outstanding deliveries of ingest_document_version
    cleanupQueue,  \* outstanding deliveries of cleanup_deleted_document
    lastVersion,   \* the last version id that was drawn
    faults,        \* faults so far
    lostIngestions, \* history: versions whose last message or request an error ended,
    lostCleanups    \* and documents whose last cleanup one ended; no action reads them

rows == <<document, version, job, chunked>>
locks == <<versionLock, jobLock, documentLock>>
stores == <<points, index, files>>
queues == <<ingestQueue, cleanupQueue>>
lost == <<lostIngestions, lostCleanups>>
catalogVars == <<rows, locks, stores, queues, lastVersion, faults, lost>>

\* A point carries a named vector of each kind, written by two upserts.
Vectors == Chunks \X {"dense", "sparse"}
Complete(v) == points[v] = Vectors

DocumentRow == [state : {"absent", "live", "deleted"}, active : Versions \cup {None}]
VersionRow ==
    [status : VersionStatus \cup {"absent"}, document : Documents \cup {None},
     hash : Hashes \cup {None}]
JobRow == [status : JobStatus \cup {"absent"}, attempts : Nat]

RowsTypeOK ==
    /\ document \in [Documents -> DocumentRow]
    /\ version \in [Versions -> VersionRow]
    /\ job \in [Versions -> JobRow]
    /\ chunked \in SUBSET Versions

LocksTypeOK ==
    /\ versionLock \in [Versions -> Transactions \cup {None}]
    /\ jobLock \in [Versions -> Transactions \cup {None}]
    /\ documentLock \in [Documents -> Transactions \cup {None}]

StoresTypeOK ==
    points \in [Versions -> SUBSET Vectors] /\ index \in BOOLEAN /\ files \in SUBSET Versions

QueuesTypeOK == ingestQueue \in [Versions -> Nat] /\ cleanupQueue \in [Documents -> Nat]

LostTypeOK == lostIngestions \in SUBSET Versions /\ lostCleanups \in SUBSET Documents

CatalogTypeOK ==
    /\ RowsTypeOK /\ LocksTypeOK /\ StoresTypeOK /\ QueuesTypeOK /\ LostTypeOK
    /\ lastVersion \in Nat /\ faults \in Nat

CatalogInit ==
    /\ document = [d \in Documents |-> [state |-> "absent", active |-> None]]
    /\ version = [v \in Versions |->
                    [status |-> "absent", document |-> None, hash |-> None]]
    /\ job = [v \in Versions |-> [status |-> "absent", attempts |-> 0]]
    /\ chunked = {}
    /\ versionLock = [v \in Versions |-> None]
    /\ jobLock = [v \in Versions |-> None]
    /\ documentLock = [d \in Documents |-> None]
    /\ points = [v \in Versions |-> {}]
    /\ index \in IndexAtStart
    /\ files = {}
    /\ ingestQueue = [v \in Versions |-> 0]
    /\ cleanupQueue = [d \in Documents |-> 0]
    /\ lastVersion = 0
    /\ faults = 0
    /\ lostIngestions = {}
    /\ lostCleanups = {}

\* versions.list_by_document: in the order of version_number.
VersionsOf(d) == {v \in Versions : version[v].document = d}
IsFirst(v, S) == v \in S /\ \A u \in S : v <= u

\* versions.get_by_content_hash; the partial unique index makes it unique.
WithHash(h) ==
    {v \in Versions : version[v].hash = h /\ version[v].status \notin {"absent", "DELETED"}}

\* Whether an UPDATE by t of v's row (its job's row) can go ahead.
VersionFree(v, t) == versionLock[v] \in {None, t}

\* Mutant: the claim does not wait for the row.
JobFreeUnlocked(v, t) == TRUE

JobFree(v, t) == jobLock[v] \in {None, t}
DocumentFree(d, t) == documentLock[d] \in {None, t}

LockVersion(v, t) == versionLock' = [versionLock EXCEPT ![v] = t]
LockJob(v, t) == jobLock' = [jobLock EXCEPT ![v] = t]
LockDocument(d, t) == documentLock' = [documentLock EXCEPT ![d] = t]

\* The end of t's transaction, by COMMIT or ROLLBACK.
ReleaseLocks(t) ==
    /\ versionLock' = [v \in Versions |-> IF versionLock[v] = t THEN None ELSE versionLock[v]]
    /\ jobLock' = [v \in Versions |-> IF jobLock[v] = t THEN None ELSE jobLock[v]]
    /\ documentLock' = [d \in Documents |->
                            IF documentLock[d] = t THEN None ELSE documentLock[d]]

\* Queue messages.
Push(queue, x) == [queue EXCEPT ![x] = @ + 1]
Pop(queue, x) == [queue EXCEPT ![x] = @ - 1]

\* A message is put in the queue: whatever was lost before, the work will be taken on.
WakeIngestion(v) ==
    /\ ingestQueue' = Push(ingestQueue, v)
    /\ lostIngestions' = lostIngestions \ {v}
    /\ UNCHANGED lostCleanups

WakeCleanup(d) ==
    /\ cleanupQueue' = Push(cleanupQueue, d)
    /\ lostCleanups' = lostCleanups \ {d}
    /\ UNCHANGED lostIngestions

\* A message, or a request before it sends one, ends in an error that nothing retries.
LoseIngestion(v) == lostIngestions' = lostIngestions \cup {v} /\ UNCHANGED lostCleanups
LoseCleanup(d) == lostCleanups' = lostCleanups \cup {d} /\ UNCHANGED lostIngestions

(***************************************************************************)
(* A fault of the environment, within the bound.                           *)
(*   crash    the process dies, or the client of a request disconnects     *)
(*   timeout  job_timeout, or a database error no handler catches          *)
(*   qdrant   Qdrant is unavailable to a cleanup (in the pipeline it is a  *)
(*            TransientIngestionError, which needs no budget)              *)
(*   storage  the object store raises StorageError                         *)
(*   redis    an enqueue raises QueueError                                 *)
(***************************************************************************)
Fault(kind) ==
    /\ kind \in FaultKinds
    /\ faults < MaxFaults
    /\ faults' = faults + 1

(***************************************************************************)
(* The retrieval store.  upsert_dense creates the point, or replaces it    *)
(* with one that has no sparse vector; upsert_sparse adds the vector to a  *)
(* point, and Qdrant refuses to update a missing one.                      *)
(***************************************************************************)
UpsertDense(v, c) ==
    points' = [points EXCEPT ![v] = (@ \ {<<c, "sparse">>}) \cup {<<c, "dense">>}]

UpsertSparse(v, c) ==
    /\ <<c, "dense">> \in points[v]
    /\ points' = [points EXCEPT ![v] = @ \cup {<<c, "sparse">>}]

\* Mutant: any READY version of a live document.
SearchableReady(v) ==
    /\ version[v].status = "READY"
    /\ document[version[v].document].state = "live"

(***************************************************************************)
(* What a query may retrieve (documents.list_searchable_version_ids).      *)
(***************************************************************************)
Searchable(v) ==
    \E d \in Documents :
        /\ document[d].state = "live"
        /\ document[d].active = v
        /\ version[v].status = "READY"
=============================================================================
