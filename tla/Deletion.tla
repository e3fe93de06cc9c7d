------------------------------ MODULE Deletion ------------------------------
(***************************************************************************)
(* The delete route and the cleanup worker: application/deletion.py.       *)
(* tombstone_document runs in the API's transaction and wakes the worker;  *)
(* purge_deleted_document drops the points and the files of the document's *)
(* versions one after the other and marks them DELETED in one transaction. *)
(***************************************************************************)
EXTENDS Catalog

VARIABLES deleter, cleaner

(***************************************************************************)
(* todo    versions the request has yet to handle                          *)
(* chosen  of those, the ones the request read as READY                    *)
(* marked  versions updated in the open transaction                        *)
(***************************************************************************)
IdleDeletion == [pc |-> "idle", document |-> None, todo |-> {}, chosen |-> {}, marked |-> {}]

DeletionRecord(pcs) ==
    {IdleDeletion} \cup
    [pc : pcs, document : Documents, todo : SUBSET Versions,
     chosen : SUBSET Versions, marked : SUBSET Versions]

DeletionTypeOK ==
    /\ deleter \in [Deleters -> DeletionRecord({"mark", "wake"})]
    /\ cleaner \in [Cleaners -> DeletionRecord({"points", "file", "check", "mark"})]

DeletionInit ==
    /\ deleter = [r \in Deleters |-> IdleDeletion]
    /\ cleaner = [k \in Cleaners |-> IdleDeletion]

WithStatus(vs, s) == {v \in vs : version[v].status \in s}

\* The commit of a transaction that moved the versions in marked to status s.
SaveStatus(marked, s) ==
    version' = [v \in Versions |->
                    IF v \in marked THEN [version[v] EXCEPT !.status = s] ELSE version[v]]

(***************************************************************************)
(* tombstone_document                                                      *)
(***************************************************************************)
\* What is left of the request is to enqueue the cleanup.
AskCleanup(r, d) ==
    deleter' = [deleter EXCEPT ![r] = [IdleDeletion EXCEPT !.pc = "wake", !.document = d]]

\* A document that is tombstoned already only has its cleanup enqueued again.
DeleteAgain(r, d) ==
    /\ deleter[r].pc = "idle"
    /\ document[d].state = "deleted"
    /\ cleanupQueue[d] < MaxCleanups
    /\ AskCleanup(r, d)
    /\ UNCHANGED <<catalogVars, cleaner>>

\* Mutant: the cleanup is enqueued before the tombstone is committed.
DeleteEnqueueFirst(r, d) ==
    /\ deleter[r].pc = "idle"
    /\ document[d].state = "live"
    /\ LET todo == VersionsOf(d) \ WithStatus(Versions, {"DELETING", "DELETED"}) IN
       deleter' = [deleter EXCEPT ![r] =
                     [pc |-> "mark", document |-> d, todo |-> todo,
                      chosen |-> WithStatus(todo, {"READY"}), marked |-> {}]]
    /\ cleanupQueue' = Push(cleanupQueue, d)
    /\ UNCHANGED <<rows, locks, stores, ingestQueue, lastVersion, faults, lost, cleaner>>

\* Reads the document and the statuses of its versions.
Delete(r, d) ==
    /\ deleter[r].pc = "idle"
    /\ document[d].state = "live"
    /\ LET todo == VersionsOf(d) \ WithStatus(Versions, {"DELETING", "DELETED"}) IN
       deleter' = [deleter EXCEPT ![r] =
                     [pc |-> "mark", document |-> d, todo |-> todo,
                      chosen |-> WithStatus(todo, {"READY"}), marked |-> {}]]
    /\ UNCHANGED <<catalogVars, cleaner>>

\* One version: the READY transition, or mark_deleting for any other status.
\* mark_deleting that matches no row leaves the version as it is, silently.
MarkDeleting(r, v) ==
    /\ deleter[r].pc = "mark"
    /\ IsFirst(v, deleter[r].todo)
    /\ LET from == IF v \in deleter[r].chosen THEN {"READY"} ELSE MarkableDeleting
           hit == version[v].status \in from
       IN
       /\ VersionFree(v, r)
       /\ v \in deleter[r].chosen => hit
       /\ deleter' = [deleter EXCEPT ![r].todo = @ \ {v},
                                     ![r].marked = IF hit THEN @ \cup {v} ELSE @]
       /\ IF hit THEN LockVersion(v, r) ELSE UNCHANGED versionLock
    /\ UNCHANGED <<rows, jobLock, documentLock, stores, queues, lastVersion, faults, lost, cleaner>>

\* The READY transition matches no row: OptimisticConcurrencyError, rolled back.
DeleteConflict(r, v) ==
    /\ deleter[r].pc = "mark"
    /\ IsFirst(v, deleter[r].todo)
    /\ VersionFree(v, r)
    /\ v \in deleter[r].chosen
    /\ version[v].status # "READY"
    /\ deleter' = [deleter EXCEPT ![r] = IdleDeletion]
    /\ ReleaseLocks(r)
    /\ UNCHANGED <<rows, stores, queues, lastVersion, faults, lost, cleaner>>

\* Mutant: the document's row is left as it is.
TombstoneVersionsOnly(r) ==
    LET d == deleter[r].document IN
    /\ deleter[r].pc = "mark"
    /\ deleter[r].todo = {}
    /\ DocumentFree(d, r)
    /\ SaveStatus(deleter[r].marked, "DELETING")
    /\ ReleaseLocks(r)
    /\ AskCleanup(r, d)
    /\ UNCHANGED <<document, job, chunked, stores, queues, lastVersion, faults, lost, cleaner>>

\* mark_deleted on the document, and the commit.
Tombstone(r) ==
    LET d == deleter[r].document IN
    /\ deleter[r].pc = "mark"
    /\ deleter[r].todo = {}
    /\ DocumentFree(d, r)
    /\ document' = [document EXCEPT ![d] = [state |-> "deleted", active |-> None]]
    /\ SaveStatus(deleter[r].marked, "DELETING")
    /\ ReleaseLocks(r)
    /\ AskCleanup(r, d)
    /\ UNCHANGED <<job, chunked, stores, queues, lastVersion, faults, lost, cleaner>>

EnqueueCleanup(r) ==
    LET d == deleter[r].document IN
    /\ deleter[r].pc = "wake"
    /\ WakeCleanup(d)
    /\ deleter' = [deleter EXCEPT ![r] = IdleDeletion]
    /\ UNCHANGED <<rows, locks, stores, ingestQueue, lastVersion, faults, cleaner>>

\* The API process dies, the client disconnects, or Redis refuses the message.
DeleteFault(r) ==
    /\ \/ deleter[r].pc # "idle" /\ Fault("crash")
       \/ deleter[r].pc = "wake" /\ Fault("redis")
    /\ IF deleter[r].pc = "wake" THEN LoseCleanup(deleter[r].document) ELSE UNCHANGED lost
    /\ ReleaseLocks(r)
    /\ deleter' = [deleter EXCEPT ![r] = IdleDeletion]
    /\ UNCHANGED <<rows, stores, queues, lastVersion, cleaner>>

DeleteRequest(r) == \E d \in Documents : DeleteAgain(r, d) \/ Delete(r, d)

DeleterStep(r) ==
    \/ \E v \in Versions : MarkDeleting(r, v) \/ DeleteConflict(r, v)
    \/ Tombstone(r) \/ EnqueueCleanup(r)

(***************************************************************************)
(* purge_deleted_document                                                  *)
(***************************************************************************)
\* Reads the versions of the document that are not purged.
Purge(k, d) ==
    /\ cleaner[k].pc = "idle"
    /\ cleanupQueue[d] > 0
    /\ cleanupQueue' = Pop(cleanupQueue, d)
    /\ LET todo == VersionsOf(d) \ WithStatus(Versions, {"DELETED"}) IN
       cleaner' = [cleaner EXCEPT ![k] =
                     [pc |-> "points", document |-> d, todo |-> todo,
                      chosen |-> {}, marked |-> {}]]
    /\ UNCHANGED <<rows, locks, stores, ingestQueue, lastVersion, faults, lost, deleter>>

\* delete_version_points
DropPoints(k, v) ==
    /\ cleaner[k].pc = "points"
    /\ IsFirst(v, cleaner[k].todo)
    /\ index
    /\ points' = [points EXCEPT ![v] = {}]
    /\ cleaner' = [cleaner EXCEPT ![k].pc = "file"]
    /\ UNCHANGED <<rows, locks, index, files, queues, lastVersion, faults, lost, deleter>>

\* storage.delete
DropFile(k, v) ==
    /\ cleaner[k].pc = "file"
    /\ IsFirst(v, cleaner[k].todo)
    /\ files' = files \ {v}
    /\ cleaner' = [cleaner EXCEPT ![k].pc = "check"]
    /\ UNCHANGED <<rows, locks, points, index, queues, lastVersion, faults, lost, deleter>>

\* The status is read again; a version that is not DELETING is done.
CheckStatus(k, v) ==
    /\ cleaner[k].pc = "check"
    /\ IsFirst(v, cleaner[k].todo)
    /\ IF version[v].status = "DELETING"
         THEN cleaner' = [cleaner EXCEPT ![k].pc = "mark"]
         ELSE cleaner' = [cleaner EXCEPT ![k].pc = "points", ![k].todo = @ \ {v}]
    /\ UNCHANGED <<catalogVars, deleter>>

MarkDeleted(k, v) ==
    /\ cleaner[k].pc = "mark"
    /\ IsFirst(v, cleaner[k].todo)
    /\ VersionFree(v, k)
    /\ version[v].status = "DELETING"
    /\ LockVersion(v, k)
    /\ cleaner' = [cleaner EXCEPT ![k].pc = "points", ![k].todo = @ \ {v},
                                  ![k].marked = @ \cup {v}]
    /\ UNCHANGED <<rows, jobLock, documentLock, stores, queues, lastVersion, faults, lost, deleter>>

\* Another cleanup was first: OptimisticConcurrencyError, and the job fails.
PurgeConflict(k, v) ==
    /\ cleaner[k].pc = "mark"
    /\ IsFirst(v, cleaner[k].todo)
    /\ VersionFree(v, k)
    /\ version[v].status # "DELETING"
    /\ LoseCleanup(cleaner[k].document)
    /\ cleaner' = [cleaner EXCEPT ![k] = IdleDeletion]
    /\ ReleaseLocks(k)
    /\ UNCHANGED <<rows, stores, queues, lastVersion, faults, deleter>>

\* delete_version_points before any ingestion has created the collection: Qdrant
\* answers with an error, which is a TransientIngestionError like any other.
Refused(k) == cleaner[k].pc = "points" /\ cleaner[k].todo # {} /\ ~index

\* Mutant: the error of Qdrant is logged, and the message acknowledged.
PurgeRefusedQuietly(k) ==
    /\ Refused(k)
    /\ cleaner' = [cleaner EXCEPT ![k] = IdleDeletion]
    /\ ReleaseLocks(k)
    /\ UNCHANGED <<rows, stores, queues, lastVersion, faults, lost, deleter>>

\* A Retry: rolled back, and arq delivers the message again.
PurgeRefused(k) ==
    /\ Refused(k)
    /\ WakeCleanup(cleaner[k].document)
    /\ cleaner' = [cleaner EXCEPT ![k] = IdleDeletion]
    /\ ReleaseLocks(k)
    /\ UNCHANGED <<rows, stores, ingestQueue, lastVersion, faults, deleter>>

\* The message was refused max_tries times.  They are not counted: any refusal may
\* be the last one.
PurgeExhausted(k) ==
    /\ Refused(k)
    /\ LoseCleanup(cleaner[k].document)
    /\ cleaner' = [cleaner EXCEPT ![k] = IdleDeletion]
    /\ ReleaseLocks(k)
    /\ UNCHANGED <<rows, stores, queues, lastVersion, faults, deleter>>

\* The commit.  A crash between it and the acknowledgement delivers the message
\* of a purged document again, which is what DeleteAgain does too.
FinishPurge(k) ==
    /\ cleaner[k].pc = "points"
    /\ cleaner[k].todo = {}
    /\ SaveStatus(cleaner[k].marked, "DELETED")
    /\ cleaner' = [cleaner EXCEPT ![k] = IdleDeletion]
    /\ ReleaseLocks(k)
    /\ UNCHANGED <<document, job, chunked, stores, queues, lastVersion, faults, lost, deleter>>

\* Qdrant is unavailable, which is a Retry, or the worker process dies: rolled
\* back and delivered again.
PurgeRetry(k) ==
    /\ \/ cleaner[k].pc # "idle" /\ Fault("crash")
       \/ cleaner[k].pc = "points" /\ cleaner[k].todo # {} /\ Fault("qdrant")
    /\ WakeCleanup(cleaner[k].document)
    /\ cleaner' = [cleaner EXCEPT ![k] = IdleDeletion]
    /\ ReleaseLocks(k)
    /\ UNCHANGED <<rows, stores, ingestQueue, lastVersion, deleter>>

\* A StorageError, which is not a TransientIngestionError, a database error or
\* job_timeout, or the last of the tries: rolled back and not delivered again.
PurgeLost(k) ==
    /\ \/ cleaner[k].pc # "idle" /\ Fault("timeout")
       \/ cleaner[k].pc = "file" /\ Fault("storage")
       \/ cleaner[k].pc = "points" /\ cleaner[k].todo # {} /\ Fault("qdrant")
    /\ LoseCleanup(cleaner[k].document)
    /\ cleaner' = [cleaner EXCEPT ![k] = IdleDeletion]
    /\ ReleaseLocks(k)
    /\ UNCHANGED <<rows, stores, queues, lastVersion, deleter>>

CleanerStep(k) ==
    \/ \E d \in Documents : Purge(k, d)
    \/ \E v \in Versions :
          \/ DropPoints(k, v) \/ DropFile(k, v)
          \/ CheckStatus(k, v) \/ MarkDeleted(k, v) \/ PurgeConflict(k, v)
    \/ FinishPurge(k) \/ PurgeRefused(k) \/ PurgeExhausted(k)

CleanerFault(k) == PurgeRetry(k) \/ PurgeLost(k)
=============================================================================
