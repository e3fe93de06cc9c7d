----------------------------- MODULE Ingestion -----------------------------
(***************************************************************************)
(* The ingestion worker: ingest_document_version runs                      *)
(* process_ingestion_job in one transaction, from the claim of the job to  *)
(* the commit of its outcome.  The claim, the PROCESSING transition of a   *)
(* first attempt and the pages and chunks are committed with the outcome;  *)
(* the Qdrant upserts are visible at once and survive a rollback.          *)
(***************************************************************************)
EXTENDS Catalog

VARIABLE worker

(***************************************************************************)
(* pc       the next step of the worker                                    *)
(* version  the version it was delivered                                   *)
(* seen     the status it read at the start and goes on trusting:          *)
(*          "QUEUED" on a first attempt                                    *)
(* left     chunks the current indexing stage has yet to upsert            *)
(***************************************************************************)
IdleWorker == [pc |-> "idle", version |-> None, seen |-> "absent", left |-> {}]

Indexing == {"parse", "dense", "sparse", "verify"}
Failing == {"failUnparsed", "failParsed"}
Claimed == {"claimed", "finalize", "publish"} \cup Indexing \cup Failing

WorkerRecord ==
    {IdleWorker} \cup
    [pc : {"claim", "ack"} \cup Claimed, version : Versions, seen : Ingestible,
     left : SUBSET Chunks]

WorkerTypeOK == worker \in [Workers -> WorkerRecord]

WorkerInit == worker = [w \in Workers |-> IdleWorker]

At(w, pc) == worker[w].pc = pc
GoTo(w, pc) == worker' = [worker EXCEPT ![w].pc = pc]
Stage(w, pc, chunks) == worker' = [worker EXCEPT ![w].pc = pc, ![w].left = chunks]
Idle(w) == worker' = [worker EXCEPT ![w] = IdleWorker]

\* The claim's "attempt_count + 1", held in the open transaction.
Attempt(v) == job[v].attempts + 1

\* Mutant: the update has no status in its WHERE clause.
IsProcessingUnchecked(w, v) == TRUE

\* What w reads of the status, and the WHERE ingestion_status = 'PROCESSING' of
\* its transitions: its own uncommitted write, and otherwise the committed row.
IsProcessing(w, v) ==
    \/ worker[w].seen = "QUEUED" /\ versionLock[v] = w
    \/ version[v].status = "PROCESSING"

\* The row values of w's commit; the attempt is counted whatever the outcome.
SaveJob(v, s) == job' = [job EXCEPT ![v].status = s, ![v].attempts = @ + 1]
SaveVersion(v, s) == version' = [version EXCEPT ![v].status = s]

(***************************************************************************)
(* Delivery                                                                *)
(***************************************************************************)
Receive(w, v) ==
    /\ At(w, "idle")
    /\ ingestQueue[v] > 0
    /\ version[v].status \in Ingestible
    /\ ingestQueue' = Pop(ingestQueue, v)
    /\ worker' = [worker EXCEPT ![w] =
                    [pc |-> "claim", version |-> v, seen |-> version[v].status, left |-> {}]]
    /\ UNCHANGED <<rows, locks, stores, cleanupQueue, lastVersion, faults, lost>>

\* "duplicate" (READY) and "skipped" (FAILED, DELETING, DELETED): acknowledged.
SkipDelivery(w, v) ==
    /\ At(w, "idle")
    /\ ingestQueue[v] > 0
    /\ version[v].status \notin Ingestible
    /\ ingestQueue' = Pop(ingestQueue, v)
    /\ UNCHANGED <<worker, rows, locks, stores, cleanupQueue, lastVersion, faults, lost>>

\* Mutant: any job that has not failed can be claimed.
ClaimableUnlessFailed(v) == job[v].status # "FAILED"

\* The WHERE clause of claim; no committed row is RUNNING with a lease.
Claimable(v) == job[v].status = "PENDING"

\* The job row goes to RUNNING and stays locked until the end of the transaction.
Claim(w) ==
    LET v == worker[w].version IN
    /\ At(w, "claim")
    /\ JobFree(v, w)
    /\ Claimable(v)
    /\ LockJob(v, w)
    /\ GoTo(w, "claimed")
    /\ UNCHANGED <<rows, versionLock, documentLock, stores, queues, lastVersion, faults, lost>>

\* "leased": no row matched the claim.
NotClaimable(w) ==
    LET v == worker[w].version IN
    /\ At(w, "claim")
    /\ ~Claimable(v)
    /\ Idle(w)
    /\ UNCHANGED catalogVars

(***************************************************************************)
(* From the claim to the pipeline                                          *)
(***************************************************************************)
StartProcessing(w) ==
    LET v == worker[w].version IN
    /\ At(w, "claimed")
    /\ Attempt(v) <= MaxAttempts
    /\ worker[w].seen = "QUEUED"
    /\ VersionFree(v, w) /\ version[v].status = "QUEUED"
    /\ LockVersion(v, w)
    /\ GoTo(w, "parse")
    /\ UNCHANGED <<rows, jobLock, documentLock, stores, queues, lastVersion, faults, lost>>

\* The version is QUEUED no longer: the job is given back, with its attempt counted.
LostRace(w) ==
    LET v == worker[w].version IN
    /\ At(w, "claimed")
    /\ Attempt(v) <= MaxAttempts
    /\ worker[w].seen = "QUEUED"
    /\ VersionFree(v, w) /\ version[v].status # "QUEUED"
    /\ SaveJob(v, "PENDING")
    /\ ReleaseLocks(w)
    /\ GoTo(w, "ack")
    /\ UNCHANGED <<document, version, chunked, stores, queues, lastVersion, faults, lost>>

\* A retry: the version was read as PROCESSING, which no statement checks here.
Resume(w) ==
    LET v == worker[w].version IN
    /\ At(w, "claimed")
    /\ Attempt(v) <= MaxAttempts
    /\ worker[w].seen = "PROCESSING"
    /\ GoTo(w, "parse")
    /\ UNCHANGED catalogVars

(***************************************************************************)
(* The pipeline                                                            *)
(***************************************************************************)
\* persist_parsed_pages and persist_chunks.  Rows of an earlier attempt are
\* reused; otherwise the source PDF is read and set_page_count and
\* set_chunking_config update, and so lock, the version's row.
Parse(w) ==
    LET v == worker[w].version IN
    /\ At(w, "parse")
    /\ \/ v \in chunked /\ UNCHANGED versionLock
       \/ /\ v \notin chunked
          /\ v \in files
          /\ VersionFree(v, w)
          /\ LockVersion(v, w)
    /\ Stage(w, "dense", Chunks)
    /\ UNCHANGED <<rows, jobLock, documentLock, stores, queues, lastVersion, faults, lost>>

\* ensure_collection, at the start of persist_dense_index.
EnsureCollection(w) ==
    /\ At(w, "dense")
    /\ ~index
    /\ index' = TRUE
    /\ UNCHANGED <<worker, rows, locks, points, files, queues, lastVersion, faults, lost>>

\* One batch of persist_dense_index.
IndexDense(w) ==
    LET v == worker[w].version IN
    /\ At(w, "dense")
    /\ index
    /\ \E c \in worker[w].left :
        /\ UpsertDense(v, c)
        /\ IF worker[w].left = {c}
             THEN Stage(w, "sparse", Chunks)
             ELSE Stage(w, "dense", worker[w].left \ {c})
    /\ UNCHANGED <<rows, locks, index, files, queues, lastVersion, faults, lost>>

\* One batch of persist_sparse_index.
IndexSparse(w) ==
    LET v == worker[w].version IN
    /\ At(w, "sparse")
    /\ \E c \in worker[w].left :
        /\ UpsertSparse(v, c)
        /\ IF worker[w].left = {c}
             THEN Stage(w, "verify", {})
             ELSE Stage(w, "sparse", worker[w].left \ {c})
    /\ UNCHANGED <<rows, locks, index, files, queues, lastVersion, faults, lost>>

\* assert_dense_and_sparse_complete, on the store as it is now.
Verify(w) ==
    LET v == worker[w].version IN
    /\ At(w, "verify")
    /\ Complete(v)
    /\ GoTo(w, "finalize")
    /\ UNCHANGED catalogVars

\* finalize_ready: set_sparse_encoder_config and the READY transition, which
\* take the version's row and check that it is PROCESSING still.
MakeReady(w) ==
    LET v == worker[w].version IN
    /\ At(w, "finalize")
    /\ VersionFree(v, w) /\ IsProcessing(w, v)
    /\ LockVersion(v, w)
    /\ GoTo(w, "publish")
    /\ UNCHANGED <<rows, jobLock, documentLock, stores, queues, lastVersion, faults, lost>>

\* set_active_version, whatever the document's state and active version, then
\* the SUCCEEDED job and the commit.
Publish(w) ==
    LET v == worker[w].version
        d == version[v].document
    IN
    /\ At(w, "publish")
    /\ DocumentFree(d, w)
    /\ document' = [document EXCEPT ![d].active = v]
    /\ SaveVersion(v, "READY")
    /\ SaveJob(v, "SUCCEEDED")
    /\ chunked' = chunked \cup {v}
    /\ ReleaseLocks(w)
    /\ GoTo(w, "ack")
    /\ UNCHANGED <<stores, queues, lastVersion, faults, lost>>

(***************************************************************************)
(* Failures of the pipeline                                                *)
(***************************************************************************)
\* What the stages persisted is committed with the failure.
Parsed(w) == worker[w].pc \notin {"claimed", "parse", "failUnparsed"}
KeepChunks(w, v) == chunked' = IF Parsed(w) THEN chunked \cup {v} ELSE chunked

\* Mutant: the message of a retry is not deferred.
RedeliverLost(v) == UNCHANGED <<ingestQueue, lost>>

\* arq puts the message back.
Redeliver(v) == WakeIngestion(v)

\* A TransientIngestionError before the last attempt: the version stays
\* PROCESSING, the job is PENDING again and arq defers the message.  In the
\* parse stage only a source that exists and cannot be read is transient.
Retry(w) ==
    LET v == worker[w].version IN
    /\ worker[w].pc \in Indexing
    /\ At(w, "parse") => v \in files /\ v \notin chunked
    /\ Attempt(v) < MaxAttempts
    /\ IF worker[w].seen = "QUEUED"
         THEN SaveVersion(v, "PROCESSING")
         ELSE UNCHANGED version
    /\ KeepChunks(w, v)
    /\ SaveJob(v, "PENDING")
    /\ ReleaseLocks(w)
    /\ Redeliver(v)
    /\ Idle(w)
    /\ UNCHANGED <<document, stores, cleanupQueue, lastVersion, faults>>

\* When _fail_permanent is called: by a claim beyond the last attempt, by a
\* TransientIngestionError on the last attempt, and by a PermanentIngestionError:
\* a PDF that cannot be parsed or yields no chunk, a missing source, vectors of
\* the wrong size, or an index that is not complete.
CanFail(w, v) ==
    \/ At(w, "claimed") /\ Attempt(v) > MaxAttempts
    \/ /\ worker[w].pc \in Indexing
       /\ Attempt(v) >= MaxAttempts \/ ~At(w, "verify") \/ ~Complete(v)

\* It reads the status again, and a version that is not PROCESSING keeps it: one
\* that was deleted meanwhile, or is QUEUED after the attempts were used up.
FailJob(w) ==
    LET v == worker[w].version IN
    /\ CanFail(w, v)
    /\ ~IsProcessing(w, v)
    /\ KeepChunks(w, v)
    /\ SaveJob(v, "FAILED")
    /\ ReleaseLocks(w)
    /\ GoTo(w, "ack")
    /\ UNCHANGED <<document, version, stores, queues, lastVersion, faults, lost>>

BeginFail(w) ==
    LET v == worker[w].version IN
    /\ CanFail(w, v)
    /\ IsProcessing(w, v)
    /\ GoTo(w, IF Parsed(w) THEN "failParsed" ELSE "failUnparsed")
    /\ UNCHANGED catalogVars

\* The FAILED transition, which checks the status once more.
Fail(w) ==
    LET v == worker[w].version IN
    /\ worker[w].pc \in Failing
    /\ VersionFree(v, w) /\ IsProcessing(w, v)
    /\ SaveVersion(v, "FAILED")
    /\ KeepChunks(w, v)
    /\ SaveJob(v, "FAILED")
    /\ ReleaseLocks(w)
    /\ GoTo(w, "ack")
    /\ UNCHANGED <<document, stores, queues, lastVersion, faults, lost>>

\* A transition of a retry (to FAILED or READY) finds that the version was
\* tombstoned: OptimisticConcurrencyError leaves the handler, the transaction
\* is rolled back, and arq does not deliver the message again.
Overtaken(w) ==
    LET v == worker[w].version IN
    /\ worker[w].pc \in Failing \cup {"finalize"}
    /\ VersionFree(v, w) /\ ~IsProcessing(w, v)
    /\ ReleaseLocks(w)
    /\ Idle(w)
    /\ UNCHANGED <<rows, stores, queues, lastVersion, faults, lost>>

(***************************************************************************)
(* The end of the delivery, and what arq and the process do to it          *)
(***************************************************************************)
Acknowledge(w) ==
    /\ At(w, "ack")
    /\ Idle(w)
    /\ UNCHANGED catalogVars

\* The worker process dies: PostgreSQL rolls back and arq delivers again, also
\* when the outcome was committed and not yet acknowledged.
Crash(w) ==
    /\ ~At(w, "idle")
    /\ Fault("crash")
    /\ ReleaseLocks(w)
    /\ Redeliver(worker[w].version)
    /\ Idle(w)
    /\ UNCHANGED <<rows, stores, cleanupQueue, lastVersion>>

\* job_timeout, or an exception no handler catches (a database error): rolled
\* back, and the message is gone.
Abandon(w) ==
    /\ worker[w].pc \notin {"idle", "ack"}
    /\ Fault("timeout")
    /\ LoseIngestion(worker[w].version)
    /\ ReleaseLocks(w)
    /\ Idle(w)
    /\ UNCHANGED <<rows, stores, queues, lastVersion>>

WorkerStep(w) ==
    \/ \E v \in Versions : Receive(w, v) \/ SkipDelivery(w, v)
    \/ Claim(w) \/ NotClaimable(w)
    \/ StartProcessing(w) \/ LostRace(w) \/ Resume(w)
    \/ Parse(w) \/ EnsureCollection(w) \/ IndexDense(w) \/ IndexSparse(w) \/ Verify(w)
    \/ MakeReady(w) \/ Publish(w)
    \/ Retry(w) \/ FailJob(w) \/ BeginFail(w) \/ Fail(w) \/ Overtaken(w)
    \/ Acknowledge(w)

WorkerFault(w) == Crash(w) \/ Abandon(w)
=============================================================================
