------------------------------ MODULE CitedRag ------------------------------
(***************************************************************************)
(* The document side of the system: upload, ingestion and deletion over    *)
(* the shared catalog.  Every process runs its own transactions; they meet *)
(* in the rows, the row locks, the index, the files and the queue.         *)
(***************************************************************************)
EXTENDS Ingestion, Deletion, Upload

vars == <<catalogVars, worker, deleter, cleaner, uploader>>

Init == CatalogInit /\ WorkerInit /\ DeletionInit /\ UploadInit

Work(w) == WorkerStep(w) /\ UNCHANGED <<deleter, cleaner, uploader>>
WorkFault(w) == WorkerFault(w) /\ UNCHANGED <<deleter, cleaner, uploader>>
Clean(k) == CleanerStep(k) /\ UNCHANGED <<worker, uploader>>
CleanFault(k) == CleanerFault(k) /\ UNCHANGED <<worker, uploader>>
RequestDelete(r) == DeleteRequest(r) /\ UNCHANGED <<worker, uploader>>
HandleDelete(r) == DeleterStep(r) /\ UNCHANGED <<worker, uploader>>
FailDelete(r) == DeleteFault(r) /\ UNCHANGED <<worker, uploader>>
RequestUpload(u) == UploadRequest(u) /\ UNCHANGED <<worker, deleter, cleaner>>
HandleUpload(u) == UploaderStep(u) /\ UNCHANGED <<worker, deleter, cleaner>>
FailUpload(u) == UploaderFault(u) /\ UNCHANGED <<worker, deleter, cleaner>>

(***************************************************************************)
(* The row locks are taken in no common order: a delete takes the versions *)
(* and then the document, an ingestion its version and then the document,  *)
(* and an upload the document and then, for the unique index, the version  *)
(* of its hash.  PostgreSQL breaks a cycle by aborting one of its members. *)
(* The other waits close no cycle: cleanups wait for cleanups only, and go *)
(* through the versions in order; a claim that waits holds no row yet.     *)
(***************************************************************************)
WaitsFor(t) ==
    LET holders ==
          CASE t \in Workers /\ worker[t].pc = "publish" ->
                 {documentLock[version[worker[t].version].document]}
            [] t \in Deleters /\ deleter[t].pc = "mark" ->
                 IF deleter[t].todo = {}
                   THEN {documentLock[deleter[t].document]}
                   ELSE {versionLock[v] : v \in {u \in deleter[t].todo : IsFirst(u, deleter[t].todo)}}
            [] t \in Uploaders /\ uploader[t].pc = "lock" ->
                 {documentLock[uploader[t].document]}
            [] t \in Uploaders /\ uploader[t].pc = "insert" ->
                 {versionLock[v] : v \in WithHash(uploader[t].hash)}
            [] t \in Uploaders /\ uploader[t].pc \in {"noFile", "refused"} ->
                 {versionLock[v] : v \in FailedWithHash(t)}
            [] OTHER -> {}
    IN holders \ {t, None}

Cyclic(S) == S # {} /\ \A t \in S : WaitsFor(t) \cap S # {}

Deadlocked(t) ==
    /\ WaitsFor(t) # {}
    /\ \E S \in SUBSET (Workers \cup Deleters \cup Uploaders) :
          t \in S /\ Cyclic(S) /\ \A T \in SUBSET S : Cyclic(T) => T = S

\* The refused insert ends in its savepoint like a refusal of the unique index.  The
\* requeue of the exception handler has none: the request ends, its file deleted.
AbortUpload(u) ==
    /\ Deadlocked(u)
    /\ \/ /\ uploader[u].pc = "insert"
          /\ uploader' = [uploader EXCEPT ![u].pc = "refused"]
          /\ UNCHANGED <<files, locks>>
       \/ /\ uploader[u].pc \in {"noFile", "refused"}
          /\ files' = files \ {uploader[u].version}
          /\ ReleaseLocks(u)
          /\ uploader' = [uploader EXCEPT ![u] = IdleUpload]
    /\ UNCHANGED <<rows, points, index, queues, lastVersion, faults, lost, worker, deleter, cleaner>>

AbortDelete(r) ==
    /\ deleter[r].pc = "mark" /\ Deadlocked(r)
    /\ ReleaseLocks(r)
    /\ deleter' = [deleter EXCEPT ![r] = IdleDeletion]
    /\ UNCHANGED <<rows, stores, queues, lastVersion, faults, lost, worker, cleaner, uploader>>

\* No handler catches the database error: the message is gone, as in Abandon.
AbortWork(w) ==
    /\ At(w, "publish") /\ Deadlocked(w)
    /\ ReleaseLocks(w)
    /\ Idle(w)
    /\ LoseIngestion(worker[w].version)
    /\ UNCHANGED <<rows, stores, queues, lastVersion, faults, deleter, cleaner, uploader>>

\* Mutant: who is in a cycle of waits waits on.
BreakNothing ==
    /\ \E t \in Deleters \cup Uploaders : Deadlocked(t)
    /\ UNCHANGED vars

BreakDeadlock ==
    \/ \E u \in Uploaders : AbortUpload(u)
    \/ \E r \in Deleters : AbortDelete(r)
    \/ \E w \in Workers : AbortWork(w)

\* Nothing in progress, and nothing queued that a worker could take: the system
\* may rest until the next request.  Any other state without a successor is a
\* deadlock.
Quiescent ==
    /\ \A w \in Workers : worker[w].pc = "idle"
    /\ \A k \in Cleaners : cleaner[k].pc = "idle"
    /\ \A r \in Deleters : deleter[r].pc = "idle"
    /\ \A u \in Uploaders : uploader[u].pc = "idle"
    /\ \A v \in Versions : ingestQueue[v] = 0
    /\ \A d \in Documents : Cleaners # {} => cleanupQueue[d] = 0
    /\ UNCHANGED vars

Next ==
    \/ \E w \in Workers : Work(w) \/ WorkFault(w)
    \/ \E k \in Cleaners : Clean(k) \/ CleanFault(k)
    \/ \E r \in Deleters : RequestDelete(r) \/ HandleDelete(r) \/ FailDelete(r)
    \/ \E u \in Uploaders : RequestUpload(u) \/ HandleUpload(u) \/ FailUpload(u)
    \/ BreakDeadlock
    \/ Quiescent

Spec == Init /\ [][Next]_vars

(***************************************************************************)
(* arq keeps its workers busy and the API finishes the requests it has     *)
(* accepted; nobody has to make a request, and no fault has to happen.     *)
(***************************************************************************)
Fairness ==
    /\ \A w \in Workers : WF_vars(Work(w))
    /\ \A k \in Cleaners : WF_vars(Clean(k))
    /\ \A r \in Deleters : WF_vars(HandleDelete(r))
    /\ \A u \in Uploaders : WF_vars(HandleUpload(u))
    /\ WF_vars(BreakDeadlock)

FairSpec == Spec /\ Fairness

\* PostgreSQL hands a row to the transaction that waits for it, so no two requests
\* starve an upload in the unique index by taking the row again and again; and arq
\* delivers a cleanup that Qdrant refuses max_tries times at most, so one that is
\* refused again and again is at some time refused for good.
LeaveIndex == \E u \in Uploaders : uploader[u].pc = "insert" /\ HandleUpload(u)

GiveUpCleanup ==
    \E k \in Cleaners : PurgeExhausted(k) /\ UNCHANGED <<worker, uploader>>

StronglyFairSpec == FairSpec /\ SF_vars(LeaveIndex) /\ SF_vars(GiveUpCleanup)

-----------------------------------------------------------------------------
(***************************************************************************)
(* Safety                                                                  *)
(***************************************************************************)
\* Every variable holds a value of its type.
TypeOK == CatalogTypeOK /\ WorkerTypeOK /\ DeletionTypeOK /\ UploadTypeOK

\* Two workers never run the pipeline of one version at the same time, however
\* often its message is delivered: the claim of the job excludes the second.
SingleIngestion ==
    \A w, x \in Workers :
        /\ worker[w].pc \in Claimed
        /\ worker[x].pc \in Claimed
        /\ worker[w].version = worker[x].version
        => w = x

\* What a query may retrieve is whole: every chunk of a searchable version has
\* its row and both vectors, and the PDF its citations open is stored.  The
\* index and the files are not in the transaction that publishes the version,
\* and cleanups, retries and duplicate uploads change them meanwhile.
SearchableIsIndexed ==
    \A v \in Versions : Searchable(v) => Complete(v) /\ v \in chunked /\ v \in files

\* A live document's active version is one of its own and is READY, so the
\* document is answered from as soon as it has an active version: no failed,
\* overtaken or rolled back attempt leaves active_version_id behind.
ActiveIsReady ==
    \A d \in Documents : document[d].state = "live" /\ document[d].active # None =>
        /\ version[document[d].active].document = d
        /\ version[document[d].active].status = "READY"

\* A version that may still be ingested, cited or retried has its source PDF,
\* unless its document is deleted: no duplicate or failed upload of the same
\* bytes, and no late cleanup, takes the file of another version.
SourceKept ==
    \A v \in Versions :
        /\ version[v].status \notin {"absent", "DELETED"}
        /\ document[version[v].document].state = "live"
        => v \in files

\* A stored PDF that no version is left to and that no request is about to delete.
Orphaned(v) ==
    /\ v \in files
    /\ version[v].status \in {"absent", "DELETED"}
    /\ \A u \in Uploaders : uploader[u].version # v

\* Refused and failed uploads clean up after themselves and cleanups leave nothing
\* behind: each PDF that nobody will delete has cost a fault of its own, a process
\* that died or a store that failed while the request deleted its file.
OrphansCostFaults == Cardinality({v \in files : Orphaned(v)}) <= faults

\* The two status columns agree on success: a version is READY only with a
\* SUCCEEDED job, and a SUCCEEDED job belongs to a version that was published,
\* so nothing claims it and no second attempt can run or fail it.
PublishedIsSucceeded ==
    \A v \in Versions :
        /\ version[v].status = "READY" => job[v].status = "SUCCEEDED"
        /\ job[v].status = "SUCCEEDED" => version[v].status \in {"READY", "DELETING", "DELETED"}

(***************************************************************************)
(* Action properties                                                       *)
(***************************************************************************)
\* A commit moves a version only along the transitions of the policy (two of
\* them in a first attempt) or into DELETING: a stale retry, a late cleanup or
\* a second upload never takes a version out of READY, DELETING or DELETED.
LifecycleSteps ==
    [][\A v \in Versions : version'[v].status # version[v].status =>
          CommittedTransition(version[v].status, version'[v].status)]_version

\* Work that is committed as to do, and that no message, process or request is about.
IngestionForgotten(v) ==
    /\ job[v].status = "PENDING" /\ version[v].status \in Ingestible
    /\ ingestQueue[v] = 0
    /\ \A w \in Workers : worker[w].version = v => At(w, "ack")
    /\ \A u \in Uploaders : uploader[u].pc = "wake" => uploader[u].version # v

CleanupForgotten(d) ==
    /\ document[d].state = "deleted"
    /\ WithStatus(VersionsOf(d), {"DELETING"}) # {}
    /\ cleanupQueue[d] = 0
    /\ \A k \in Cleaners : cleaner[k].document # d
    /\ \A r \in Deleters : deleter[r].pc = "wake" => deleter[r].document # d

\* Nothing looks for work in the tables, so rows and messages must go together: work
\* that is forgotten was dropped by one of a few errors, and nothing has been queued
\* for it since.  They are a crash of the API, an enqueue that Redis refused, an error
\* that no handler catches or an abort by the deadlock detector (LoseIngestion), and for
\* a cleanup also a conflict with another one and the last refusal by Qdrant
\* (LoseCleanup), neither of which needs a fault.  Crashes of workers, retries,
\* duplicate deliveries and repeated requests forget nothing.
OnlyErrorsLoseWork ==
    /\ \A v \in Versions : IngestionForgotten(v) => v \in lostIngestions
    /\ \A d \in Documents : CleanupForgotten(d) => d \in lostCleanups

Served(d) == document[d].active # None /\ version[document[d].active].status = "READY"

\* A document that can be answered from stays so until it is deleted: while a
\* new version is uploaded, is ingested, fails or is published, some version of
\* the document is searchable.
KeepsServing ==
    [][\A d \in Documents :
          document[d].state = "live" /\ Served(d) /\ document'[d].state = "live"
            => Served(d)']_vars

(***************************************************************************)
(* The abstract corpus that queries see: the mapping reads the two columns *)
(* and the join of list_searchable_version_ids.                            *)
(***************************************************************************)
Visible(d) == IF document[d].state = "live" /\ Served(d) THEN document[d].active ELSE None

C == INSTANCE Corpus WITH
        state <- [d \in Documents |-> document[d].state],
        visible <- [d \in Documents |-> Visible(d)],
        published <- {v \in Versions : job[v].status = "SUCCEEDED"}

\* Upload, ingestion and deletion implement the corpus: each version becomes
\* visible at most once, in one step, and nothing brings a deleted document back.
CorpusSpec == C!Spec

(***************************************************************************)
(* Liveness                                                                *)
(***************************************************************************)
\* A pending job is settled, its version is deleted, or its last message ended in an
\* error that nothing retries: without faults that is an abort by the deadlock detector.
PendingJobSettles ==
    \A v \in Versions : job[v].status = "PENDING" ~>
        \/ job[v].status \in {"SUCCEEDED", "FAILED"}
        \/ version[v].status \in {"DELETING", "DELETED"}
        \/ v \in lostIngestions

\* What is parked in DELETING gets to DELETED, all versions of the document, or the
\* last cleanup of it ended in an error: while cleanups, requests and uploads meet,
\* none hangs or leaves a version out in silence.
DeletingIsPurged ==
    \A d \in Documents : WithStatus(VersionsOf(d), {"DELETING"}) # {} ~>
        WithStatus(VersionsOf(d), {"DELETING"}) = {} \/ d \in lostCleanups

\* No request hangs on the locks that workers and other requests hold.
RequestsFinish ==
    /\ \A r \in Deleters : deleter[r].pc # "idle" ~> deleter[r].pc = "idle"
    /\ \A u \in Uploaders : uploader[u].pc # "idle" ~> uploader[u].pc = "idle"
=============================================================================
