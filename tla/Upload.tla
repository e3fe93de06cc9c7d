------------------------------- MODULE Upload -------------------------------
(***************************************************************************)
(* The two upload routes: application/upload.py.  The source PDF is stored *)
(* before the rows that name it are committed, and the worker is woken     *)
(* after them; a content hash that is known already is answered with the   *)
(* version that has it, and a FAILED one is queued again.                  *)
(***************************************************************************)
EXTENDS Catalog

VARIABLE uploader

(***************************************************************************)
(* document  the document of the new version: one drawn by this request    *)
(*           when isNew, an existing one otherwise                         *)
(* version   the version drawn by this request, or the one to wake         *)
(***************************************************************************)
IdleUpload ==
    [pc |-> "idle", document |-> None, isNew |-> FALSE, version |-> None, hash |-> None]

\* The exception handler of _persist_new_version: the store refused the file; the
\* unique index refused the version, in a savepoint, so the transaction goes on with
\* its lock and the row of a new document; or the transaction itself has failed.
Undoing == {"noFile", "refused", "broken"}

UploadRecord ==
    {IdleUpload} \cup
    [pc : {"lock"}, document : Documents, isNew : {FALSE}, version : {None}, hash : Hashes] \cup
    [pc : {"put", "insert"} \cup Undoing, document : Documents, isNew : BOOLEAN,
     version : Versions, hash : Hashes] \cup
    [pc : {"wake"}, document : {None}, isNew : {FALSE}, version : Versions, hash : {None}]

UploadTypeOK == uploader \in [Uploaders -> UploadRecord]

UploadInit == uploader = [u \in Uploaders |-> IdleUpload]

\* A document id no row and no open request has.
Drawable(d) ==
    /\ document[d].state = "absent"
    /\ \A u \in Uploaders : uploader[u].document # d

DrawVersion ==
    /\ lastVersion + 1 \in Versions
    /\ lastVersion' = lastVersion + 1

\* The bound on versions: a new request leaves enough for those at the lock.
VersionsLeft ==
    lastVersion + Cardinality({u \in Uploaders : uploader[u].pc = "lock"}) + 1 \in Versions

\* Mutant: the job gets the version's status.
RequeueWrongStatus(e, u) ==
    /\ version[e].status = "FAILED"
    /\ VersionFree(e, u) /\ JobFree(e, u)
    /\ version' = [version EXCEPT ![e].status = "QUEUED"]
    /\ job' = [job EXCEPT ![e].status = "QUEUED"]

\* The FAILED branch of _existing_hash: the version and its job are queued
\* again; _ensure_pending_job keeps attempt_count.
Requeue(e, u) ==
    /\ version[e].status = "FAILED"
    /\ VersionFree(e, u) /\ JobFree(e, u)
    /\ version' = [version EXCEPT ![e].status = "QUEUED"]
    /\ job' = [job EXCEPT ![e].status = "PENDING"]

(***************************************************************************)
(* _existing_hash comes first.  A hash whose version is not FAILED is      *)
(* answered and changes nothing, which is a stuttering step.               *)
(***************************************************************************)
UploadFailed(u, e) ==
    /\ uploader[u].pc = "idle"
    /\ Requeue(e, u)
    /\ uploader' = [uploader EXCEPT ![u] = [IdleUpload EXCEPT !.pc = "wake", !.version = e]]
    /\ UNCHANGED <<document, chunked, locks, stores, queues, lastVersion, faults, lost>>

\* upload_new_document, for a hash that no version has.
UploadDocument(u, h, d) ==
    /\ uploader[u].pc = "idle"
    /\ WithHash(h) = {}
    /\ Drawable(d)
    /\ VersionsLeft
    /\ DrawVersion
    /\ uploader' = [uploader EXCEPT ![u] =
                      [pc |-> "put", document |-> d, isNew |-> TRUE,
                       version |-> lastVersion + 1, hash |-> h]]
    /\ UNCHANGED <<rows, locks, stores, queues, faults, lost>>

\* post_document_version and upload_new_version, up to the lock: the route
\* checks that the document is not deleted, here and not again.
UploadVersion(u, h, d) ==
    /\ uploader[u].pc = "idle"
    /\ WithHash(h) = {}
    /\ document[d].state = "live"
    /\ VersionsLeft
    /\ uploader' = [uploader EXCEPT ![u] =
                      [pc |-> "lock", document |-> d, isNew |-> FALSE,
                       version |-> None, hash |-> h]]
    /\ UNCHANGED catalogVars

\* get_for_update, then the next version number.
NumberVersion(u) ==
    LET d == uploader[u].document IN
    /\ uploader[u].pc = "lock"
    /\ DocumentFree(d, u)
    /\ LockDocument(d, u)
    /\ DrawVersion
    /\ uploader' = [uploader EXCEPT ![u].pc = "put", ![u].version = lastVersion + 1]
    /\ UNCHANGED <<rows, versionLock, jobLock, stores, queues, faults, lost>>

(***************************************************************************)
(* _persist_new_version                                                    *)
(***************************************************************************)
PutFile(u) ==
    /\ uploader[u].pc = "put"
    /\ files' = files \cup {uploader[u].version}
    /\ uploader' = [uploader EXCEPT ![u].pc = "insert"]
    /\ UNCHANGED <<rows, locks, points, index, queues, lastVersion, faults, lost>>

\* Mutant: the new version is made active by the upload.
AddDocumentActive(u) ==
    document' = [document EXCEPT ![uploader[u].document] =
                   [state |-> IF uploader[u].isNew THEN "live" ELSE @.state,
                    active |-> uploader[u].version]]

\* Mutant: the row is written for every version, which clears deleted_at.
AddDocumentAgain(u) ==
    document' = [document EXCEPT ![uploader[u].document].state = "live"]

\* The document's row, if it is new.
AddDocument(u) ==
    document' = IF uploader[u].isNew
                  THEN [document EXCEPT ![uploader[u].document].state = "live"]
                  ELSE document

InsertVersion(u) ==
    LET v == uploader[u].version IN
    /\ uploader[u].pc = "insert"
    /\ WithHash(uploader[u].hash) = {}
    /\ AddDocument(u)
    /\ version' = [version EXCEPT ![v] =
                     [status |-> "QUEUED", document |-> uploader[u].document,
                      hash |-> uploader[u].hash]]
    /\ job' = [job EXCEPT ![v].status = "PENDING"]
    /\ ReleaseLocks(u)
    /\ uploader' = [uploader EXCEPT ![u] = [IdleUpload EXCEPT !.pc = "wake", !.version = v]]
    /\ UNCHANGED <<chunked, stores, queues, lastVersion, faults, lost>>

\* The unique index refuses the version: another one has the hash by now.  The
\* index waits for a transaction that has updated that version.
InsertRefused(u) ==
    /\ uploader[u].pc = "insert"
    /\ \E e \in WithHash(uploader[u].hash) : VersionFree(e, u)
    /\ uploader' = [uploader EXCEPT ![u].pc = "refused"]
    /\ UNCHANGED catalogVars

(***************************************************************************)
(* The exception handler deletes the file of the request and then, in the  *)
(* transaction that is still open, looks for the hash once more.           *)
(***************************************************************************)
FailedWithHash(u) == {e \in WithHash(uploader[u].hash) : version[e].status = "FAILED"}

\* Mutant: the handler looks for the hash first, and an answer leaves the file.
UndoKeepsFile(u) ==
    /\ uploader[u].pc \in Undoing
    /\ uploader[u].pc = "broken" \/ FailedWithHash(u) = {}
    /\ files' = IF WithHash(uploader[u].hash) # {} THEN files ELSE files \ {uploader[u].version}
    /\ ReleaseLocks(u)
    /\ uploader' = [uploader EXCEPT ![u] = IdleUpload]
    /\ UNCHANGED <<rows, points, index, queues, lastVersion, faults, lost>>

\* Mutant: the file of the version that was first is deleted instead.
UndoDropsFirst(u) ==
    /\ uploader[u].pc \in Undoing
    /\ uploader[u].pc = "broken" \/ FailedWithHash(u) = {}
    /\ files' = files \ WithHash(uploader[u].hash)
    /\ ReleaseLocks(u)
    /\ uploader' = [uploader EXCEPT ![u] = IdleUpload]
    /\ UNCHANGED <<rows, points, index, queues, lastVersion, faults, lost>>

\* The answer is the version that was first, or the error if there is none and
\* after a failed transaction, which takes no further statement; nothing is committed.
UndoUpload(u) ==
    /\ uploader[u].pc \in Undoing
    /\ uploader[u].pc = "broken" \/ FailedWithHash(u) = {}
    /\ files' = files \ {uploader[u].version}
    /\ ReleaseLocks(u)
    /\ uploader' = [uploader EXCEPT ![u] = IdleUpload]
    /\ UNCHANGED <<rows, points, index, queues, lastVersion, faults, lost>>

\* The version that was first has FAILED by now: it is queued again, and the
\* commit of that also commits the row of a new document.
UndoAndRequeue(u) ==
    /\ uploader[u].pc \in {"noFile", "refused"}
    /\ \E e \in FailedWithHash(u) :
        /\ Requeue(e, u)
        /\ uploader' = [uploader EXCEPT ![u] = [IdleUpload EXCEPT !.pc = "wake", !.version = e]]
    /\ IF uploader[u].pc = "refused" THEN AddDocument(u) ELSE UNCHANGED document
    /\ files' = files \ {uploader[u].version}
    /\ ReleaseLocks(u)
    /\ UNCHANGED <<chunked, points, index, queues, lastVersion, faults, lost>>

EnqueueIngestion(u) ==
    /\ uploader[u].pc = "wake"
    /\ WakeIngestion(uploader[u].version)
    /\ uploader' = [uploader EXCEPT ![u] = IdleUpload]
    /\ UNCHANGED <<rows, locks, stores, cleanupQueue, lastVersion, faults>>

\* The API process dies, or Redis refuses the message: open work is rolled back
\* and a stored file stays behind.
UploadCrash(u) ==
    /\ \/ uploader[u].pc # "idle" /\ Fault("crash")
       \/ uploader[u].pc = "wake" /\ Fault("redis")
    /\ IF uploader[u].pc = "wake" THEN LoseIngestion(uploader[u].version) ELSE UNCHANGED lost
    /\ ReleaseLocks(u)
    /\ uploader' = [uploader EXCEPT ![u] = IdleUpload]
    /\ UNCHANGED <<rows, stores, queues, lastVersion>>

\* The store refuses the file.
PutFails(u) ==
    /\ uploader[u].pc = "put"
    /\ Fault("storage")
    /\ uploader' = [uploader EXCEPT ![u].pc = "noFile"]
    /\ UNCHANGED <<rows, locks, stores, queues, lastVersion, lost>>

\* A database error beyond the savepoint: PostgreSQL rolls back.
InsertFails(u) ==
    /\ uploader[u].pc = "insert"
    /\ Fault("timeout")
    /\ ReleaseLocks(u)
    /\ uploader' = [uploader EXCEPT ![u].pc = "broken"]
    /\ UNCHANGED <<rows, stores, queues, lastVersion, lost>>

\* storage.delete raises in the handler: the file stays, the hash is not looked for,
\* and the transaction is rolled back.
UndoFails(u) ==
    /\ uploader[u].pc \in Undoing
    /\ Fault("storage")
    /\ ReleaseLocks(u)
    /\ uploader' = [uploader EXCEPT ![u] = IdleUpload]
    /\ UNCHANGED <<rows, stores, queues, lastVersion, lost>>

UploadRequest(u) ==
    \/ \E e \in Versions : UploadFailed(u, e)
    \/ \E h \in Hashes, d \in Documents : UploadDocument(u, h, d) \/ UploadVersion(u, h, d)

UploaderStep(u) ==
    \/ NumberVersion(u) \/ PutFile(u)
    \/ InsertVersion(u) \/ InsertRefused(u)
    \/ UndoUpload(u) \/ UndoAndRequeue(u)
    \/ EnqueueIngestion(u)

UploaderFault(u) == UploadCrash(u) \/ PutFails(u) \/ InsertFails(u) \/ UndoFails(u)
=============================================================================
