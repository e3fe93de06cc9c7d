----------------------------- MODULE Invariants -----------------------------
(***************************************************************************)
(* The inductive invariant of the document side: what its safety           *)
(* properties rest on and TypeOK does not say.                             *)
(***************************************************************************)
EXTENDS CitedRag

Exists(v) == version[v].status # "absent"
Deleted(d) == document[d].state = "deleted"
Storing(u) == uploader[u].pc \in {"put", "insert"} \cup Undoing

\* A worker past the claim holds its job's row, which is committed as PENDING.
ClaimHeld ==
    \A w \in Workers : worker[w].pc \in Claimed =>
        /\ jobLock[worker[w].version] = w
        /\ job[worker[w].version].status = "PENDING"

\* A worker is about a version that exists.
DeliveredExists ==
    \A w \in Workers : worker[w].pc # "idle" => Exists(worker[w].version)

\* A version that exists has a document that exists; one that does not has none.
VersionsHaveDocuments ==
    \A v \in Versions :
        /\ Exists(v) => /\ v <= lastVersion
                        /\ version[v].document \in Documents
                        /\ document[version[v].document].state # "absent"
        /\ ~Exists(v) => version[v].document = None

\* The version an upload stores is its own and is not inserted yet.
DrawnVersions ==
    /\ \A u \in Uploaders : Storing(u) =>
          uploader[u].version <= lastVersion /\ ~Exists(uploader[u].version)
    /\ \A u, x \in Uploaders :
          Storing(u) /\ Storing(x) /\ uploader[u].version = uploader[x].version => u = x

\* The document of an upload is its own if it is new, and exists if it is not.
DrawnDocuments ==
    /\ \A d \in Documents : document[d].state = "absent" => document[d].active = None
    /\ \A u \in Uploaders : uploader[u].pc = "lock" \/ Storing(u) =>
          (uploader[u].isNew <=> document[uploader[u].document].state = "absent")
    /\ \A u, x \in Uploaders :
          /\ uploader[u].isNew /\ uploader[x].isNew
          /\ uploader[u].document = uploader[x].document
          => u = x

\* Cleanups are about deleted documents, and a request or a cleanup handles the
\* versions of its own document.
CleanupsOfDeleted ==
    /\ \A d \in Documents : cleanupQueue[d] > 0 => Deleted(d)
    /\ \A k \in Cleaners : cleaner[k].pc # "idle" =>
          /\ Deleted(cleaner[k].document)
          /\ \A v \in cleaner[k].todo \cup cleaner[k].marked :
                version[v].document = cleaner[k].document
    /\ \A r \in Deleters :
          /\ deleter[r].pc = "wake" => Deleted(deleter[r].document)
          /\ deleter[r].pc = "mark" =>
                /\ document[deleter[r].document].state # "absent"
                /\ \A v \in deleter[r].todo \cup deleter[r].marked :
                      version[v].document = deleter[r].document

\* The active version of a document is one of its own.
ActiveIsOwn ==
    \A d \in Documents :
        document[d].active # None => version[document[d].active].document = d

\* The source PDF of a version stays until its document is deleted.
SourceStays ==
    /\ \A v \in Versions : Exists(v) /\ ~Deleted(version[v].document) => v \in files
    /\ \A u \in Uploaders : uploader[u].pc = "insert" => uploader[u].version \in files

\* From the check of the index on, its points stay until the document is deleted.
IndexStays ==
    /\ \A v \in Versions : version[v].status = "READY" =>
          v \in chunked /\ (~Deleted(version[v].document) => Complete(v))
    /\ \A w \in Workers : worker[w].pc \in {"finalize", "publish"} =>
          Deleted(version[worker[w].version].document) \/ Complete(worker[w].version)

IInv ==
    /\ TypeOK /\ ClaimHeld /\ DeliveredExists
    /\ VersionsHaveDocuments /\ DrawnVersions /\ DrawnDocuments
    /\ CleanupsOfDeleted /\ ActiveIsOwn /\ PublishedIsSucceeded /\ ActiveIsReady
    /\ SourceStays /\ IndexStays

(***************************************************************************)
(* What the steps of the versions and of the files rest on besides.        *)
(***************************************************************************)
\* The steps at which a worker may have the row of its version.
Processing == Claimed \ {"claimed"}

\* A worker locks no version but its own.  On a first attempt it has the row of a
\* QUEUED version from the start of the pipeline to the commit; whoever is about
\* to commit READY, DELETING or DELETED has the row, in the status it was checked for.
RowsHeld ==
    /\ \A w \in Workers, v \in Versions : versionLock[v] = w =>
          worker[w].pc \in Processing /\ worker[w].version = v
    /\ \A w \in Workers : worker[w].pc \in Processing /\ worker[w].seen = "QUEUED" =>
          /\ worker[w].pc \notin Failing => versionLock[worker[w].version] = w
          /\ versionLock[worker[w].version] = w => version[worker[w].version].status = "QUEUED"
    /\ \A w \in Workers : At(w, "publish") =>
          /\ versionLock[worker[w].version] = w
          /\ version[worker[w].version].status \in Ingestible
    /\ \A r \in Deleters : \A v \in deleter[r].marked :
          versionLock[v] = r /\ version[v].status \notin {"absent", "DELETING", "DELETED"}
    /\ \A k \in Cleaners : \A v \in cleaner[k].marked :
          versionLock[v] = k /\ version[v].status = "DELETING"

\* The file of a version that a cleanup is about to mark, has marked or has purged
\* is gone, and nothing is stored for a version before its upload puts it.
FilesFollowed ==
    /\ \A v \in files : v <= lastVersion /\ version[v].status # "DELETED"
    /\ \A u \in Uploaders : uploader[u].pc = "put" => uploader[u].version \notin files
    /\ \A k \in Cleaners :
          /\ cleaner[k].marked \cap files = {}
          /\ cleaner[k].pc \in {"check", "mark"} =>
                \A v \in files : ~IsFirst(v, cleaner[k].todo)

\* A file whose version was never inserted and that no request will delete.
Stray(v) ==
    /\ v \in files /\ ~Exists(v)
    /\ \A u \in Uploaders : Storing(u) => uploader[u].version # v

\* There are at most as many of them as faults.
StraysCounted ==
    LET strays == {v \in Versions : Stray(v)}
    IN IsFiniteSet(strays) /\ Cardinality(strays) <= faults

StrongInv == IInv /\ RowsHeld /\ FilesFollowed /\ StraysCounted

(***************************************************************************)
(* What an error is named for when work is lost.                           *)
(***************************************************************************)
\* A worker that has the status its transitions check, so that it ends with an
\* outcome or with the message put back.  Others of the version may end with neither.
Carries(w, v) ==
    /\ worker[w].pc \notin {"idle", "ack"}
    /\ worker[w].version = v
    /\ worker[w].seen = version[v].status
    /\ worker[w].pc \in Failing \cup {"finalize"} => IsProcessing(w, v)

\* An ingestion that is committed as to do and that nothing will take on.
Unattended(v) ==
    /\ job[v].status = "PENDING" /\ version[v].status \in Ingestible
    /\ ingestQueue[v] = 0
    /\ \A w \in Workers : ~Carries(w, v)
    /\ \A u \in Uploaders : uploader[u].pc = "wake" => uploader[u].version # v

\* A deleted document with a version that is to be purged and that nothing will purge.
Uncleaned(d) ==
    /\ Deleted(d)
    /\ cleanupQueue[d] = 0
    /\ \A r \in Deleters : deleter[r].pc = "wake" => deleter[r].document # d
    /\ \E v \in WithStatus(VersionsOf(d), {"DELETING"}) :
          \A k \in Cleaners : v \notin cleaner[k].todo \cup cleaner[k].marked

LossesNamed ==
    /\ \A v \in Versions : Unattended(v) => v \in lostIngestions
    /\ \A d \in Documents : Uncleaned(d) => d \in lostCleanups

LossInv == StrongInv /\ LossesNamed
=============================================================================
