----------------------------- MODULE Lifecycle -----------------------------
(***************************************************************************)
(* The status machines of a document version and of its ingestion job:     *)
(* domain/enums.py and domain/policies.py.  "absent" stands for a row that *)
(* has not been inserted.                                                  *)
(***************************************************************************)

(***************************************************************************)
(* DocumentVersionStatus.  UPLOADED is in the enum and in the transition   *)
(* table, but the only insert (_persist_new_version) writes QUEUED and no  *)
(* transition targets UPLOADED, so no row carries it.                      *)
(***************************************************************************)
VersionStatus ==
    {"UPLOADED", "QUEUED", "PROCESSING", "READY", "FAILED", "DELETING", "DELETED"}

\* IngestionJobStatus.
JobStatus == {"PENDING", "RUNNING", "SUCCEEDED", "FAILED"}

\* ALLOWED_TRANSITIONS: what repositories.transition accepts.
AllowedTransitions(s) ==
    CASE s = "UPLOADED"   -> {"QUEUED"}
      [] s = "QUEUED"     -> {"PROCESSING"}
      [] s = "PROCESSING" -> {"READY", "FAILED"}
      [] s = "FAILED"     -> {"QUEUED"}
      [] s = "READY"      -> {"DELETING"}
      [] s = "DELETING"   -> {"DELETED"}
      [] OTHER            -> {}

\* The WHERE clause of mark_deleting: every status it may overwrite.
MarkableDeleting == VersionStatus \ {"READY", "DELETING", "DELETED"}

\* The statuses process_ingestion_job goes on to claim; the others it skips.
Ingestible == {"QUEUED", "PROCESSING"}

(***************************************************************************)
(* One transaction may take several transitions, and only its commit is    *)
(* seen by others: the first attempt of a version commits QUEUED to        *)
(* PROCESSING together with PROCESSING to READY or FAILED.                 *)
(***************************************************************************)
CommittedTransition(s, t) ==
    \/ s = "absent" /\ t = "QUEUED"
    \/ t \in AllowedTransitions(s)
    \/ "PROCESSING" \in AllowedTransitions(s) /\ t \in AllowedTransitions("PROCESSING")
    \/ s \in MarkableDeleting /\ t = "DELETING"
=============================================================================
