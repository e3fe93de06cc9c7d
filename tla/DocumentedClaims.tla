-------------------------- MODULE DocumentedClaims --------------------------
(***************************************************************************)
(* What the repository's documents say of the document side and the code   *)
(* does not do.  Each claim is checked by a run of its own, which ends in  *)
(* a counterexample; the README tells what happens in it.                  *)
(***************************************************************************)
EXTENDS CitedRag

\* "Never leave a READY version whose Qdrant points are gone"
\* (Learning/21-production-failure-scenarios.md).  mark_deleting skips a version
\* that became READY after the delete request read it, and the cleanup drops the
\* points of that version as well.
ReadyKeepsPoints ==
    \A v \in Versions : version[v].status = "READY" => Complete(v)

\* "A previous READY version is excluded from retrieval once a newer version
\* becomes the active READY version" (ADR-011).  finalize_ready makes the version
\* that ends last the active one, an older one included.
NewestActive ==
    [][\A d \in Documents :
          document[d].active # None /\ document'[d].active # None
            => document'[d].active >= document[d].active]_document

\* "Deleting a document must eventually remove or invalidate all retrieval
\* artifacts" (FR-16 of the PRD).  A retry that was running when the document was
\* deleted upserts its points after the cleanup has dropped them.
DeletedIsCleared ==
    \A d \in Documents : document[d].state = "deleted" ~>
        \A v \in VersionsOf(d) : points[v] = {}

\* "Cleanup is retryable until DELETED" (ADR-011).  Two requests delete a document,
\* the second of them also a version that was uploaded after the first read the
\* versions.  Their cleanups meet, the second one's transition matches no row, and arq
\* does not retry the error: with Qdrant in service and no fault, the later version
\* stays DELETING and no message or process is about it.
CleanupIsRetried ==
    index /\ faults = 0 => \A d \in Documents : ~CleanupForgotten(d)
=============================================================================
