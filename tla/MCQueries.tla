----------------------------- MODULE MCQueries -----------------------------
(***************************************************************************)
(* Instances of CitedRagQueries for TLC.                                   *)
(***************************************************************************)
EXTENDS CitedRagQueries, TLC

\* The version ids of an instance, and the chunks of a version.
OneVersion == 1..1
TwoVersions == 1..2
OneChunk == 1..1
TwoChunks == 1..2

\* Texts of one token and of three, for a budget of five and two items: three
\* short ones exceed the items, two long ones the budget.
Sizes == [c \in Chunks |-> IF c = 1 THEN 3 ELSE 1]

\* The hashes of the PDFs are interchangeable.
HashSymmetry == Permutations(Hashes)

(***************************************************************************)
(* A corpus at rest: every document has one version, which is READY and    *)
(* active.  It is a state that CitedRag reaches.  Queries alone run on it, *)
(* with more chunks and longer results than with the rest of the system.   *)
(***************************************************************************)
VersionOf == CHOOSE f \in [Documents -> Versions] : \A d, e \in Documents : f[d] = f[e] => d = e

CorpusAtRest ==
    /\ document = [d \in Documents |-> [state |-> "live", active |-> VersionOf[d]]]
    /\ \E hash \in [Versions -> Hashes] :
        version = [v \in Versions |->
                     [status |-> "READY", hash |-> hash[v],
                      document |-> CHOOSE d \in Documents : VersionOf[d] = v]]
    /\ \A v, u \in Versions : version[v].hash = version[u].hash => v = u
    /\ job = [v \in Versions |-> [status |-> "SUCCEEDED", attempts |-> 1]]
    /\ chunked = Versions
    /\ versionLock = [v \in Versions |-> None]
    /\ jobLock = [v \in Versions |-> None]
    /\ documentLock = [d \in Documents |-> None]
    /\ points = [v \in Versions |-> Vectors]
    /\ index = TRUE
    /\ files = Versions
    /\ ingestQueue = [v \in Versions |-> 0]
    /\ cleanupQueue = [d \in Documents |-> 0]
    /\ lastVersion = Cardinality(Versions)
    /\ faults = 0
    /\ lostIngestions = {}
    /\ lostCleanups = {}

AtRestInit == CorpusAtRest /\ WorkerInit /\ DeletionInit /\ UploadInit /\ QueryInit
AtRestNext == \E q \in Readers : AskQuery(q) \/ HandleQuery(q)

AtRestSpec == AtRestInit /\ [][AtRestNext]_allVars
=============================================================================
