----------------------------- MODULE IndexSchema -----------------------------
(***************************************************************************)
(* ensure_collection: before it upserts anything, every ingestion checks   *)
(* the Qdrant collection or creates it, in several calls that belong to no *)
(* transaction.  Ingestions of different workers do this at the same time, *)
(* perhaps with different settings, and a call may fail though it took     *)
(* effect.                                                                 *)
(***************************************************************************)
EXTENDS Integers, FiniteSets

CONSTANTS
    Ingestions,     \* jobs that reach persist_dense_index
    Fields,         \* PAYLOAD_FIELDS
    Dimension,      \* embedding_dimension in the settings of the worker of each
    Existing,       \* the collections Qdrant may have at the start
    MaxTries,       \* ingestion_max_attempts
    MaxCallFaults   \* bound on the faults of calls and workers

Absent == [exists |-> FALSE]

\* vectors   whether it has a dense and a sparse vector, with cosine distance
\* index     the payload index of each field
Collection ==
    [exists : {TRUE}, vectors : BOOLEAN, dimension : Nat,
     index : [Fields -> {"missing", "right", "wrong"}]]

ASSUME SchemaAssumption ==
    /\ Dimension \in [Ingestions -> Nat]
    /\ Existing \subseteq Collection \cup {Absent}
    /\ MaxTries \in Nat \ {0} /\ MaxCallFaults \in Nat

VARIABLES
    collection,   \* of Qdrant
    ingestion,    \* where each job is
    callFaults

schemaVars == <<collection, ingestion, callFaults>>

(***************************************************************************)
(* try     attempt_count of the job, once it is claimed                    *)
(* todo    the fields whose index is still to be created                   *)
(***************************************************************************)
Waiting == [pc |-> "waiting", try |-> 0, todo |-> {}]
IngestionRecord ==
    [pc : {"waiting", "checking", "inspecting", "creating", "indexing",
           "indexed", "unavailable", "exhausted"},
     try : 0..MaxTries, todo : SUBSET Fields]

SchemaInit ==
    /\ collection \in Existing
    /\ ingestion = [w \in Ingestions |-> Waiting]
    /\ callFaults = 0

In(w, pc) == ingestion[w].pc = pc
Move(w, pc) == ingestion' = [ingestion EXCEPT ![w].pc = pc]

\* Mutant: the field types are not compared.
UsableUntyped(c, w) == c.vectors /\ c.dimension = Dimension[w]

\* assert_existing_collection_schema
Usable(c, w) ==
    /\ c.vectors /\ c.dimension = Dimension[w]
    /\ \A f \in Fields : c.index[f] # "wrong"

\* TransientIngestionError: the job is retried until its last attempt.
Transient(w) ==
    Move(w, IF ingestion[w].try >= MaxTries THEN "exhausted" ELSE "waiting")

-----------------------------------------------------------------------------
\* The job is delivered, claimed, and comes to persist_dense_index.
Deliver(w) ==
    /\ In(w, "waiting") /\ ingestion[w].try < MaxTries
    /\ ingestion' = [ingestion EXCEPT ![w] = [pc |-> "checking", try |-> @.try + 1, todo |-> {}]]
    /\ UNCHANGED <<collection, callFaults>>

\* collection_exists
Check(w) ==
    /\ In(w, "checking")
    /\ Move(w, IF collection.exists THEN "inspecting" ELSE "creating")
    /\ UNCHANGED <<collection, callFaults>>

\* What is left of the fields; the loop ends with the last.
Index(w, todo) ==
    ingestion' = [ingestion EXCEPT ![w].todo = todo,
                                   ![w].pc = IF todo = {} THEN "indexed" ELSE "indexing"]

Missing(c) == {f \in Fields : c.index[f] = "missing"}

\* Mutant: a schema that does not fit is reported as a store that is down.
InspectTransient(w) ==
    /\ In(w, "inspecting")
    /\ IF Usable(collection, w) THEN Index(w, Missing(collection)) ELSE Transient(w)
    /\ UNCHANGED <<collection, callFaults>>

\* Mutant: ... or as an error that rolls the claim back, so that the job comes again.
InspectRaising(w) ==
    /\ In(w, "inspecting")
    /\ IF Usable(collection, w) THEN Index(w, Missing(collection))
       ELSE ingestion' = [ingestion EXCEPT ![w] = [pc |-> "waiting", try |-> @.try - 1, todo |-> {}]]
    /\ UNCHANGED <<collection, callFaults>>

\* get_collection, and the missing fields if the schema is as it should be.
\* Otherwise the job fails for good with INDEX_UNAVAILABLE.
Inspect(w) ==
    /\ In(w, "inspecting")
    /\ IF Usable(collection, w) THEN Index(w, Missing(collection)) ELSE Move(w, "unavailable")
    /\ UNCHANGED <<collection, callFaults>>

Created(w) ==
    [exists |-> TRUE, vectors |-> TRUE, dimension |-> Dimension[w],
     index |-> [f \in Fields |-> "missing"]]

\* create_collection is refused if another ingestion was first.
Create(w) ==
    /\ In(w, "creating")
    /\ \/ ~collection.exists /\ collection' = Created(w) /\ Index(w, Fields)
       \/ collection.exists /\ Transient(w) /\ UNCHANGED collection
    /\ UNCHANGED callFaults

\* create_payload_index of the next field; again is no error.
CreateIndex(w) ==
    /\ In(w, "indexing")
    /\ \E f \in ingestion[w].todo :
        /\ collection' = [collection EXCEPT !.index[f] = "right"]
        /\ Index(w, ingestion[w].todo \ {f})
    /\ UNCHANGED callFaults

\* A call fails or times out, perhaps after Qdrant has carried it out.
CallFails(w) ==
    /\ callFaults < MaxCallFaults /\ callFaults' = callFaults + 1
    /\ \/ ingestion[w].pc \in {"checking", "inspecting", "creating", "indexing"}
          /\ UNCHANGED collection
       \/ In(w, "creating") /\ ~collection.exists /\ collection' = Created(w)
       \/ In(w, "indexing") /\ \E f \in ingestion[w].todo :
            collection' = [collection EXCEPT !.index[f] = "right"]
    /\ Transient(w)

\* The worker dies: the claim is rolled back with its attempt, the message
\* comes again, and what was done in Qdrant stays.
WorkerDies(w) ==
    /\ ingestion[w].pc \in {"checking", "inspecting", "creating", "indexing"}
    /\ callFaults < MaxCallFaults /\ callFaults' = callFaults + 1
    /\ ingestion' = [ingestion EXCEPT ![w] = [pc |-> "waiting", try |-> @.try - 1, todo |-> {}]]
    /\ UNCHANGED collection

EnsureCollection(w) ==
    Deliver(w) \/ Check(w) \/ Inspect(w) \/ Create(w) \/ CreateIndex(w)

Settled(w) == ingestion[w].pc \in {"indexed", "unavailable", "exhausted"}

AllSettled == (\A w \in Ingestions : Settled(w)) /\ UNCHANGED schemaVars

SchemaNext ==
    \/ \E w \in Ingestions : EnsureCollection(w) \/ CallFails(w) \/ WorkerDies(w)
    \/ AllSettled

SchemaSpec == SchemaInit /\ [][SchemaNext]_schemaVars

-----------------------------------------------------------------------------
(***************************************************************************)
(* The properties.                                                         *)
(***************************************************************************)

\* Types: the fields to do are those of an ingestion in the loop over them.
SchemaTypeOK ==
    /\ collection \in Collection \cup {Absent}
    /\ ingestion \in [Ingestions -> IngestionRecord]
    /\ \A w \in Ingestions : In(w, "indexing") => ingestion[w].todo # {}
    /\ callFaults \in 0..MaxCallFaults

\* An ingestion that goes on to upsert finds a collection of its dimension with
\* both vectors and an index of the right type on every payload field, whatever
\* other ingestions did to the collection meanwhile and whatever failed before.
IndexedIsWhole ==
    \A w \in Ingestions : In(w, "indexed") =>
        /\ collection.exists /\ collection.vectors /\ collection.dimension = Dimension[w]
        /\ \A f \in Fields : collection.index[f] = "right"

\* The attempts that ended in a retry or in exhaustion.
Lost(w) ==
    IF ingestion[w].pc \in {"waiting", "exhausted"} THEN ingestion[w].try ELSE ingestion[w].try - 1

\* Losing the race to create the collection costs an ingestion one attempt at
\* most: all the other attempts it lost are faults, so that with two attempts no
\* document fails for having been among the first.
RaceCostsOneAttempt ==
    \A w \in Ingestions : Lost(w) <= callFaults + 1

\* Every ingestion comes to an end: nobody waits for another one's half of a schema.
IngestionsSettle ==
    \A w \in Ingestions : <>Settled(w)
=============================================================================
