------------------------------- MODULE Query -------------------------------
(***************************************************************************)
(* The query route and answer_question.  A query takes no row lock and     *)
(* writes nothing: it reads the ids of the searchable versions once, waits *)
(* for a slot, and then reads the index and the chunk rows while uploads,  *)
(* workers and deletes go on.  What the embedder, the rankers and the      *)
(* model answer is any value they may return.                              *)
(***************************************************************************)
EXTENDS Catalog, Answering

CONSTANTS
    Readers,      \* handlers of the query route
    TopK,         \* retrieval_top_k
    MaxInFlight   \* max_in_flight_queries

ASSUME QueryAssumption == {TopK, MaxInFlight} \subseteq Nat \ {0}
ASSUME ChunksAssumption ==
    Chunks \subseteq Nat /\ IsFiniteSet(Chunks) /\ TextSize \in [Chunks -> Nat]

VARIABLES
    reader,
    slots,   \* free slots of query_semaphore
    line     \* queries that wait for one, first come first served

queryVars == <<reader, slots, line>>

(***************************************************************************)
(* allowed   the version ids read at the start                             *)
(* dense, sparse   the two retrievers: "search", "load" or "loaded", and   *)
(*           their hits                                                    *)
(* found     the chunks of both, once they are fused                       *)
(* ranked    what the reranker made of them                                *)
(* claims    of the model's answer, as sets of evidence numbers            *)
(***************************************************************************)
IdleRetriever == [at |-> "search", hits |-> <<>>]
IdleReader ==
    [pc |-> "idle", allowed |-> {}, dense |-> IdleRetriever, sparse |-> IdleRetriever,
     found |-> {}, ranked |-> <<>>, status |-> "none", reason |-> "none", claims |-> {}]

ChunkIds == Versions \X Chunks
Retriever == [at : {"search", "load", "loaded"}, hits : Seq(ChunkIds)]
Reasons ==
    {"none", "NO_READY_DOCUMENTS", "NO_RETRIEVAL_RESULTS", "WEAK_EVIDENCE", "CONTEXT_EMPTY",
     "MODEL_ABSTENTION", "MISSING_ROW", "RETRIEVAL", "RERANKER", "GENERATION",
     "CITATION_VALIDATION_FAILED"}
QueryRecord ==
    [pc : {"idle", "waiting", "retrieving", "generating", "done"},
     allowed : SUBSET Versions, dense : Retriever, sparse : Retriever,
     found : SUBSET ChunkIds, ranked : Seq(ChunkIds),
     status : {"none", "ANSWERED", "INSUFFICIENT_EVIDENCE", "ERROR"}, reason : Reasons,
     claims : SUBSET SUBSET Nat]

QueryTypeOK ==
    /\ reader \in [Readers -> QueryRecord]
    /\ slots \in 0..MaxInFlight
    /\ line \in Seq(Readers)

QueryInit ==
    /\ reader = [q \in Readers |-> IdleReader]
    /\ slots = MaxInFlight
    /\ line = <<>>

Reading(q, pc) == reader[q].pc = pc

\* The outcome; the semaphore is released on every way out.
Finish(q, status, reason, claims) ==
    /\ reader' = [reader EXCEPT
                    ![q] = [IdleReader EXCEPT
                              !.pc = "done", !.allowed = reader[q].allowed,
                              !.found = reader[q].found, !.ranked = reader[q].ranked,
                              !.status = status, !.reason = reason, !.claims = claims]]
    /\ slots' = slots + 1

\* Mutant: the semaphore is not released when the query fails.
RefuseKeepSlot(q, reason) ==
    /\ reader' = [reader EXCEPT ![q] = [IdleReader EXCEPT
                                          !.pc = "done", !.status = "ERROR", !.reason = reason]]
    /\ UNCHANGED slots

Refuse(q, reason) == Finish(q, "ERROR", reason, {})
Abstain(q, reason) == Finish(q, "INSUFFICIENT_EVIDENCE", reason, {})

-----------------------------------------------------------------------------
\* Mutant: the searches are filtered by collection only.
SnapshotIndexed == {v \in Versions : points[v] # {}}

Snapshot == {v \in Versions : Searchable(v)}

\* The authorized route reads the searchable ids, then waits for a slot.
Ask(q) ==
    /\ Reading(q, "idle")
    /\ reader' = [reader EXCEPT ![q].pc = "waiting", ![q].allowed = Snapshot]
    /\ line' = Append(line, q)
    /\ UNCHANGED slots

\* Mutant: the slot is not counted as taken.
BeginUncounted(q) ==
    /\ line # <<>> /\ Head(line) = q
    /\ slots > 0
    /\ reader[q].allowed # {}
    /\ line' = Tail(line)
    /\ reader' = [reader EXCEPT ![q].pc = "retrieving"]
    /\ UNCHANGED slots

\* A slot is free, and answer_question begins.
Begin(q) ==
    /\ line # <<>> /\ Head(line) = q
    /\ slots > 0
    /\ reader[q].allowed # {}
    /\ slots' = slots - 1
    /\ line' = Tail(line)
    /\ reader' = [reader EXCEPT ![q].pc = "retrieving"]

NoReadyDocuments(q) ==
    /\ line # <<>> /\ Head(line) = q
    /\ slots > 0
    /\ reader[q].allowed = {}
    /\ line' = Tail(line)
    /\ reader' = [reader EXCEPT ![q].pc = "done", ![q].status = "INSUFFICIENT_EVIDENCE",
                                ![q].reason = "NO_READY_DOCUMENTS"]
    /\ UNCHANGED slots

(***************************************************************************)
(* retrieve_hybrid: the two retrievers run concurrently.                   *)
(***************************************************************************)
\* The points in Qdrant now that pass the filter and have a vector of the kind.
Matching(q, kind) ==
    {p \in reader[q].allowed \X Chunks : <<p[2], kind>> \in points[p[1]]}

\* The nearest TopK points.
SearchDense(q) ==
    LET matching == Matching(q, "dense") IN
    /\ Reading(q, "retrieving") /\ reader[q].dense.at = "search"
    /\ \E hits \in SetToAllKPermutations(matching) :
        /\ Len(hits) = IF Cardinality(matching) < TopK THEN Cardinality(matching) ELSE TopK
        /\ reader' = [reader EXCEPT ![q].dense = [at |-> "load", hits |-> hits]]
    /\ UNCHANGED <<slots, line>>

\* A sparse search finds the points that share a term with the question.
SearchSparse(q) ==
    /\ Reading(q, "retrieving") /\ reader[q].sparse.at = "search"
    /\ \E hits \in SetToAllKPermutations(Matching(q, "sparse")) :
        /\ Len(hits) <= TopK
        /\ reader' = [reader EXCEPT ![q].sparse = [at |-> "load", hits |-> hits]]
    /\ UNCHANGED <<slots, line>>

\* _candidates_from_hits: the rows of the hits, and that they pass the filter.
RowsOf(q, hits) == \A p \in ToSet(hits) : p[1] \in chunked /\ p[1] \in reader[q].allowed

LoadDense(q) ==
    /\ Reading(q, "retrieving") /\ reader[q].dense.at = "load"
    /\ IF RowsOf(q, reader[q].dense.hits)
         THEN reader' = [reader EXCEPT ![q].dense.at = "loaded"] /\ UNCHANGED slots
         ELSE Refuse(q, "MISSING_ROW")
    /\ UNCHANGED line

LoadSparse(q) ==
    /\ Reading(q, "retrieving") /\ reader[q].sparse.at = "load"
    /\ IF RowsOf(q, reader[q].sparse.hits)
         THEN reader' = [reader EXCEPT ![q].sparse.at = "loaded"] /\ UNCHANGED slots
         ELSE Refuse(q, "MISSING_ROW")
    /\ UNCHANGED line

\* The embedder, the encoder, Qdrant or PostgreSQL fails or times out: no
\* answer is made from the other retriever alone.
RetrievalFails(q) ==
    /\ Reading(q, "retrieving")
    /\ {reader[q].dense.at, reader[q].sparse.at} # {"loaded"}
    /\ Refuse(q, "RETRIEVAL")
    /\ UNCHANGED line

(***************************************************************************)
(* From the candidates to the evidence                                     *)
(***************************************************************************)
Retrieved(q) ==
    /\ Reading(q, "retrieving")
    /\ reader[q].dense.at = "loaded" /\ reader[q].sparse.at = "loaded"

Fused(q) == Fuse(reader[q].dense.hits, reader[q].sparse.hits)

\* The answer of the reranker, which is not called without candidates.  The
\* bound lets it add one candidate too many, repeat one or make one up.
UnknownChunk == <<0, 0>>
Rankings(fused) ==
    IF fused = <<>> THEN {<<>>}
    ELSE BoundedSeq(ToSet(fused) \cup {UnknownChunk}, RerankTopN + 1)

RankAndPack(q) ==
    /\ Retrieved(q)
    /\ \E fused \in {Fused(q)} : \E ranked \in Rankings(fused), weak \in BOOLEAN :
        LET found == ToSet(reader[q].dense.hits) \cup ToSet(reader[q].sparse.hits)
            reason == ReasonToAbstain(fused, ranked, weak)
        IN \/ ~ValidRanking(ranked, fused) /\ Refuse(q, "RERANKER")
           \/ ValidRanking(ranked, fused) /\ reason # "none" /\ Abstain(q, reason)
           \/ /\ ValidRanking(ranked, fused) /\ reason = "none"
              /\ reader' = [reader EXCEPT
                              ![q] = [IdleReader EXCEPT
                                        !.pc = "generating", !.allowed = reader[q].allowed,
                                        !.found = found, !.ranked = ranked]]
              /\ UNCHANGED slots
    /\ UNCHANGED line

\* The reranker raises, times out, or alters a candidate.
RerankerFails(q) ==
    /\ Retrieved(q) /\ Fused(q) # <<>>
    /\ Refuse(q, "RERANKER")
    /\ UNCHANGED line

(***************************************************************************)
(* Generation and citations                                                *)
(***************************************************************************)
\* The model answers or abstains; its claims cite evidence it was shown and, at
\* worst, one id it was not.  The claims of an abstention are checked as well.
Generate(q) ==
    LET evidence == Evidence(reader[q].ranked) IN
    /\ Reading(q, "generating")
    /\ \E status \in {"ANSWERED", "INSUFFICIENT_EVIDENCE"},
          claims \in SUBSET SUBSET (1..Len(evidence) + 1) :
        IF ValidCitations(status, claims, evidence, reader[q].allowed)
          THEN Finish(q, status, IF status = "ANSWERED" THEN "none" ELSE "MODEL_ABSTENTION", claims)
          ELSE Refuse(q, "CITATION_VALIDATION_FAILED")
    /\ UNCHANGED line

GenerationFails(q) ==
    /\ Reading(q, "generating")
    /\ Refuse(q, "GENERATION")
    /\ UNCHANGED line

\* The response, and the handler is free for the next question.
Respond(q) ==
    /\ Reading(q, "done")
    /\ reader' = [reader EXCEPT ![q] = IdleReader]
    /\ UNCHANGED <<slots, line>>

ReaderStep(q) ==
    \/ Begin(q) \/ NoReadyDocuments(q)
    \/ SearchDense(q) \/ SearchSparse(q) \/ LoadDense(q) \/ LoadSparse(q) \/ RetrievalFails(q)
    \/ RankAndPack(q) \/ RerankerFails(q)
    \/ Generate(q) \/ GenerationFails(q)
    \/ Respond(q)
=============================================================================
