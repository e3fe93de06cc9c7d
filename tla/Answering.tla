----------------------------- MODULE Answering -----------------------------
(***************************************************************************)
(* What a query computes, without the calls that it awaits: rank fusion,   *)
(* the check of the reranker's answer, the evidence package, the           *)
(* abstention policy and the check of the citations.                       *)
(*                                                                         *)
(* A chunk is identified by <<version id, chunk order>>; its text, pages   *)
(* and document are those of its row, so two copies of it are equal.  A    *)
(* search result is the sequence of its chunks, best first.                *)
(***************************************************************************)
EXTENDS Naturals, Sequences, FiniteSets, SequencesExt

CONSTANTS
    RrfK,         \* rrf_k
    FusedTopK,    \* fused_top_k
    RerankTopN,   \* rerank_top_n
    MaxItems,     \* max_evidence_items
    TokenBudget,  \* context_token_budget
    TextSize      \* tokens of each chunk's text in the context; 0 if it is blank

ASSUME AnsweringAssumption ==
    {RrfK, FusedTopK, RerankTopN, MaxItems, TokenBudget} \subseteq Nat \ {0}

(***************************************************************************)
(* ReciprocalRankFusion.fuse, with exact rationals <<num, den>> for the    *)
(* floats of the scores.                                                   *)
(***************************************************************************)
\* The rank of a chunk in a result, the best one if it is there twice.
Rank(hits, p) == Min({i \in DOMAIN hits : hits[i] = p})

Score(dense, sparse, p) ==
    LET a == RrfK + Rank(dense, p)
        b == RrfK + Rank(sparse, p)
    IN CASE Contains(dense, p) /\ Contains(sparse, p) -> <<a + b, a * b>>
         [] Contains(dense, p) /\ ~Contains(sparse, p) -> <<1, a>>
         [] OTHER -> <<1, b>>

\* str(chunk_id): any total order that is fixed.
IdBefore(p, q) == p[1] < q[1] \/ (p[1] = q[1] /\ p[2] < q[2])

\* The sort key (-rrf_score, str(chunk_id)).
Precedes(dense, sparse, p, q) ==
    LET s == Score(dense, sparse, p)
        t == Score(dense, sparse, q)
    IN \/ s[1] * t[2] > t[1] * s[2]
       \/ s[1] * t[2] = t[1] * s[2] /\ IdBefore(p, q)

Prefix(s, n) == SubSeq(s, 1, IF Len(s) < n THEN Len(s) ELSE n)

\* Mutant: a chunk that both searches found is ranked by the dense one alone.
FuseDenseFirst(dense, sparse) ==
    Prefix(dense \o SelectSeq(sparse, LAMBDA p : ~Contains(dense, p)), FusedTopK)

Candidates(dense, sparse) == ToSet(dense) \cup ToSet(sparse)

\* The position in sorted(...): a candidate comes after those that precede it.
Place(dense, sparse) ==
    [p \in Candidates(dense, sparse) |->
        1 + Cardinality({q \in Candidates(dense, sparse) : Precedes(dense, sparse, q, p)})]

Fuse(dense, sparse) ==
    LET candidates == Candidates(dense, sparse)
        place == Place(dense, sparse)
    IN Prefix([n \in 1..Cardinality(candidates) |-> CHOOSE p \in candidates : place[p] = n],
              FusedTopK)

(***************************************************************************)
(* _validated_rerank: the reranker may drop and reorder candidates.        *)
(***************************************************************************)
ValidRanking(ranked, fused) ==
    /\ Len(ranked) <= RerankTopN
    /\ ToSet(ranked) \subseteq ToSet(fused)
    /\ IsInjective(ranked)

(***************************************************************************)
(* build_evidence_package: E1, E2, ... in the order of the ranking.        *)
(***************************************************************************)
Tokens(kept) ==
    LET used[n \in 0..Len(kept)] == IF n = 0 THEN 0 ELSE used[n - 1] + TextSize[kept[n][2]]
    IN used[Len(kept)]

Fits(kept, p) ==
    /\ ~Contains(kept, p)
    /\ TextSize[p[2]] > 0
    /\ Len(kept) < MaxItems
    /\ Tokens(kept) + TextSize[p[2]] <= TokenBudget

\* Mutant: the package ends at the first candidate that does not fit.
EvidenceUntilFull(ranked) ==
    LET fitting(n) == \A i \in 1..n : Fits(SubSeq(ranked, 1, i - 1), ranked[i])
    IN Prefix(ranked, Max({n \in 0..Len(ranked) : fitting(n)}))

\* A candidate that does not fit is dropped, and the next one is tried.
Evidence(ranked) ==
    LET kept[n \in 0..Len(ranked)] ==
            IF n = 0 THEN <<>>
            ELSE IF Fits(kept[n - 1], ranked[n]) THEN Append(kept[n - 1], ranked[n])
            ELSE kept[n - 1]
    IN kept[Len(ranked)]

(***************************************************************************)
(* decide_before_generation: the reason to abstain, or "none".             *)
(***************************************************************************)
ReasonToAbstain(fused, ranked, weak) ==
    CASE fused = <<>> -> "NO_RETRIEVAL_RESULTS"
      [] fused # <<>> /\ (ranked = <<>> \/ weak) -> "WEAK_EVIDENCE"
      [] OTHER -> IF Evidence(ranked) = <<>> THEN "CONTEXT_EMPTY" ELSE "none"

(***************************************************************************)
(* validate_citations.  A claim is the set of the evidence numbers it      *)
(* cites; a number beyond the package is an id the model made up.  There   *)
(* is one collection.                                                      *)
(***************************************************************************)
Referenced(claims) == UNION claims

\* Mutant: unknown evidence ids are left out instead of refused.
ValidCitationsRepaired(status, claims, evidence, allowed) ==
    status = "ANSWERED" => Referenced(claims) \cap DOMAIN evidence # {}

ValidCitations(status, claims, evidence, allowed) ==
    /\ status = "ANSWERED" => claims # {} /\ {} \notin claims
    /\ Referenced(claims) \subseteq DOMAIN evidence
    /\ \A i \in Referenced(claims) : evidence[i][1] \in allowed
=============================================================================
