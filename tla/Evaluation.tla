----------------------------- MODULE Evaluation -----------------------------
(***************************************************************************)
(* The evaluation harness: run_evaluation takes the cases of a golden      *)
(* dataset through retrieval, reranking, evidence and the heuristic        *)
(* generator, under one configuration of the ablations, and tallies what   *)
(* the report is made of.  What the rankers and the shadow decision say    *)
(* is any value they may return.                                           *)
(***************************************************************************)
EXTENDS Answering

CONSTANTS
    Datasets,     \* the golden datasets: sequences of cases
    CorpusSize,   \* the chunks of the evaluation corpus are 1..CorpusSize
    Gain          \* 1 / log2(rank + 1), by rank, as a decreasing sequence of numbers

\* A case says whether it can be answered, and which chunks are relevant.
Case == [answerable : BOOLEAN, relevant : SUBSET ({1} \X (1..CorpusSize))]

ASSUME EvaluationAssumption ==
    /\ CorpusSize \in Nat
    /\ Datasets \subseteq Seq(Case)
    /\ Gain \in Seq(Nat \ {0}) /\ Len(Gain) >= CorpusSize
    /\ \A i, j \in DOMAIN Gain : i < j => Gain[i] > Gain[j]

\* CONFIGS: dense-only, sparse-only, hybrid, and hybrid-rerank.
RunConfig ==
    {c \in [dense : BOOLEAN, sparse : BOOLEAN, rerank : BOOLEAN] :
        /\ c.dense \/ c.sparse
        /\ c.rerank => c.dense /\ c.sparse}

VARIABLES
    dataset,
    setting,      \* the configuration, and whether there is a decisioner
    evaluated,    \* the number of cases that are done
    last,         \* what the last case retrieved, cited and was answered
    tally

evaluationVars == <<dataset, setting, evaluated, last, tally>>

Counters ==
    {"citation_ok", "abstained", "abstained_correct", "unanswerable",
     "answered_unanswerable", "agreements", "false_answer", "abstention", "failures"}

EvaluationInit ==
    /\ dataset \in Datasets
    /\ setting \in [config : RunConfig, decisioner : BOOLEAN]
    /\ evaluated = 0
    /\ last = [retrieved |-> <<>>, relevant |-> {}]
    /\ tally = [counter \in Counters |-> 0]

-----------------------------------------------------------------------------
(***************************************************************************)
(* The metrics of a case, as fractions <<num, den>>.                       *)
(***************************************************************************)
HitRanks(retrieved, relevant, k) ==
    {i \in DOMAIN retrieved : i <= k /\ retrieved[i] \in relevant}

RecallAtK(retrieved, relevant, k) ==
    IF relevant = {} THEN <<1, 1>>
    ELSE <<Cardinality(HitRanks(retrieved, relevant, k)), Cardinality(relevant)>>

Mrr(retrieved, relevant) ==
    LET ranks == HitRanks(retrieved, relevant, Len(retrieved))
    IN IF ranks = {} THEN <<0, 1>> ELSE <<1, Min(ranks)>>

\* The gains of the ranks, added up in the order of the ranking.
Gains(ranks) ==
    LET sum[n \in 0..Len(Gain)] ==
          IF n = 0 THEN 0 ELSE sum[n - 1] + IF n \in ranks THEN Gain[n] ELSE 0
    IN sum[Len(Gain)]

\* Mutant: the ideal list is not cut at k.
NdcgUncut(retrieved, relevant, k) ==
    IF relevant = {} THEN <<1, 1>>
    ELSE <<Gains(HitRanks(retrieved, relevant, k)), Gains(1..Cardinality(relevant))>>

NdcgAtK(retrieved, relevant, k) ==
    IF relevant = {} THEN <<1, 1>>
    ELSE <<Gains(HitRanks(retrieved, relevant, k)), Gains(1..Min({k, Cardinality(relevant)}))>>

-----------------------------------------------------------------------------
(***************************************************************************)
(* One case                                                                *)
(***************************************************************************)
Corpus == {1} \X (1..CorpusSize)

\* What a search may find: as many chunks as are fused, the harness says.  A
\* retriever that the configuration leaves out finds nothing.
Results(included) ==
    {hits \in SetToAllKPermutations(Corpus) :
        Len(hits) <= IF included THEN FusedTopK ELSE 0}

\* Without the reranker the candidates pass through; with it, they are reordered.
Reranked(fused) ==
    IF setting.config.rerank
    THEN {Prefix(order, RerankTopN) : order \in SetToSeqs(ToSet(fused))}
    ELSE {Prefix(fused, RerankTopN)}

\* HeuristicGroundedGenerator: it quotes what shares enough words with the question.
HeuristicAnswer(quoted) ==
    IF quoted = {} THEN [status |-> "INSUFFICIENT_EVIDENCE", claims |-> {}]
    ELSE [status |-> "ANSWERED", claims |-> {quoted}]

If(condition) == IF condition THEN 1 ELSE 0

CountShadow(case, shadow) ==
    [agreements   |-> If(shadow \in {"yes", "no"} /\ (shadow = "yes") = case.answerable),
     false_answer |-> If(shadow = "yes" /\ ~case.answerable),
     abstention   |-> If(shadow = "no" /\ case.answerable),
     failures     |-> If(shadow = "failed")]

CountAnswer(case, answer, valid) ==
    [citation_ok           |-> If(valid),
     abstained             |-> If(answer.status = "INSUFFICIENT_EVIDENCE"),
     abstained_correct     |-> If(answer.status = "INSUFFICIENT_EVIDENCE" /\ ~case.answerable),
     unanswerable          |-> If(~case.answerable),
     answered_unanswerable |-> If(answer.status = "ANSWERED" /\ ~case.answerable)]

Retrievals == {Fuse(dense, sparse) : dense \in Results(setting.config.dense),
                                     sparse \in Results(setting.config.sparse)}

EvaluateCase ==
    /\ evaluated < Len(dataset)
    /\ \E fused \in Retrievals : \E ranked \in Reranked(fused) :
       \E quoted \in SUBSET DOMAIN Evidence(ranked),
          shadow \in IF setting.decisioner THEN {"yes", "no", "failed"} ELSE {"none"} :
        LET case == dataset[evaluated + 1]
            answer == HeuristicAnswer(quoted)
            valid == ValidCitations(answer.status, answer.claims, Evidence(ranked), {1})
            shadowed == CountShadow(case, shadow)
            answered == CountAnswer(case, answer, valid)
        IN /\ tally' = [counter \in Counters |->
                          tally[counter] + IF counter \in DOMAIN shadowed THEN shadowed[counter]
                                                                         ELSE answered[counter]]
           /\ last' = [retrieved |-> fused, relevant |-> case.relevant]
    /\ evaluated' = evaluated + 1
    /\ UNCHANGED <<dataset, setting>>

\* The manifest is written.
Reported == evaluated = Len(dataset) /\ UNCHANGED evaluationVars

EvaluationNext == EvaluateCase \/ Reported

EvaluationSpec == EvaluationInit /\ [][EvaluationNext]_evaluationVars

-----------------------------------------------------------------------------
(***************************************************************************)
(* The properties.                                                         *)
(***************************************************************************)

\* The report accounts for every case once: with a decisioner its agreements, its
\* two kinds of disagreement and its failures make up the cases; an unanswerable
\* case is either abstained from or answered, so that the recall of abstentions and
\* the rate of false answers are complementary; no rate exceeds one; and what the
\* heuristic generator cites always passes the validation of the pipeline.
TalliesAddUp ==
    /\ tally["agreements"] + tally["false_answer"] + tally["abstention"] + tally["failures"]
         = IF setting.decisioner THEN evaluated ELSE 0
    /\ tally["abstained_correct"] + tally["answered_unanswerable"] = tally["unanswerable"]
    /\ tally["abstained_correct"] <= tally["abstained"]
    /\ tally["citation_ok"] = evaluated

NotAbove(x, y) == x[1] * y[2] <= y[1] * x[2]

\* The three metrics of a ranking agree: each is a fraction of one; they are nought
\* together; ndcg is one if and only if the relevant chunks come first; and a
\* ranking that moves a relevant chunk up by one place scores no worse by any.
MetricsAgree ==
    LET retrieved == last.retrieved
        relevant == last.relevant
        recall == RecallAtK(retrieved, relevant, FusedTopK)
        ndcg == NdcgAtK(retrieved, relevant, FusedTopK)
        ideal == Min({FusedTopK, Cardinality(relevant)})
        better(i) == [retrieved EXCEPT ![i] = retrieved[i + 1], ![i + 1] = retrieved[i]]
    IN relevant # {} =>
        /\ \A x \in {recall, ndcg, Mrr(retrieved, relevant)} : 0 <= x[1] /\ x[1] <= x[2]
        /\ (recall[1] = 0) = (ndcg[1] = 0)
        /\ (recall[1] = 0) = (Mrr(retrieved, relevant)[1] = 0)
        /\ ndcg[1] = ndcg[2] <=> HitRanks(retrieved, relevant, FusedTopK) = 1..ideal
        /\ \A i \in 1..(Len(retrieved) - 1) :
             retrieved[i + 1] \in relevant /\ retrieved[i] \notin relevant =>
               /\ NotAbove(recall, RecallAtK(better(i), relevant, FusedTopK))
               /\ NotAbove(ndcg, NdcgAtK(better(i), relevant, FusedTopK))
               /\ NotAbove(Mrr(retrieved, relevant), Mrr(better(i), relevant))

\* The report is right: what it counts adds up, and what it measures agrees.
ReportIsSound == TalliesAddUp /\ MetricsAgree
=============================================================================
