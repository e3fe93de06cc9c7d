-------------------------- MODULE CitedRagQueries --------------------------
(***************************************************************************)
(* The whole system: queries over the documents that uploads, workers,     *)
(* deletes and cleanups change meanwhile.                                  *)
(***************************************************************************)
EXTENDS CitedRag, Query

allVars == <<vars, queryVars>>

SystemInit == Init /\ QueryInit

AskQuery(q) == Ask(q) /\ UNCHANGED vars
HandleQuery(q) == ReaderStep(q) /\ UNCHANGED vars

SystemNext ==
    \/ Next /\ UNCHANGED queryVars
    \/ \E q \in Readers : AskQuery(q) \/ HandleQuery(q)

SystemSpec == SystemInit /\ [][SystemNext]_allVars

\* The API goes on with the queries it has accepted, as with everything else; nobody
\* has to ask.
QueryFairness == \A q \in Readers : WF_allVars(HandleQuery(q))

FairSystemSpec == SystemSpec /\ Fairness /\ QueryFairness

-----------------------------------------------------------------------------
(***************************************************************************)
(* One query                                                               *)
(***************************************************************************)
Hits(q) == ToSet(reader[q].dense.hits) \cup ToSet(reader[q].sparse.hits)

\* Fusion is fair to both retrievers: a chunk that is ranked no worse than another
\* by each of them, and better by one, comes before it (or alone makes the cut);
\* what is cut is never better than what is kept, and neither result is preferred:
\* exchanged, they are fused to the same list.
NoWorse(hits, p, q) ==
    Contains(hits, q) => Contains(hits, p) /\ Rank(hits, p) <= Rank(hits, q)

FusionIsFair ==
    \A r \in Readers : Retrieved(r) =>
        LET dense == reader[r].dense.hits
            sparse == reader[r].sparse.hits
            fused == Fused(r)
        IN /\ ToSet(fused) \subseteq Hits(r) /\ IsInjective(fused)
           /\ Len(fused) = Min({FusedTopK, Cardinality(Hits(r))})
           /\ fused = Fuse(sparse, dense)
           /\ \A p, q \in Hits(r) :
                 p # q /\ NoWorse(dense, p, q) /\ NoWorse(sparse, p, q) /\ Contains(fused, q)
                   => Contains(fused, p) /\ Rank(fused, p) < Rank(fused, q)

\* The evidence wastes no room: it keeps the order of the ranking and the limits,
\* and whatever was left out of it would break one of them.
EvidenceIsFull ==
    \A q \in Readers : Reading(q, "generating") =>
        LET ranked == reader[q].ranked
            kept == Evidence(ranked)
        IN /\ Len(kept) <= MaxItems /\ Tokens(kept) <= TokenBudget
           /\ \A i, j \in DOMAIN kept : i < j => Rank(ranked, kept[i]) < Rank(ranked, kept[j])
           /\ \A p \in ToSet(ranked) \ ToSet(kept) : ~Fits(kept, p)

\* An answer is grounded: it makes a claim, and every claim cites evidence, all of
\* it retrieved by this query from a version that was searchable when it began.
\* Neither the reranker nor the model can bring in anything else.
AnsweredIsGrounded ==
    \A q \in Readers : reader[q].status = "ANSWERED" =>
        LET evidence == Evidence(reader[q].ranked) IN
        /\ reader[q].claims # {}
        /\ \A claim \in reader[q].claims :
            /\ claim # {}
            /\ \A i \in claim :
                  /\ i \in DOMAIN evidence
                  /\ evidence[i] \in reader[q].found
                  /\ evidence[i][1] \in reader[q].allowed

(***************************************************************************)
(* Queries against the changes of the documents                            *)
(***************************************************************************)
\* A query sees one version of a document: while it runs a new version may be
\* published, and no result mixes the two.
OneVersionPerDocument ==
    \A q \in Readers : \A p, r \in Hits(q) \cup reader[q].found :
        version[p[1]].document = version[r[1]].document => p[1] = r[1]

\* The index never shows a query a point whose row it cannot read, though points
\* are written before the rows are committed and deleted outside of any transaction.
RowsAreFound ==
    \A q \in Readers : reader[q].reason # "MISSING_ROW"

\* Every query that was asked is answered, also when others fail: no slot is lost.
QueriesFinish ==
    \A q \in Readers : reader[q].pc # "idle" ~> reader[q].pc = "idle"
=============================================================================
