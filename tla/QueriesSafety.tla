---------------------------- MODULE QueriesSafety ----------------------------
(***************************************************************************)
(* The safety of the whole system: the theorems about the documents hold   *)
(* while queries run, and the queries are answered from one consistent     *)
(* choice of versions.  The queries rest on QueriesInv, an invariant of    *)
(* their records, the line and the slots, on top of IInv.                  *)
(***************************************************************************)
EXTENDS CitedRagQueries, CitedRagSteps, AnsweringProofs

-----------------------------------------------------------------------------
(***************************************************************************)
(* Queries only read: a step of the system is one of the documents, or it  *)
(* leaves them as they are.                                                *)
(***************************************************************************)
LEMMA SystemStep ==
    ASSUME [SystemNext]_allVars
    PROVE  /\ [Next]_vars
           /\ \/ UNCHANGED queryVars
              \/ UNCHANGED vars /\ \E q \in Readers : Ask(q) \/ ReaderStep(q)
BY DEF SystemNext, allVars, AskQuery, HandleQuery

\* Whatever is proved of the documents holds in the whole system.
THEOREM SystemImplementsCitedRag == SystemSpec => Spec
<1>1. SystemInit => Init
  BY DEF SystemInit
<1>2. [SystemNext]_allVars => [Next]_vars
  BY SystemStep
<1> QED BY <1>1, <1>2, PTL DEF SystemSpec, Spec

-----------------------------------------------------------------------------
(***************************************************************************)
(* The invariant                                                           *)
(***************************************************************************)
Holding == {q \in Readers : reader[q].pc \in {"retrieving", "generating"}}

\* The rows of the versions a query may read are there, and no two of the versions
\* are of the same document.
Readable(allowed) ==
    /\ \A v \in allowed : v \in chunked /\ Exists(v) /\ v <= lastVersion
    /\ \A v, u \in allowed : version[v].document = version[u].document => v = u

\* A query holds chunks of the versions it read at the start and of no others, its
\* ranking repeats none, and an answer it has given has been validated.
Grounded(r) ==
    /\ r \in QueryRecord /\ (r.pc = "idle" => r = IdleReader)
    /\ r.dense.hits \in Seq(r.allowed \X Chunks)
    /\ r.sparse.hits \in Seq(r.allowed \X Chunks)
    /\ r.found \subseteq r.allowed \X Chunks
    /\ r.ranked \in Seq(r.found) /\ IsInjective(r.ranked)
    /\ r.reason # "MISSING_ROW"
    /\ r.status = "ANSWERED" =>
          ValidCitations("ANSWERED", r.claims, Evidence(r.ranked), r.allowed)

QueriesGrounded ==
    /\ reader = [q \in Readers |-> reader[q]]
    /\ \A q \in Readers : Grounded(reader[q])

QueriesRead == \A q \in Readers : Readable(reader[q].allowed)

\* Those in the line wait, each once; every slot is free or held by one query.
LineWaits ==
    /\ line \in Seq(Readers) /\ IsInjective(line)
    /\ \A q \in Readers : Contains(line, q) => reader[q].pc = "waiting"

SlotsCounted ==
    /\ slots \in Nat /\ IsFiniteSet(Holding)
    /\ slots + Cardinality(Holding) = MaxInFlight

QueriesInv == QueriesGrounded /\ QueriesRead /\ LineWaits /\ SlotsCounted

LEMMA IdleIsGrounded ==
    /\ IdleReader \in QueryRecord /\ Grounded(IdleReader)
    /\ IdleReader.dense = IdleRetriever /\ IdleReader.sparse = IdleRetriever
    /\ IdleRetriever.hits = <<>> /\ IdleReader.pc = "idle" /\ IdleReader.allowed = {}
<1>1. <<>> \in Seq(ChunkIds) /\ <<>> \in Seq({} \X Chunks) /\ <<>> \in Seq({})
  OBVIOUS
<1>2. IsInjective(<<>>)
  BY DEF IsInjective
<1>3. IdleReader \in QueryRecord
  <2>1. IdleRetriever \in Retriever
    BY <1>1 DEF IdleRetriever, Retriever
  <2> HIDE DEF ChunkIds
  <2> QED BY <1>1, <2>1 DEF IdleReader, QueryRecord, Reasons
<1>4. Grounded(IdleReader)
  BY <1>1, <1>2, <1>3 DEF Grounded, IdleReader, IdleRetriever
<1> QED BY <1>3, <1>4 DEF IdleReader, IdleRetriever

LEMMA InitQueries == SystemInit => QueriesInv
<1> SUFFICES ASSUME QueryInit PROVE QueriesInv
  BY DEF SystemInit
<1> USE DEF QueryInit
<1>1. Grounded(IdleReader)
  BY IdleIsGrounded
<1>2. QueriesGrounded
  BY <1>1 DEF QueriesGrounded
<1>3. QueriesRead
  BY DEF QueriesRead, Readable, IdleReader
<1>4. LineWaits
  BY DEF LineWaits, IsInjective, Contains
<1>5. SlotsCounted
  <2>1. Holding = {}
    BY DEF Holding, IdleReader
  <2>2. IsFiniteSet(Holding) /\ Cardinality(Holding) = 0
    BY <2>1, FS_EmptySet
  <2> QED BY <2>2, QueryAssumption DEF SlotsCounted
<1> QED BY <1>2, <1>3, <1>4, <1>5 DEF QueriesInv

-----------------------------------------------------------------------------
(***************************************************************************)
(* The line and the slots                                                  *)
(***************************************************************************)
LEMMA JoinLine ==
    ASSUME NEW S, NEW queue \in Seq(S), IsInjective(queue), NEW q \in S, ~Contains(queue, q)
    PROVE  /\ Append(queue, q) \in Seq(S) /\ IsInjective(Append(queue, q))
           /\ \A c : Contains(Append(queue, q), c) <=> Contains(queue, c) \/ c = q
<1> DEFINE new == Append(queue, q)
<1>1. /\ new \in Seq(S) /\ Len(new) = Len(queue) + 1 /\ Len(queue) \in Nat
      /\ DOMAIN new = 1..Len(new) /\ DOMAIN queue = 1..Len(queue)
      /\ \A i \in 1..Len(queue) : new[i] = queue[i]
      /\ new[Len(queue) + 1] = q
  OBVIOUS
<1> HIDE DEF new
<1>2. IsInjective(new)
  BY <1>1 DEF IsInjective, Contains
<1>3. ASSUME NEW c PROVE Contains(new, c) <=> Contains(queue, c) \/ c = q
  BY <1>1 DEF Contains
<1> QED BY <1>1, <1>2, <1>3 DEF new

LEMMA LeaveLine ==
    ASSUME NEW S, NEW queue \in Seq(S), IsInjective(queue), queue # <<>>
    PROVE  /\ Tail(queue) \in Seq(S) /\ IsInjective(Tail(queue))
           /\ Head(queue) \in S /\ Contains(queue, Head(queue))
           /\ \A c : Contains(Tail(queue), c) => Contains(queue, c) /\ c # Head(queue)
<1> DEFINE new == Tail(queue)
<1>1. /\ new \in Seq(S) /\ Len(new) = Len(queue) - 1 /\ Len(queue) \in Nat \ {0}
      /\ DOMAIN new = 1..Len(new) /\ DOMAIN queue = 1..Len(queue)
      /\ \A i \in 1..Len(new) : new[i] = queue[i + 1]
      /\ Head(queue) = queue[1] /\ queue[1] \in S
  OBVIOUS
<1> HIDE DEF new
<1>2. IsInjective(new)
  BY <1>1 DEF IsInjective
<1>3. Contains(queue, Head(queue))
  BY <1>1 DEF Contains
<1>4. ASSUME NEW c, Contains(new, c) PROVE Contains(queue, c) /\ c # Head(queue)
  <2>1. PICK i \in 1..Len(new) : new[i] = c
    BY <1>4 DEF Contains
  <2> QED BY <1>1, <2>1 DEF Contains, IsInjective
<1> QED BY <1>1, <1>2, <1>3, <1>4 DEF new

\* What a step of a query does to its record, the line and the slots: it asks,
\* leaves the line with or without a slot, goes on, or gives its slot back.
Moved(q, new) == reader' = [reader EXCEPT ![q] = new]

Joins(q, new) ==
    /\ reader[q].pc = "idle" /\ new.pc = "waiting"
    /\ line' = Append(line, q) /\ UNCHANGED slots
TakesSlot(q, new) ==
    /\ line # <<>> /\ Head(line) = q /\ line' = Tail(line)
    /\ new.pc = "retrieving" /\ slots > 0 /\ slots' = slots - 1
LeavesLine(q, new) ==
    /\ line # <<>> /\ Head(line) = q /\ line' = Tail(line)
    /\ new.pc = "done" /\ UNCHANGED slots
GoesOn(q, new) ==
    /\ \/ reader[q].pc = "retrieving" /\ new.pc \in {"retrieving", "generating"}
       \/ reader[q].pc = "done" /\ new.pc = "idle"
    /\ UNCHANGED <<line, slots>>
GivesBack(q, new) ==
    /\ reader[q].pc \in {"retrieving", "generating"} /\ new.pc = "done"
    /\ slots' = slots + 1 /\ UNCHANGED line

Moves(q, new) ==
    \/ Joins(q, new) \/ TakesSlot(q, new) \/ LeavesLine(q, new)
    \/ GoesOn(q, new) \/ GivesBack(q, new)

LEMMA MovedReaders ==
    ASSUME QueriesGrounded, NEW q \in Readers, NEW new, Moved(q, new)
    PROVE  /\ reader'[q] = new
           /\ \A x \in Readers : x # q => reader'[x] = reader[x]
           /\ reader' = [x \in Readers |-> reader'[x]]
BY DEF QueriesGrounded, Moved

LEMMA LineAndSlotsStep ==
    ASSUME QueriesInv, NEW q \in Readers, NEW new, Moved(q, new), Moves(q, new)
    PROVE  LineWaits' /\ SlotsCounted'
<1>a. /\ reader'[q] = new
      /\ \A x \in Readers : x # q => reader'[x] = reader[x]
  BY MovedReaders DEF QueriesInv
<1>b. /\ line \in Seq(Readers) /\ IsInjective(line)
      /\ \A x \in Readers : Contains(line, x) => reader[x].pc = "waiting"
      /\ slots \in Nat /\ IsFiniteSet(Holding)
      /\ slots + Cardinality(Holding) = MaxInFlight /\ MaxInFlight \in Nat
  BY QueryAssumption DEF QueriesInv, LineWaits, SlotsCounted
<1>c. Cardinality(Holding) \in Nat
  BY <1>b, FS_CardinalityType
<1>d. \A x : x \in Holding' <=> x \in Readers /\ reader'[x].pc \in {"retrieving", "generating"}
  BY DEF Holding
<1>e. \A x : x \in Holding <=> x \in Readers /\ reader[x].pc \in {"retrieving", "generating"}
  BY DEF Holding
<1>1. CASE Joins(q, new)
  <2>1. ~Contains(line, q)
    BY <1>b, <1>1 DEF Joins
  <2>2. LineWaits'
    BY <1>a, <1>b, <1>1, <2>1, JoinLine DEF Joins, LineWaits
  <2>3. Holding' = Holding
    BY <1>a, <1>d, <1>e, <1>1 DEF Joins
  <2> QED BY <1>b, <1>1, <2>2, <2>3 DEF Joins, SlotsCounted
<1>2. ASSUME line # <<>>, Head(line) = q, line' = Tail(line)
      PROVE  LineWaits' /\ reader[q].pc = "waiting"
  BY <1>a, <1>b, <1>2, LeaveLine DEF LineWaits
<1>3. CASE TakesSlot(q, new)
  <2>1. LineWaits' /\ reader[q].pc = "waiting"
    BY <1>2, <1>3 DEF TakesSlot
  <2>2. Holding' = Holding \cup {q} /\ q \notin Holding
    BY <1>a, <1>d, <1>e, <1>3, <2>1 DEF TakesSlot
  <2>3. IsFiniteSet(Holding') /\ Cardinality(Holding') = Cardinality(Holding) + 1
    BY <1>b, <2>2, FS_AddElement
  <2> QED BY <1>b, <1>c, <1>3, <2>1, <2>3 DEF TakesSlot, SlotsCounted
<1>4. CASE LeavesLine(q, new)
  <2>1. LineWaits' /\ reader[q].pc = "waiting"
    BY <1>2, <1>4 DEF LeavesLine
  <2>2. Holding' = Holding
    BY <1>a, <1>d, <1>e, <1>4, <2>1 DEF LeavesLine
  <2> QED BY <1>b, <1>4, <2>1, <2>2 DEF LeavesLine, SlotsCounted
<1>5. ASSUME line' = line, reader[q].pc # "waiting"
      PROVE  LineWaits'
  BY <1>a, <1>b, <1>5 DEF LineWaits
<1>6. CASE GoesOn(q, new)
  <2>1. LineWaits'
    BY <1>5, <1>6 DEF GoesOn
  <2>2. Holding' = Holding
    BY <1>a, <1>d, <1>e, <1>6 DEF GoesOn
  <2> QED BY <1>b, <1>6, <2>1, <2>2 DEF GoesOn, SlotsCounted
<1>7. CASE GivesBack(q, new)
  <2>1. LineWaits'
    BY <1>5, <1>7 DEF GivesBack
  <2>2. Holding' = Holding \ {q} /\ q \in Holding
    BY <1>a, <1>d, <1>e, <1>7 DEF GivesBack
  <2>3. IsFiniteSet(Holding') /\ Cardinality(Holding') = Cardinality(Holding) - 1
    BY <1>b, <2>2, FS_RemoveElement
  <2> QED BY <1>b, <1>c, <1>7, <2>1, <2>3 DEF GivesBack, SlotsCounted
<1> QED BY <1>1, <1>3, <1>4, <1>6, <1>7 DEF Moves

-----------------------------------------------------------------------------
(***************************************************************************)
(* The record of a query                                                   *)
(***************************************************************************)
\* What a query may read is what the documents were when it asked.
LEMMA SnapshotIsReadable ==
    ASSUME IInv
    PROVE  Snapshot \subseteq Versions /\ Readable(Snapshot)
<1>1. ASSUME NEW v \in Snapshot
      PROVE  /\ v \in Versions /\ v \in chunked /\ Exists(v) /\ v <= lastVersion
             /\ \E d \in Documents : document[d].active = v /\ version[v].document = d
  <2>1. PICK d \in Documents : document[d].active = v /\ version[v].status = "READY"
    BY <1>1 DEF Snapshot, Searchable
  <2>2. v \in Versions /\ v # None
    BY <1>1, NoneAssumption DEF Snapshot
  <2> QED BY <2>1, <2>2 DEF IInv, IndexStays, ActiveIsOwn, Exists, VersionsHaveDocuments
<1> QED BY <1>1 DEF Readable

\* So it stays while versions are published, replaced, deleted and purged.
LEMMA ReadableStays ==
    ASSUME IInv, [Next]_vars, NEW allowed \in SUBSET Versions, Readable(allowed)
    PROVE  Readable(allowed)'
<1>1. \A v \in Versions : v \in chunked => v \in chunked'
  <2>1. TypeOK
    BY DEF IInv
  <2> QED BY <2>1, NextCases, WorkerRows, CleanerFrame, DeleterFrame, UploaderFrame
          DEF vars, catalogVars, rows, TypeOK
<1>2. lastVersion \in Nat /\ lastVersion' \in Nat
  BY StepTyped DEF IInv, TypeOK, CatalogTypeOK
<1>3. \A v \in allowed : v \in Nat
  BY VersionsAssumption
<1> QED BY <1>1, <1>2, <1>3, Monotone DEF Readable

LEMMA FoundChunksTyped ==
    ASSUME NEW allowed \in SUBSET Versions
    PROVE  /\ allowed \X Chunks \subseteq ChunkIds
           /\ allowed \X Chunks \subseteq ChunkId
           /\ Sized(allowed \X Chunks)
BY VersionsAssumption, ChunksAssumption DEF ChunkIds, ChunkId, Sized

\* The record of a query that has retrieved, with what it carries on.
Carried(r, pc, found, ranked, status, reason, claims) ==
    [IdleReader EXCEPT
        !.pc = pc, !.allowed = r.allowed, !.found = found, !.ranked = ranked,
        !.status = status, !.reason = reason, !.claims = claims]

Carriable(r, pc, found, ranked, status, reason, claims) ==
    /\ Grounded(r) /\ pc \in {"generating", "done"}
    /\ found \subseteq r.allowed \X Chunks /\ ranked \in Seq(found) /\ IsInjective(ranked)
    /\ status \in {"none", "ANSWERED", "INSUFFICIENT_EVIDENCE", "ERROR"}
    /\ reason \in Reasons \ {"MISSING_ROW"} /\ claims \in SUBSET SUBSET Nat
    /\ status = "ANSWERED" => ValidCitations("ANSWERED", claims, Evidence(ranked), r.allowed)

LEMMA CarriedIsGrounded ==
    ASSUME NEW r, NEW pc, NEW found, NEW ranked, NEW status, NEW reason, NEW claims,
           Carriable(r, pc, found, ranked, status, reason, claims)
    PROVE  /\ Grounded(Carried(r, pc, found, ranked, status, reason, claims))
           /\ Carried(r, pc, found, ranked, status, reason, claims).pc = pc
           /\ Carried(r, pc, found, ranked, status, reason, claims).allowed = r.allowed
<1> DEFINE new == Carried(r, pc, found, ranked, status, reason, claims)
<1> USE DEF Carriable
<1>1. r.allowed \in SUBSET Versions
  BY DEF Grounded, QueryRecord
<1>2. found \in SUBSET ChunkIds /\ ranked \in Seq(ChunkIds)
  <2>1. found \subseteq ChunkIds
    BY <1>1, FoundChunksTyped
  <2> QED BY <2>1, SequencesGrow
<1>3. <<>> \in Seq(r.allowed \X Chunks)
  OBVIOUS
<1>4. /\ new.pc = pc /\ new.allowed = r.allowed /\ new.dense = IdleRetriever
      /\ new.sparse = IdleRetriever /\ new.found = found /\ new.ranked = ranked
      /\ new.status = status /\ new.reason = reason /\ new.claims = claims
  BY DEF Carried, IdleReader
<1>5. new \in QueryRecord
  BY <1>1, <1>2, IdleIsGrounded DEF QueryRecord, Carried
<1> HIDE DEF new
<1>6. Grounded(new)
  BY <1>3, <1>4, <1>5, IdleIsGrounded DEF Grounded
<1> QED BY <1>4, <1>6 DEF new

\* A query that fails or abstains keeps what it had.
LEMMA EndIsGrounded ==
    ASSUME NEW r, Grounded(r), NEW status \in {"INSUFFICIENT_EVIDENCE", "ERROR"},
           NEW reason \in Reasons, reason # "MISSING_ROW", NEW claims \in SUBSET SUBSET Nat
    PROVE  /\ Grounded(Carried(r, "done", r.found, r.ranked, status, reason, claims))
           /\ Carried(r, "done", r.found, r.ranked, status, reason, claims).pc = "done"
           /\ Carried(r, "done", r.found, r.ranked, status, reason, claims).allowed = r.allowed
<1>1. Carriable(r, "done", r.found, r.ranked, status, reason, claims)
  BY DEF Carriable, Grounded
<1> QED BY <1>1, CarriedIsGrounded

\* What a step owes: the record it leaves is grounded in the same versions.
Keeps(q) ==
    \E new : /\ Moved(q, new) /\ Moves(q, new) /\ Grounded(new)
             /\ new.allowed \in {{}, reader[q].allowed, Snapshot}

LEMMA FailKeeps ==
    ASSUME QueriesInv, NEW q \in Readers, reader[q].pc \in {"retrieving", "generating"},
           NEW status \in {"INSUFFICIENT_EVIDENCE", "ERROR"},
           NEW reason \in Reasons, reason # "MISSING_ROW", NEW claims \in SUBSET SUBSET Nat,
           Finish(q, status, reason, claims), line' = line
    PROVE  Keeps(q)
<1> DEFINE r == reader[q]
           new == Carried(r, "done", r.found, r.ranked, status, reason, claims)
<1>1. Grounded(r)
  BY DEF QueriesInv, QueriesGrounded
<1>2. Grounded(new) /\ new.pc = "done" /\ new.allowed = r.allowed
  BY <1>1, EndIsGrounded
<1>3. Moved(q, new) /\ slots' = slots + 1
  BY DEF Finish, Moved, Carried
<1> HIDE DEF new
<1>4. Moves(q, new)
  BY <1>2, <1>3 DEF Moves, GivesBack
<1> QED BY <1>2, <1>3, <1>4 DEF Keeps

LEMMA AskKeeps ==
    ASSUME IInv, QueriesInv, NEW q \in Readers, Ask(q)
    PROVE  Keeps(q)
<1> DEFINE new == [IdleReader EXCEPT !.pc = "waiting", !.allowed = Snapshot]
<1>1. Grounded(reader[q]) /\ reader = [x \in Readers |-> reader[x]]
  BY DEF QueriesInv, QueriesGrounded
<1>2. reader[q].pc = "idle" /\ reader[q] = IdleReader
  BY <1>1 DEF Ask, Reading, Grounded
<1>3. Snapshot \in SUBSET Versions
  BY DEF Snapshot
<1>4. /\ new.pc = "waiting" /\ new.allowed = Snapshot
      /\ new.dense = IdleReader.dense /\ new.sparse = IdleReader.sparse
      /\ new.found = IdleReader.found /\ new.ranked = IdleReader.ranked
      /\ new.reason = IdleReader.reason /\ new.status = IdleReader.status
  BY DEF IdleReader
<1>5. new \in QueryRecord
  BY <1>3, IdleIsGrounded DEF QueryRecord
<1>6. Moved(q, new)
  BY <1>1, <1>2 DEF Moved, Ask
<1> HIDE DEF new
<1>7. Grounded(new)
  <2>1. <<>> \in Seq(Snapshot \X Chunks)
    OBVIOUS
  <2>2. /\ IdleReader.found = {} /\ IdleReader.ranked \in Seq({})
        /\ IsInjective(IdleReader.ranked)
        /\ IdleReader.reason # "MISSING_ROW" /\ IdleReader.status # "ANSWERED"
    BY IdleIsGrounded DEF Grounded, IdleReader
  <2> QED BY <1>4, <1>5, <2>1, <2>2, IdleIsGrounded DEF Grounded
<1>8. Moves(q, new)
  BY <1>2, <1>4 DEF Ask, Moves, Joins
<1> QED BY <1>4, <1>6, <1>7, <1>8 DEF Keeps

\* A record of which the phase, or one retriever, is all that changes.
LEMMA ChangeIsGrounded ==
    ASSUME NEW r, Grounded(r)
    PROVE  /\ \A pc \in {"waiting", "retrieving", "generating", "done"} :
                Grounded([r EXCEPT !.pc = pc])
           /\ \A at \in {"search", "load", "loaded"}, hits \in Seq(r.allowed \X Chunks) :
                r.pc # "idle" =>
                  /\ Grounded([r EXCEPT !.dense = [at |-> at, hits |-> hits]])
                  /\ Grounded([r EXCEPT !.sparse = [at |-> at, hits |-> hits]])
<1>1. ASSUME NEW pc \in {"waiting", "retrieving", "generating", "done"}
      PROVE  Grounded([r EXCEPT !.pc = pc])
  BY DEF Grounded, QueryRecord
<1>2. ASSUME NEW at \in {"search", "load", "loaded"}, NEW hits \in Seq(r.allowed \X Chunks),
             r.pc # "idle"
      PROVE  /\ Grounded([r EXCEPT !.dense = [at |-> at, hits |-> hits]])
             /\ Grounded([r EXCEPT !.sparse = [at |-> at, hits |-> hits]])
  <2>1. r.allowed \X Chunks \subseteq ChunkIds
    BY FoundChunksTyped DEF Grounded, QueryRecord
  <2>2. hits \in Seq(ChunkIds)
    BY <2>1, SequencesGrow
  <2>3. [at |-> at, hits |-> hits] \in Retriever
    BY <2>2 DEF Retriever
  <2> DEFINE d == [r EXCEPT !.dense = [at |-> at, hits |-> hits]]
             s == [r EXCEPT !.sparse = [at |-> at, hits |-> hits]]
  <2>4. d \in QueryRecord /\ s \in QueryRecord
    BY <2>3 DEF Grounded, QueryRecord
  <2>5. /\ d.pc = r.pc /\ d.allowed = r.allowed /\ d.found = r.found /\ d.ranked = r.ranked
        /\ d.status = r.status /\ d.reason = r.reason /\ d.claims = r.claims
        /\ d.sparse = r.sparse /\ d.dense.hits = hits
    BY DEF Grounded, QueryRecord
  <2>6. /\ s.pc = r.pc /\ s.allowed = r.allowed /\ s.found = r.found /\ s.ranked = r.ranked
        /\ s.status = r.status /\ s.reason = r.reason /\ s.claims = r.claims
        /\ s.dense = r.dense /\ s.sparse.hits = hits
    BY DEF Grounded, QueryRecord
  <2> HIDE DEF d, s
  <2>7. Grounded(d)
    BY <1>2, <2>4, <2>5 DEF Grounded
  <2>8. Grounded(s)
    BY <1>2, <2>4, <2>6 DEF Grounded
  <2> QED BY <2>7, <2>8 DEF d, s
<1> QED BY <1>1, <1>2

LEMMA LineKeeps ==
    ASSUME QueriesInv, NEW q \in Readers, Begin(q) \/ NoReadyDocuments(q)
    PROVE  Keeps(q)
<1> DEFINE r == reader[q]
<1>1. Grounded(r) /\ r \in QueryRecord /\ reader = [x \in Readers |-> reader[x]]
  BY DEF QueriesInv, QueriesGrounded, Grounded
<1>2. CASE Begin(q)
  <2> DEFINE new == [r EXCEPT !.pc = "retrieving"]
  <2>1. Grounded(new)
    BY <1>1, ChangeIsGrounded
  <2>2. new.pc = "retrieving" /\ new.allowed = r.allowed
    BY <1>1 DEF QueryRecord
  <2>3. Moved(q, new)
    BY <1>1, <1>2 DEF Moved, Begin
  <2> HIDE DEF new
  <2>4. Moves(q, new)
    BY <1>2, <2>2 DEF Begin, Moves, TakesSlot
  <2> QED BY <2>1, <2>2, <2>3, <2>4 DEF Keeps
<1>3. CASE NoReadyDocuments(q)
  <2> DEFINE new == [r EXCEPT !.pc = "done", !.status = "INSUFFICIENT_EVIDENCE",
                              !.reason = "NO_READY_DOCUMENTS"]
  <2>1. new \in QueryRecord
    BY <1>1 DEF QueryRecord, Reasons
  <2>2. /\ new.pc = "done" /\ new.allowed = r.allowed /\ new.dense = r.dense
        /\ new.sparse = r.sparse /\ new.found = r.found /\ new.ranked = r.ranked
        /\ new.status = "INSUFFICIENT_EVIDENCE" /\ new.reason = "NO_READY_DOCUMENTS"
    BY <1>1 DEF QueryRecord
  <2>3. Moved(q, new)
    BY <1>1, <1>3 DEF Moved, NoReadyDocuments
  <2> HIDE DEF new
  <2>4. Grounded(new)
    BY <1>1, <2>1, <2>2 DEF Grounded
  <2>5. Moves(q, new)
    BY <1>3, <2>2 DEF NoReadyDocuments, Moves, LeavesLine
  <2> QED BY <2>2, <2>3, <2>4, <2>5 DEF Keeps
<1> QED BY <1>2, <1>3

LEMMA MatchingTyped ==
    ASSUME IInv, QueriesInv, NEW q \in Readers, NEW kind,
           NEW hits \in SetToAllKPermutations(Matching(q, kind))
    PROVE  hits \in Seq(reader[q].allowed \X Chunks)
<1> DEFINE allowed == reader[q].allowed
           matching == Matching(q, kind)
<1>1. allowed \subseteq Nat /\ \A v \in allowed : v <= lastVersion
  <2>1. allowed \in SUBSET Versions /\ Readable(allowed)
    BY DEF QueriesInv, QueriesGrounded, QueriesRead, Grounded, QueryRecord
  <2> QED BY <2>1, VersionsAssumption DEF Readable
<1>2. IsFiniteSet(allowed)
  <2>1. lastVersion \in Nat
    BY DEF IInv, TypeOK, CatalogTypeOK
  <2> HIDE DEF allowed
  <2> QED BY <1>1, <2>1, FS_BoundedSetOfNaturals
<1>3. IsFiniteSet(allowed \X Chunks)
  BY <1>2, ChunksAssumption, FS_Product
<1>4. matching \subseteq allowed \X Chunks
  BY DEF Matching
<1>5. IsFiniteSet(matching)
  <2> HIDE DEF matching, allowed
  <2> QED BY <1>3, <1>4, FS_Subset
<1>6. hits \in Seq(matching)
  BY <1>5, HitsTyped
<1> HIDE DEF matching, allowed
<1>7. hits \in Seq(allowed \X Chunks)
  BY <1>4, <1>6, SequencesGrow
<1> QED BY <1>7 DEF allowed

LEMMA SearchKeeps ==
    ASSUME IInv, QueriesInv, NEW q \in Readers, SearchDense(q) \/ SearchSparse(q)
    PROVE  Keeps(q)
<1> DEFINE r == reader[q]
<1>1. /\ Grounded(r) /\ r \in QueryRecord /\ r.pc = "retrieving"
      /\ reader = [x \in Readers |-> reader[x]]
  BY DEF QueriesInv, QueriesGrounded, Grounded, SearchDense, SearchSparse, Reading
<1>2. CASE SearchDense(q)
  <2>1. PICK hits \in SetToAllKPermutations(Matching(q, "dense")) :
           reader' = [reader EXCEPT ![q].dense = [at |-> "load", hits |-> hits]]
    BY <1>2 DEF SearchDense
  <2> DEFINE new == [r EXCEPT !.dense = [at |-> "load", hits |-> hits]]
  <2>2. hits \in Seq(r.allowed \X Chunks)
    BY MatchingTyped
  <2>3. Grounded(new)
    BY <1>1, <2>2, ChangeIsGrounded
  <2>4. new.pc = "retrieving" /\ new.allowed = r.allowed
    BY <1>1 DEF QueryRecord
  <2>5. Moved(q, new)
    BY <1>1, <2>1 DEF Moved
  <2> HIDE DEF new
  <2>6. Moves(q, new)
    BY <1>1, <1>2, <2>4 DEF SearchDense, Moves, GoesOn
  <2> QED BY <2>3, <2>4, <2>5, <2>6 DEF Keeps
<1>3. CASE SearchSparse(q)
  <2>1. PICK hits \in SetToAllKPermutations(Matching(q, "sparse")) :
           reader' = [reader EXCEPT ![q].sparse = [at |-> "load", hits |-> hits]]
    BY <1>3 DEF SearchSparse
  <2> DEFINE new == [r EXCEPT !.sparse = [at |-> "load", hits |-> hits]]
  <2>2. hits \in Seq(r.allowed \X Chunks)
    BY MatchingTyped
  <2>3. Grounded(new)
    BY <1>1, <2>2, ChangeIsGrounded
  <2>4. new.pc = "retrieving" /\ new.allowed = r.allowed
    BY <1>1 DEF QueryRecord
  <2>5. Moved(q, new)
    BY <1>1, <2>1 DEF Moved
  <2> HIDE DEF new
  <2>6. Moves(q, new)
    BY <1>1, <1>3, <2>4 DEF SearchSparse, Moves, GoesOn
  <2> QED BY <2>3, <2>4, <2>5, <2>6 DEF Keeps
<1> QED BY <1>2, <1>3

\* The rows of all hits are there, so neither retriever ends the query for one.
LEMMA RowsAreThere ==
    ASSUME QueriesInv, NEW q \in Readers, NEW hits \in Seq(reader[q].allowed \X Chunks)
    PROVE  RowsOf(q, hits)
<1>1. ASSUME NEW p \in ToSet(hits)
      PROVE  p[1] \in chunked /\ p[1] \in reader[q].allowed
  <2>1. p \in reader[q].allowed \X Chunks
    BY DEF ToSet
  <2> QED BY <2>1 DEF QueriesInv, QueriesRead, Readable
<1> QED BY <1>1 DEF RowsOf

LEMMA LoadKeeps ==
    ASSUME QueriesInv, NEW q \in Readers, LoadDense(q) \/ LoadSparse(q)
    PROVE  Keeps(q)
<1> DEFINE r == reader[q]
<1>1. /\ Grounded(r) /\ r \in QueryRecord /\ r.pc = "retrieving"
      /\ reader = [x \in Readers |-> reader[x]]
      /\ r.dense.hits \in Seq(r.allowed \X Chunks) /\ r.sparse.hits \in Seq(r.allowed \X Chunks)
  BY DEF QueriesInv, QueriesGrounded, Grounded, LoadDense, LoadSparse, Reading
<1>2. RowsOf(q, r.dense.hits) /\ RowsOf(q, r.sparse.hits)
  BY <1>1, RowsAreThere
<1>3. CASE LoadDense(q)
  <2> DEFINE new == [r EXCEPT !.dense = [at |-> "loaded", hits |-> r.dense.hits]]
  <2>1. reader' = [reader EXCEPT ![q].dense.at = "loaded"] /\ UNCHANGED <<slots, line>>
    BY <1>2, <1>3 DEF LoadDense
  <2>2. Grounded(new)
    BY <1>1, ChangeIsGrounded
  <2>3. new.pc = "retrieving" /\ new.allowed = r.allowed
    BY <1>1 DEF QueryRecord
  <2>4. Moved(q, new)
    <3>1. [r.dense EXCEPT !.at = "loaded"] = [at |-> "loaded", hits |-> r.dense.hits]
      BY <1>1 DEF QueryRecord, Retriever
    <3> QED BY <1>1, <2>1, <3>1 DEF Moved
  <2> HIDE DEF new
  <2>5. Moves(q, new)
    BY <1>1, <2>1, <2>3 DEF Moves, GoesOn
  <2> QED BY <2>2, <2>3, <2>4, <2>5 DEF Keeps
<1>4. CASE LoadSparse(q)
  <2> DEFINE new == [r EXCEPT !.sparse = [at |-> "loaded", hits |-> r.sparse.hits]]
  <2>1. reader' = [reader EXCEPT ![q].sparse.at = "loaded"] /\ UNCHANGED <<slots, line>>
    BY <1>2, <1>4 DEF LoadSparse
  <2>2. Grounded(new)
    BY <1>1, ChangeIsGrounded
  <2>3. new.pc = "retrieving" /\ new.allowed = r.allowed
    BY <1>1 DEF QueryRecord
  <2>4. Moved(q, new)
    <3>1. [r.sparse EXCEPT !.at = "loaded"] = [at |-> "loaded", hits |-> r.sparse.hits]
      BY <1>1 DEF QueryRecord, Retriever
    <3> QED BY <1>1, <2>1, <3>1 DEF Moved
  <2> HIDE DEF new
  <2>5. Moves(q, new)
    BY <1>1, <2>1, <2>3 DEF Moves, GoesOn
  <2> QED BY <2>2, <2>3, <2>4, <2>5 DEF Keeps
<1> QED BY <1>3, <1>4

\* A query that fails gives its slot back and keeps what it had.
LEMMA RefusalKeeps ==
    ASSUME QueriesInv, NEW q \in Readers,
           RetrievalFails(q) \/ RerankerFails(q) \/ GenerationFails(q)
    PROVE  Keeps(q)
<1>1. CASE RetrievalFails(q)
  BY <1>1, FailKeeps DEF RetrievalFails, Reading, Refuse, Reasons
<1>2. CASE RerankerFails(q)
  BY <1>2, FailKeeps DEF RerankerFails, Retrieved, Reading, Refuse, Reasons
<1>3. CASE GenerationFails(q)
  BY <1>3, FailKeeps DEF GenerationFails, Reading, Refuse, Reasons
<1> QED BY <1>1, <1>2, <1>3

LEMMA RespondKeeps ==
    ASSUME QueriesInv, NEW q \in Readers, Respond(q)
    PROVE  Keeps(q)
<1>1. Moved(q, IdleReader) /\ GoesOn(q, IdleReader)
  BY IdleIsGrounded DEF Respond, Reading, Moved, GoesOn
<1> QED BY <1>1, IdleIsGrounded DEF Keeps, Moves

\* The ranking that a query goes on with repeats none of the chunks it has retrieved.
LEMMA RankingTyped ==
    ASSUME QueriesInv, NEW q \in Readers,
           NEW ranked \in Rankings(Fused(q)), ValidRanking(ranked, Fused(q))
    PROVE  /\ Candidates(reader[q].dense.hits, reader[q].sparse.hits)
                 \subseteq reader[q].allowed \X Chunks
           /\ ranked \in Seq(Candidates(reader[q].dense.hits, reader[q].sparse.hits))
           /\ IsInjective(ranked)
<1> DEFINE r == reader[q]
           found == Candidates(r.dense.hits, r.sparse.hits)
           fused == Fuse(r.dense.hits, r.sparse.hits)
<1>1. /\ r.dense.hits \in Seq(r.allowed \X Chunks) /\ r.sparse.hits \in Seq(r.allowed \X Chunks)
      /\ r.allowed \in SUBSET Versions
  BY DEF QueriesInv, QueriesGrounded, Grounded, QueryRecord
<1>2. r.dense.hits \in Seq(ChunkId) /\ r.sparse.hits \in Seq(ChunkId)
  <2>1. r.allowed \X Chunks \subseteq ChunkId
    BY <1>1, FoundChunksTyped
  <2> QED BY <1>1, <2>1, SequencesGrow
<1>3. found \subseteq r.allowed \X Chunks
  BY <1>1, CandidatesAreRanked
<1>4. fused \in Seq(found)
  BY <1>2, FusedIsSorted
<1>5. Fused(q) = fused
  BY DEF Fused
<1> HIDE DEF found, fused
<1>6. ToSet(fused) \subseteq found
  BY <1>4 DEF ToSet
<1>7. \E S : ranked \in Seq(S)
  <2>1. CASE fused = <<>>
    BY <1>5, <2>1 DEF Rankings
  <2>2. CASE fused # <<>>
    <3> DEFINE chunks == ToSet(fused) \cup {UnknownChunk}
    <3>1. ranked \in UNION {[1..m -> chunks] : m \in 0..(RerankTopN + 1)}
      BY <1>5, <2>2 DEF Rankings, BoundedSeq, SeqOf
    <3> HIDE DEF chunks
    <3>2. RerankTopN \in Nat
      BY AnsweringAssumption
    <3>3. PICK m \in 0..(RerankTopN + 1) : ranked \in [1..m -> chunks]
      BY <3>1
    <3>4. ranked \in Seq(chunks)
      BY <3>2, <3>3
    <3> QED BY <3>4
  <2> QED BY <2>1, <2>2
<1>8. ToSet(ranked) \subseteq found /\ IsInjective(ranked)
  BY <1>5, <1>6 DEF ValidRanking
<1>9. ranked \in Seq(found)
  <2>1. PICK S : ranked \in Seq(S)
    BY <1>7
  <2>2. \A i \in 1..Len(ranked) : ranked[i] \in found
    BY <1>8, <2>1 DEF ToSet
  <2> QED BY <2>1, <2>2
<1> QED BY <1>3, <1>8, <1>9 DEF found

LEMMA SameFields ==
    ASSUME NEW r \in QueryRecord, NEW s \in QueryRecord,
           r.pc = s.pc, r.allowed = s.allowed, r.dense = s.dense, r.sparse = s.sparse,
           r.found = s.found, r.ranked = s.ranked, r.status = s.status,
           r.reason = s.reason, r.claims = s.claims
    PROVE  r = s
BY DEF QueryRecord

LEMMA RankKeeps ==
    ASSUME QueriesInv, NEW q \in Readers, RankAndPack(q)
    PROVE  Keeps(q)
<1> DEFINE r == reader[q]
           found == ToSet(r.dense.hits) \cup ToSet(r.sparse.hits)
<1>1. Grounded(r) /\ r.pc = "retrieving" /\ line' = line
  BY DEF QueriesInv, QueriesGrounded, RankAndPack, Retrieved, Reading
<1>2. PICK ranked \in Rankings(Fused(q)), weak \in BOOLEAN :
        \/ Refuse(q, "RERANKER")
        \/ /\ ReasonToAbstain(Fused(q), ranked, weak) # "none"
           /\ Abstain(q, ReasonToAbstain(Fused(q), ranked, weak))
        \/ /\ ValidRanking(ranked, Fused(q))
           /\ reader' = [reader EXCEPT
                           ![q] = [IdleReader EXCEPT
                                     !.pc = "generating", !.allowed = reader[q].allowed,
                                     !.found = found, !.ranked = ranked]]
           /\ UNCHANGED slots
  BY DEF RankAndPack
<1>3. CASE Refuse(q, "RERANKER")
  BY <1>1, <1>3, FailKeeps DEF Refuse, Reasons
<1>4. CASE Abstain(q, ReasonToAbstain(Fused(q), ranked, weak))
  <2> DEFINE reason == ReasonToAbstain(Fused(q), ranked, weak)
  <2>1. reason \in Reasons /\ reason # "MISSING_ROW"
    BY DEF ReasonToAbstain, Reasons
  <2> HIDE DEF reason
  <2>2. Abstain(q, reason)
    BY <1>4 DEF reason
  <2> QED BY <1>1, <2>1, <2>2, FailKeeps DEF Abstain
<1>5. ASSUME ValidRanking(ranked, Fused(q)),
             reader' = [reader EXCEPT
                          ![q] = [IdleReader EXCEPT
                                    !.pc = "generating", !.allowed = reader[q].allowed,
                                    !.found = found, !.ranked = ranked]],
             UNCHANGED slots
      PROVE  Keeps(q)
  <2> DEFINE new == Carried(r, "generating", found, ranked, "none", "none", {})
  <2>1. found \subseteq r.allowed \X Chunks /\ ranked \in Seq(found) /\ IsInjective(ranked)
    BY <1>5, RankingTyped DEF Candidates
  <2>2. Carriable(r, "generating", found, ranked, "none", "none", {})
    <3> HIDE DEF found
    <3> QED BY <1>1, <2>1 DEF Carriable, Reasons
  <2>3. Grounded(new) /\ new.pc = "generating" /\ new.allowed = r.allowed
    BY <2>2, CarriedIsGrounded
  <2>4. Moved(q, new)
    <3> DEFINE next == [IdleReader EXCEPT !.pc = "generating", !.allowed = r.allowed,
                                          !.found = found, !.ranked = ranked]
    <3>1. next \in QueryRecord
      <4>1. r.allowed \in SUBSET Versions /\ found \in SUBSET ChunkIds
        <5> HIDE DEF found
        <5> QED BY <1>1, <2>1, FoundChunksTyped DEF Grounded, QueryRecord
      <4> HIDE DEF found
      <4>2. ranked \in Seq(ChunkIds)
        BY <2>1, <4>1, SequencesGrow
      <4> QED BY <4>1, <4>2, IdleIsGrounded DEF QueryRecord
    <3> HIDE DEF found
    <3>2. /\ next.pc = "generating" /\ next.allowed = r.allowed /\ next.dense = IdleReader.dense
          /\ next.sparse = IdleReader.sparse /\ next.found = found /\ next.ranked = ranked
          /\ next.status = "none" /\ next.reason = "none" /\ next.claims = {}
      BY DEF IdleReader
    <3>3. /\ new.pc = "generating" /\ new.allowed = r.allowed /\ new.dense = IdleReader.dense
          /\ new.sparse = IdleReader.sparse /\ new.found = found /\ new.ranked = ranked
          /\ new.status = "none" /\ new.reason = "none" /\ new.claims = {}
      BY DEF Carried, IdleReader
    <3>4. new \in QueryRecord
      BY <2>3 DEF Grounded
    <3> HIDE DEF new, next
    <3>5. next = new
      BY <3>1, <3>2, <3>3, <3>4, SameFields
    <3> QED BY <1>5, <3>5 DEF Moved, next
  <2> HIDE DEF new
  <2>5. Moves(q, new)
    BY <1>1, <1>5, <2>3 DEF Moves, GoesOn
  <2> QED BY <2>3, <2>4, <2>5 DEF Keeps
<1> QED BY <1>2, <1>3, <1>4, <1>5

LEMMA GenerateKeeps ==
    ASSUME QueriesInv, NEW q \in Readers, Generate(q)
    PROVE  Keeps(q)
<1> DEFINE r == reader[q]
           evidence == Evidence(r.ranked)
<1>1. Grounded(r) /\ r.pc = "generating" /\ line' = line
  BY DEF QueriesInv, QueriesGrounded, Generate, Reading
<1>2. PICK status \in {"ANSWERED", "INSUFFICIENT_EVIDENCE"},
           claims \in SUBSET SUBSET (1..Len(evidence) + 1) :
        IF ValidCitations(status, claims, evidence, r.allowed)
          THEN Finish(q, status, IF status = "ANSWERED" THEN "none" ELSE "MODEL_ABSTENTION", claims)
          ELSE Refuse(q, "CITATION_VALIDATION_FAILED")
  BY DEF Generate
<1>3. claims \in SUBSET SUBSET Nat
  <2>1. (1..Len(evidence) + 1) \subseteq Nat
    OBVIOUS
  <2> HIDE DEF evidence
  <2> QED BY <1>2, <2>1
<1> HIDE DEF evidence
<1>4. CASE ~ValidCitations(status, claims, evidence, r.allowed)
  BY <1>1, <1>2, <1>4, FailKeeps DEF Refuse, Reasons
<1>5. CASE ValidCitations(status, claims, evidence, r.allowed) /\ status # "ANSWERED"
  BY <1>1, <1>2, <1>3, <1>5, FailKeeps DEF Reasons
<1>6. CASE ValidCitations(status, claims, evidence, r.allowed) /\ status = "ANSWERED"
  <2> DEFINE new == Carried(r, "done", r.found, r.ranked, "ANSWERED", "none", claims)
  <2>1. Carriable(r, "done", r.found, r.ranked, "ANSWERED", "none", claims)
    BY <1>1, <1>3, <1>6 DEF Carriable, Grounded, Reasons, evidence
  <2>2. Grounded(new) /\ new.pc = "done" /\ new.allowed = r.allowed
    BY <2>1, CarriedIsGrounded
  <2>3. Finish(q, "ANSWERED", "none", claims)
    BY <1>2, <1>6
  <2>4. Moved(q, new) /\ slots' = slots + 1
    BY <2>3 DEF Finish, Moved, Carried
  <2> HIDE DEF new
  <2>5. Moves(q, new)
    BY <1>1, <2>2, <2>4 DEF Moves, GivesBack
  <2> QED BY <2>2, <2>4, <2>5 DEF Keeps
<1> QED BY <1>4, <1>5, <1>6

LEMMA StepKeeps ==
    ASSUME IInv, QueriesInv, NEW q \in Readers, Ask(q) \/ ReaderStep(q)
    PROVE  Keeps(q)
BY AskKeeps, LineKeeps, SearchKeeps, LoadKeeps, RefusalKeeps, RankKeeps, GenerateKeeps,
   RespondKeeps DEF ReaderStep

-----------------------------------------------------------------------------
(***************************************************************************)
(* The steps of the system                                                 *)
(***************************************************************************)
\* The documents change, and the queries do not.
LEMMA DocumentsStep ==
    ASSUME IInv, QueriesInv, [Next]_vars, UNCHANGED queryVars
    PROVE  QueriesInv'
<1>1. reader' = reader /\ slots' = slots /\ line' = line
  BY DEF queryVars
<1>2. QueriesGrounded'
  BY <1>1 DEF QueriesInv, QueriesGrounded, Grounded
<1>3. QueriesRead'
  <2>1. ASSUME NEW q \in Readers PROVE Readable(reader[q].allowed)'
    <3>1. reader[q].allowed \in SUBSET Versions /\ Readable(reader[q].allowed)
      BY DEF QueriesInv, QueriesGrounded, QueriesRead, Grounded, QueryRecord
    <3> DEFINE allowed == reader[q].allowed
    <3>2. allowed' = allowed
      BY <1>1
    <3>3. \A set \in SUBSET Versions : Readable(set) => Readable(set)'
      BY ReadableStays
    <3> QED BY <3>1, <3>2, <3>3 DEF Readable
  <2> QED BY <2>1 DEF QueriesRead
<1>4. LineWaits'
  BY <1>1 DEF QueriesInv, LineWaits
<1>5. SlotsCounted'
  <2>1. Holding' = Holding
    BY <1>1 DEF Holding
  <2> QED BY <1>1, <2>1 DEF QueriesInv, SlotsCounted
<1> QED BY <1>2, <1>3, <1>4, <1>5 DEF QueriesInv

\* A query moves on, and the documents do not change.
LEMMA QueryStep ==
    ASSUME IInv, QueriesInv, UNCHANGED vars, NEW q \in Readers, Ask(q) \/ ReaderStep(q)
    PROVE  QueriesInv'
<1>1. PICK new : /\ Moved(q, new) /\ Moves(q, new) /\ Grounded(new)
                 /\ new.allowed \in {{}, reader[q].allowed, Snapshot}
  BY StepKeeps DEF Keeps
<1>2. /\ reader'[q] = new
      /\ \A x \in Readers : x # q => reader'[x] = reader[x]
      /\ reader' = [x \in Readers |-> reader'[x]]
  BY <1>1, MovedReaders DEF QueriesInv
<1>3. QueriesGrounded'
  BY <1>1, <1>2 DEF QueriesInv, QueriesGrounded, Grounded
<1>4. QueriesRead'
  <2>1. \A set : Readable(set) => Readable(set)'
    BY DEF vars, catalogVars, rows, Readable, Exists
  <2>2. Readable(new.allowed)
    BY <1>1, SnapshotIsReadable DEF QueriesInv, QueriesRead, Readable
  <2> QED BY <1>2, <2>1, <2>2 DEF QueriesInv, QueriesRead, Readable
<1>5. LineWaits' /\ SlotsCounted'
  BY <1>1, LineAndSlotsStep
<1> QED BY <1>3, <1>4, <1>5 DEF QueriesInv

LEMMA StepQueries == IInv /\ QueriesInv /\ [SystemNext]_allVars => QueriesInv'
BY SystemStep, DocumentsStep, QueryStep

\* The documents and the queries together.
THEOREM QueriesInvariance == SystemSpec => [](IInv /\ QueriesInv)
<1>1. SystemSpec => []IInv
  BY SystemImplementsCitedRag, Invariance, PTL
<1>2. SystemSpec => []QueriesInv
  BY <1>1, InitQueries, StepQueries, PTL DEF SystemSpec
<1> QED BY <1>1, <1>2, PTL

-----------------------------------------------------------------------------
(***************************************************************************)
(* What the queries are answered from                                      *)
(***************************************************************************)
LEMMA HitsAreAllowed ==
    ASSUME QueriesInv, NEW q \in Readers
    PROVE  /\ Hits(q) = Candidates(reader[q].dense.hits, reader[q].sparse.hits)
           /\ Hits(q) \cup reader[q].found \subseteq reader[q].allowed \X Chunks
           /\ reader[q].dense.hits \in Seq(ChunkId) /\ reader[q].sparse.hits \in Seq(ChunkId)
<1> DEFINE r == reader[q]
<1>1. /\ r.dense.hits \in Seq(r.allowed \X Chunks) /\ r.sparse.hits \in Seq(r.allowed \X Chunks)
      /\ r.found \subseteq r.allowed \X Chunks /\ r.allowed \in SUBSET Versions
  BY DEF QueriesInv, QueriesGrounded, Grounded, QueryRecord
<1>2. r.allowed \X Chunks \subseteq ChunkId
  BY <1>1, FoundChunksTyped
<1>3. Hits(q) = Candidates(r.dense.hits, r.sparse.hits)
  BY DEF Hits, Candidates
<1> QED BY <1>1, <1>2, <1>3, CandidatesAreRanked, SequencesGrow

\* The records of the queries have their types, the slots are counted and the line
\* holds queries.
THEOREM QueriesAreTyped == SystemSpec => []QueryTypeOK
<1>1. ASSUME QueriesInv PROVE QueryTypeOK
  <2>1. reader \in [Readers -> QueryRecord]
    BY <1>1 DEF QueriesInv, QueriesGrounded, Grounded
  <2>2. slots \in 0..MaxInFlight
    <3>1. slots \in Nat /\ slots + Cardinality(Holding) = MaxInFlight
          /\ Cardinality(Holding) \in Nat /\ MaxInFlight \in Nat
      BY <1>1, QueryAssumption, FS_CardinalityType DEF QueriesInv, SlotsCounted
    <3> QED BY <3>1
  <2> QED BY <1>1, <2>1, <2>2 DEF QueryTypeOK, QueriesInv, LineWaits
<1> QED BY <1>1, QueriesInvariance, PTL

\* No query fails for a row it cannot read, though versions are replaced, deleted
\* and purged while it runs: the rows outlive the points.
THEOREM NoRowIsMissing == SystemSpec => []RowsAreFound
<1>1. QueriesInv => RowsAreFound
  BY DEF QueriesInv, QueriesGrounded, Grounded, RowsAreFound
<1> QED BY <1>1, QueriesInvariance, PTL

\* A query never mixes two versions of a document, whatever is published meanwhile.
THEOREM VersionsAreNotMixed == SystemSpec => []OneVersionPerDocument
<1>1. ASSUME QueriesInv PROVE OneVersionPerDocument
  <2>1. ASSUME NEW q \in Readers, NEW p \in Hits(q) \cup reader[q].found,
               NEW r \in Hits(q) \cup reader[q].found,
               version[p[1]].document = version[r[1]].document
        PROVE  p[1] = r[1]
    <3>1. p[1] \in reader[q].allowed /\ r[1] \in reader[q].allowed
      <4>1. p \in reader[q].allowed \X Chunks /\ r \in reader[q].allowed \X Chunks
        BY <1>1, HitsAreAllowed
      <4> QED BY <4>1
    <3>2. Readable(reader[q].allowed)
      BY <1>1 DEF QueriesInv, QueriesRead
    <3> QED BY <2>1, <3>1, <3>2 DEF Readable
  <2> QED BY <2>1 DEF OneVersionPerDocument
<1> QED BY <1>1, QueriesInvariance, PTL

\* Every claim of an answer cites evidence, and all evidence was retrieved by this
\* query from a version that was searchable when it began, for evidence packages of
\* any length and any answer of the reranker and the model.
THEOREM AnswersAreGrounded == SystemSpec => []AnsweredIsGrounded
<1>1. ASSUME QueriesInv, NEW q \in Readers, reader[q].status = "ANSWERED"
      PROVE  LET evidence == Evidence(reader[q].ranked) IN
             /\ reader[q].claims # {}
             /\ \A claim \in reader[q].claims :
                 /\ claim # {}
                 /\ \A i \in claim :
                       /\ i \in DOMAIN evidence
                       /\ evidence[i] \in reader[q].found
                       /\ evidence[i][1] \in reader[q].allowed
  <2> DEFINE r == reader[q]
             evidence == Evidence(r.ranked)
  <2>1. Grounded(r)
    BY <1>1 DEF QueriesInv, QueriesGrounded
  <2>2. r.ranked \in Seq(r.found) /\ IsInjective(r.ranked) /\ Sized(r.found)
    BY <2>1, FoundChunksTyped DEF Grounded, QueryRecord, Sized
  <2>3. evidence \in Seq(r.found)
    BY <2>2, EvidencePacks
  <2>4. ValidCitations("ANSWERED", r.claims, evidence, r.allowed)
    BY <1>1, <2>1 DEF Grounded
  <2> HIDE DEF evidence, r
  <2>5. /\ r.claims # {}
        /\ \A claim \in r.claims :
              claim # {} /\ \A i \in claim : i \in DOMAIN evidence /\ evidence[i][1] \in r.allowed
    BY <2>4 DEF ValidCitations, Referenced
  <2>6. \A i \in DOMAIN evidence : evidence[i] \in r.found
    BY <2>3
  <2> QED BY <2>5, <2>6 DEF evidence, r
<1>2. QueriesInv => AnsweredIsGrounded
  BY <1>1 DEF AnsweredIsGrounded
<1> QED BY <1>2, QueriesInvariance, PTL

\* The package keeps the order of the ranking and the limits, and nothing that was
\* left out of it would have fitted, for texts of any size.
THEOREM EvidenceIsPackedFull == SystemSpec => []EvidenceIsFull
<1>1. ASSUME QueriesInv, NEW q \in Readers
      PROVE  LET ranked == reader[q].ranked
                 kept == Evidence(ranked)
             IN /\ Len(kept) <= MaxItems /\ Tokens(kept) <= TokenBudget
                /\ \A i, j \in DOMAIN kept : i < j => Rank(ranked, kept[i]) < Rank(ranked, kept[j])
                /\ \A p \in ToSet(ranked) \ ToSet(kept) : ~Fits(kept, p)
  <2> DEFINE r == reader[q]
             kept == Evidence(r.ranked)
  <2>1. Grounded(r)
    BY <1>1 DEF QueriesInv, QueriesGrounded
  <2>2. r.ranked \in Seq(r.found) /\ IsInjective(r.ranked) /\ Sized(r.found)
    BY <2>1, FoundChunksTyped DEF Grounded, QueryRecord, Sized
  <2>3. kept \in Seq(r.found) /\ Packing(kept, r.ranked, Len(r.ranked))
    BY <2>2, EvidencePacks
  <2> HIDE DEF kept, r
  <2>4. DOMAIN kept = 1..Len(kept)
    BY <2>3
  <2>5. \A p \in ToSet(r.ranked) : \E k \in 1..Len(r.ranked) : r.ranked[k] = p
    BY <2>2 DEF ToSet
  <2>6. /\ Len(kept) <= MaxItems /\ Tokens(kept) <= TokenBudget
        /\ \A i, j \in DOMAIN kept : i < j => Rank(r.ranked, kept[i]) < Rank(r.ranked, kept[j])
        /\ \A p \in ToSet(r.ranked) \ ToSet(kept) : ~Fits(kept, p)
    BY <2>3, <2>4, <2>5 DEF Packing
  <2> QED BY <2>6 DEF kept, r
<1>2. QueriesInv => EvidenceIsFull
  BY <1>1 DEF EvidenceIsFull
<1> QED BY <1>2, QueriesInvariance, PTL

\* Fusion is fair to both retrievers, whatever they find and however much it is.
THEOREM RetrieversAreEqual == SystemSpec => []FusionIsFair
<1>1. ASSUME QueriesInv, NEW r \in Readers
      PROVE  LET dense == reader[r].dense.hits
                 sparse == reader[r].sparse.hits
                 fused == Fused(r)
             IN /\ ToSet(fused) \subseteq Hits(r) /\ IsInjective(fused)
                /\ Len(fused) = Min({FusedTopK, Cardinality(Hits(r))})
                /\ fused = Fuse(sparse, dense)
                /\ \A p, q \in Hits(r) :
                      p # q /\ NoWorse(dense, p, q) /\ NoWorse(sparse, p, q) /\ Contains(fused, q)
                        => Contains(fused, p) /\ Rank(fused, p) < Rank(fused, q)
  <2> DEFINE dense == reader[r].dense.hits
             sparse == reader[r].sparse.hits
             candidates == Candidates(dense, sparse)
             place == Place(dense, sparse)
             fused == Fuse(dense, sparse)
  <2>1. /\ Hits(r) = candidates /\ Fused(r) = fused
        /\ dense \in Seq(ChunkId) /\ sparse \in Seq(ChunkId)
    BY <1>1, HitsAreAllowed DEF Fused
  <2>2. /\ fused \in Seq(candidates)
        /\ Len(fused) = Min({FusedTopK, Cardinality(candidates)})
        /\ \A i \in 1..Len(fused) : place[fused[i]] = i
        /\ \A p \in candidates : Contains(fused, p) <=> place[p] <= Len(fused)
        /\ \A p \in candidates : Contains(fused, p) => Rank(fused, p) = place[p]
    BY <2>1, FusedIsSorted
  <2>3. fused = Fuse(sparse, dense)
    BY <2>1, FusionIsSymmetric
  <2>4. /\ Cardinality(candidates) \in Nat
        /\ place \in [candidates -> 1..Cardinality(candidates)]
        /\ \A p, q \in candidates : Precedes(dense, sparse, p, q) => place[p] < place[q]
    <3> HIDE DEF dense, sparse
    <3> QED BY <2>1, PlacesFollowTheOrder DEF Bijection, Injection
  <2>5. \A p, q \in candidates :
           p # q /\ NoWorse(dense, p, q) /\ NoWorse(sparse, p, q) => Precedes(dense, sparse, p, q)
    BY <2>1, BetterPrecedes DEF NoWorse
  <2> HIDE DEF dense, sparse, candidates, place, fused
  <2>6. /\ Len(fused) \in Nat /\ DOMAIN fused = 1..Len(fused)
        /\ ToSet(fused) \subseteq candidates /\ IsInjective(fused)
    <3>1. fused \in Seq(candidates)
      BY <2>2
    <3>2. Len(fused) \in Nat /\ DOMAIN fused = 1..Len(fused)
      BY <3>1
    <3>3. ToSet(fused) \subseteq candidates
      BY <3>1 DEF ToSet
    <3>4. IsInjective(fused)
      BY <2>2, <3>2 DEF IsInjective
    <3> QED BY <3>2, <3>3, <3>4
  <2>7. \A p, q \in candidates :
           p # q /\ NoWorse(dense, p, q) /\ NoWorse(sparse, p, q) /\ Contains(fused, q)
             => Contains(fused, p) /\ Rank(fused, p) < Rank(fused, q)
    <3> SUFFICES ASSUME NEW p \in candidates, NEW q \in candidates, p # q,
                        NoWorse(dense, p, q), NoWorse(sparse, p, q), Contains(fused, q)
                 PROVE  Contains(fused, p) /\ Rank(fused, p) < Rank(fused, q)
      OBVIOUS
    <3>1. place[p] < place[q] /\ place[p] \in Nat /\ place[q] \in Nat
      BY <2>4, <2>5
    <3>2. place[q] <= Len(fused)
      BY <2>2
    <3>3. Contains(fused, p)
      <4>1. place[p] <= Len(fused)
        BY <2>6, <3>1, <3>2
      <4> QED BY <2>2, <4>1
    <3>4. Rank(fused, p) = place[p] /\ Rank(fused, q) = place[q]
      BY <2>2, <3>3
    <3> QED BY <3>1, <3>3, <3>4
  <2> QED BY <2>1, <2>2, <2>3, <2>6, <2>7 DEF dense, sparse, candidates, fused
<1>2. QueriesInv => FusionIsFair
  BY <1>1 DEF FusionIsFair
<1> QED BY <1>2, QueriesInvariance, PTL
=============================================================================
