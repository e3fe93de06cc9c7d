----------------------------- MODULE PartsProofs ----------------------------
(***************************************************************************)
(* The parts that share no state with the rest: the schema of the index,   *)
(* the first requests, the hosted calls and the evaluation, each for every *)
(* value of its constants; and with the chunker, the parts together.       *)
(***************************************************************************)
EXTENDS MCParts, ChunkerProofs, AnsweringProofs, SequenceTheorems

-----------------------------------------------------------------------------
(***************************************************************************)
(* IndexSchema: ensure_collection hands on a whole schema, and a lost race *)
(* costs one attempt, for any ingestions, fields, settings and faults.     *)
(***************************************************************************)
Active == {"checking", "inspecting", "creating", "indexing"}

\* An ingestion that inspects or indexes has a collection, and one that indexes has
\* done all fields but those it still has to do.
KnowsSchema ==
    \A w \in Ingestions :
        /\ In(w, "inspecting") => collection.exists
        /\ In(w, "indexing") =>
             /\ collection.exists /\ Usable(collection, w)
             /\ \A f \in Fields \ ingestion[w].todo : collection.index[f] = "right"

\* Who may still create the collection has lost no race for it.
NoRaceBefore ==
    \A w \in Ingestions :
        ~collection.exists \/ In(w, "creating") => Lost(w) <= callFaults

ActiveHasTry == \A w \in Ingestions : ingestion[w].pc \in Active => ingestion[w].try >= 1

SchemaIInv ==
    /\ SchemaTypeOK /\ ActiveHasTry
    /\ KnowsSchema /\ IndexedIsWhole
    /\ NoRaceBefore /\ RaceCostsOneAttempt

-----------------------------------------------------------------------------
LEMMA SchemaInitially == SchemaInit => SchemaIInv
<1> SUFFICES ASSUME SchemaInit PROVE SchemaIInv
    OBVIOUS
<1> USE SchemaAssumption
<1>1. ingestion \in [Ingestions -> IngestionRecord]
  BY DEF SchemaInit, Waiting, IngestionRecord
<1>2. callFaults \in 0..MaxCallFaults /\ callFaults = 0
  BY DEF SchemaInit
<1>3. SchemaTypeOK
  BY <1>1, <1>2 DEF SchemaInit, SchemaTypeOK, In, Waiting
<1>4. \A w \in Ingestions : ingestion[w] = Waiting
  BY DEF SchemaInit
<1>5. ActiveHasTry /\ KnowsSchema /\ IndexedIsWhole
  BY <1>4 DEF ActiveHasTry, Active, KnowsSchema, IndexedIsWhole, In, Waiting
<1>6. NoRaceBefore /\ RaceCostsOneAttempt
  BY <1>2, <1>4 DEF NoRaceBefore, RaceCostsOneAttempt, Lost, Waiting
<1> QED BY <1>3, <1>5, <1>6 DEF SchemaIInv

\* A collection that is there has all the components of one.
LEMMA CollectionIsWhole ==
  ASSUME SchemaTypeOK, collection.exists
  PROVE  collection \in Collection
BY DEF SchemaTypeOK, Absent

(***************************************************************************)
(* What a step of w may do to the collection: nothing, create it with the  *)
(* dimension of w, or complete one field.                                  *)
(***************************************************************************)
Kept == collection' = collection
Made(w) == ~collection.exists /\ collection' = Created(w)
Completed == \E f \in Fields :
    collection.exists /\ collection' = [collection EXCEPT !.index[f] = "right"]

\* A usable schema stays usable, and a right index right.
LEMMA SchemaOnlyGrows ==
  ASSUME SchemaTypeOK, Kept \/ Completed, collection.exists
  PROVE  /\ collection'.exists /\ collection' \in Collection
         /\ \A v \in Ingestions : Usable(collection, v) => Usable(collection', v)
         /\ collection'.vectors = collection.vectors
         /\ collection'.dimension = collection.dimension
         /\ \A f \in Fields : collection.index[f] = "right" => collection'.index[f] = "right"
<1>1. collection \in Collection
  BY CollectionIsWhole
<1>2. CASE Kept
  BY <1>1, <1>2 DEF Kept, Usable
<1>3. CASE Completed
  <2>1. PICK f \in Fields : collection' = [collection EXCEPT !.index[f] = "right"]
    BY <1>3 DEF Completed
  <2> QED BY <1>1, <2>1 DEF Collection, Usable
<1> QED BY <1>2, <1>3

LEMMA MadeIsUsable ==
  ASSUME NEW w \in Ingestions, Made(w)
  PROVE  collection'.exists /\ collection' \in Collection /\ Usable(collection', w)
BY SchemaAssumption DEF Made, Created, Collection, Usable

-----------------------------------------------------------------------------
(***************************************************************************)
(* A step of w leaves the other ingestions as they are, and what they know *)
(* and have lost stays true: an ingestion that is past the check knows of  *)
(* the collection, so that w can no longer create it.                      *)
(***************************************************************************)
LEMMA OthersKeep ==
  ASSUME SchemaIInv, NEW w \in Ingestions, NEW v \in Ingestions, v # w,
         Kept \/ Made(w) \/ Completed, ingestion'[v] = ingestion[v],
         callFaults' \in Nat, callFaults' >= callFaults
  PROVE  /\ In(v, "inspecting")' => collection'.exists
         /\ In(v, "indexing")' =>
              /\ collection'.exists /\ Usable(collection', v)
              /\ \A f \in Fields \ ingestion'[v].todo : collection'.index[f] = "right"
         /\ In(v, "indexed")' =>
              /\ collection'.exists /\ collection'.vectors
              /\ collection'.dimension = Dimension[v]
              /\ \A f \in Fields : collection'.index[f] = "right"
         /\ ~collection'.exists \/ In(v, "creating")' => Lost(v)' <= callFaults'
         /\ Lost(v)' <= callFaults' + 1
<1>1. SchemaTypeOK
  BY DEF SchemaIInv
<1>2. Lost(v)' = Lost(v) /\ Lost(v) \in Int /\ callFaults \in Int
  BY <1>1 DEF Lost, SchemaTypeOK, IngestionRecord
<1>3. \A pc : In(v, pc)' <=> In(v, pc)
  BY DEF In
<1>4. Lost(v)' <= callFaults' + 1
  BY <1>2 DEF SchemaIInv, RaceCostsOneAttempt
<1>5. ~collection'.exists => ~collection.exists
  BY <1>1, SchemaOnlyGrows, MadeIsUsable
<1>6. ~collection'.exists \/ In(v, "creating")' => Lost(v)' <= callFaults'
  BY <1>2, <1>3, <1>5 DEF SchemaIInv, NoRaceBefore
<1>7. CASE ~collection.exists
  BY <1>3, <1>4, <1>6, <1>7 DEF SchemaIInv, KnowsSchema, IndexedIsWhole
<1>8. CASE collection.exists
  <2>1. Kept \/ Completed
    BY <1>8 DEF Made
  <2> QED BY <1>1, <1>3, <1>4, <1>6, <1>8, <2>1, SchemaOnlyGrows DEF SchemaIInv, KnowsSchema, IndexedIsWhole
<1> QED BY <1>7, <1>8

\* What a step of w has to establish about w itself, as the record r it leaves.
OwnFacts(w, r) ==
    /\ r.pc = "indexing" => r.todo # {}
    /\ r.pc \in Active => r.try >= 1
    /\ r.pc = "inspecting" => collection'.exists
    /\ r.pc = "indexing" =>
         /\ collection'.exists /\ Usable(collection', w)
         /\ \A f \in Fields \ r.todo : collection'.index[f] = "right"
    /\ r.pc = "indexed" =>
         /\ collection'.exists /\ Usable(collection', w)
         /\ \A f \in Fields : collection'.index[f] = "right"
    /\ LET lost == IF r.pc \in {"waiting", "exhausted"} THEN r.try ELSE r.try - 1
       IN /\ ~collection'.exists \/ r.pc = "creating" => lost <= callFaults'
          /\ lost <= callFaults' + 1

LEMMA StepKeeps ==
  ASSUME SchemaIInv, NEW w \in Ingestions, NEW r \in IngestionRecord,
         ingestion' = [ingestion EXCEPT ![w] = r],
         Kept \/ Made(w) \/ Completed,
         callFaults' \in 0..MaxCallFaults, callFaults' >= callFaults,
         OwnFacts(w, r)
  PROVE  SchemaIInv'
<1>1. SchemaTypeOK /\ callFaults' \in Nat
  BY SchemaAssumption DEF SchemaIInv
<1>2. ingestion' \in [Ingestions -> IngestionRecord] /\ ingestion'[w] = r
      /\ \A v \in Ingestions : v # w => ingestion'[v] = ingestion[v]
  BY <1>1 DEF SchemaTypeOK
<1>3. collection' \in Collection \cup {Absent}
  <2>1. CASE Kept
    BY <1>1, <2>1 DEF SchemaTypeOK, Kept
  <2>2. CASE Made(w)
    BY <2>2, MadeIsUsable
  <2>3. CASE Completed
    <3>1. collection.exists
      BY <2>3 DEF Completed
    <3> QED BY <1>1, <2>3, <3>1, SchemaOnlyGrows
  <2> QED BY <2>1, <2>2, <2>3
<1>4. SchemaTypeOK'
  <2>1. ASSUME NEW v \in Ingestions, In(v, "indexing")'
        PROVE  ingestion'[v].todo # {}
    BY <1>1, <1>2, <2>1 DEF In, OwnFacts, SchemaTypeOK
  <2> QED BY <1>2, <1>3, <2>1 DEF SchemaTypeOK
<1>5. ActiveHasTry'
  BY <1>2 DEF ActiveHasTry, SchemaIInv, OwnFacts
<1>6. ASSUME NEW v \in Ingestions
      PROVE  /\ In(v, "inspecting")' => collection'.exists
             /\ In(v, "indexing")' =>
                  /\ collection'.exists /\ Usable(collection', v)
                  /\ \A f \in Fields \ ingestion'[v].todo : collection'.index[f] = "right"
             /\ In(v, "indexed")' =>
                  /\ collection'.exists /\ collection'.vectors
                  /\ collection'.dimension = Dimension[v]
                  /\ \A f \in Fields : collection'.index[f] = "right"
             /\ ~collection'.exists \/ In(v, "creating")' => Lost(v)' <= callFaults'
             /\ Lost(v)' <= callFaults' + 1
  <2>1. CASE v = w
    BY <1>2, <2>1 DEF OwnFacts, In, Lost, Usable
  <2>2. CASE v # w
    BY <1>1, <1>2, <2>2, OthersKeep
  <2> QED BY <2>1, <2>2
<1>7. (KnowsSchema /\ IndexedIsWhole /\ NoRaceBefore /\ RaceCostsOneAttempt)'
  BY <1>6 DEF KnowsSchema, IndexedIsWhole, NoRaceBefore, RaceCostsOneAttempt
<1> QED BY <1>4, <1>5, <1>7 DEF SchemaIInv

-----------------------------------------------------------------------------
(***************************************************************************)
(* The steps of an ingestion.                                              *)
(***************************************************************************)
LEMMA OwnState ==
  ASSUME SchemaIInv, NEW w \in Ingestions
  PROVE  /\ ingestion[w] \in IngestionRecord /\ ingestion[w].try \in 0..MaxTries
         /\ ingestion \in [Ingestions -> IngestionRecord]
         /\ MaxTries \in Nat /\ MaxCallFaults \in Nat
         /\ callFaults \in 0..MaxCallFaults
         /\ collection.exists => collection \in Collection
         /\ ingestion[w].pc \in Active => ingestion[w].try >= 1
         /\ Lost(w) <= callFaults + 1
         /\ ~collection.exists \/ In(w, "creating") => Lost(w) <= callFaults
BY SchemaAssumption, CollectionIsWhole
   DEF SchemaIInv, SchemaTypeOK, ActiveHasTry, NoRaceBefore, RaceCostsOneAttempt, IngestionRecord

\* A retry or exhaustion adds the current attempt to the lost ones: a fault pays for
\* it, or the one race that can be lost.
LEMMA TransientKeeps ==
  ASSUME SchemaIInv, NEW w \in Ingestions, ingestion[w].pc \in Active, Transient(w),
         Kept \/ Made(w) \/ Completed,
         \/ callFaults' = callFaults + 1 /\ callFaults < MaxCallFaults
         \/ callFaults' = callFaults /\ In(w, "creating") /\ collection.exists
  PROVE  SchemaIInv'
<1> DEFINE r == [ingestion[w] EXCEPT !.pc = IF ingestion[w].try >= MaxTries THEN "exhausted" ELSE "waiting"]
<1>1. r \in IngestionRecord /\ r.try = ingestion[w].try /\ r.pc \in {"exhausted", "waiting"}
  BY OwnState DEF IngestionRecord
<1>2. ingestion' = [ingestion EXCEPT ![w] = r]
  BY OwnState DEF Transient, Move
<1>3. Lost(w) = ingestion[w].try - 1
  BY DEF Lost, Active
<1>4. callFaults' \in 0..MaxCallFaults /\ callFaults' >= callFaults
  BY OwnState
<1>5. collection.exists => collection'.exists
  BY SchemaOnlyGrows DEF SchemaIInv, Made
<1>6. OwnFacts(w, r)
  BY <1>1, <1>3, <1>4, <1>5, OwnState DEF OwnFacts, Active
<1> HIDE DEF r
<1> QED BY <1>1, <1>2, <1>4, <1>6, StepKeeps

LEMMA DeliverKeeps == SchemaIInv /\ (\E w \in Ingestions : Deliver(w)) => SchemaIInv'
<1> SUFFICES ASSUME SchemaIInv, NEW w \in Ingestions, Deliver(w) PROVE SchemaIInv'
    OBVIOUS
<1> DEFINE r == [pc |-> "checking", try |-> ingestion[w].try + 1, todo |-> {}]
<1>1. r \in IngestionRecord
  BY OwnState DEF Deliver, IngestionRecord
<1>2. OwnFacts(w, r)
  BY OwnState DEF Deliver, OwnFacts, Active, Lost, In
<1>3. ingestion' = [ingestion EXCEPT ![w] = r] /\ Kept /\ callFaults' = callFaults
  BY OwnState DEF Deliver, Kept
<1>4. callFaults' \in 0..MaxCallFaults /\ callFaults' >= callFaults
  BY <1>3, OwnState
<1> HIDE DEF r
<1> QED BY <1>1, <1>2, <1>3, <1>4, StepKeeps

LEMMA CheckKeeps == SchemaIInv /\ (\E w \in Ingestions : Check(w)) => SchemaIInv'
<1> SUFFICES ASSUME SchemaIInv, NEW w \in Ingestions, Check(w) PROVE SchemaIInv'
    OBVIOUS
<1> DEFINE r == [ingestion[w] EXCEPT !.pc = IF collection.exists THEN "inspecting" ELSE "creating"]
<1>1. r \in IngestionRecord
  BY OwnState DEF IngestionRecord
<1>2. r.pc = (IF collection.exists THEN "inspecting" ELSE "creating") /\ r.try = ingestion[w].try
  BY OwnState DEF IngestionRecord
<1>3. ingestion' = [ingestion EXCEPT ![w] = r] /\ Kept /\ callFaults' = callFaults
  BY OwnState DEF Check, Move, Kept
<1>4. OwnFacts(w, r)
  BY <1>2, <1>3, OwnState DEF Check, OwnFacts, Active, Lost, In, Kept
<1>5. callFaults' \in 0..MaxCallFaults /\ callFaults' >= callFaults
  BY <1>3, OwnState
<1> HIDE DEF r
<1> QED BY <1>1, <1>3, <1>4, <1>5, StepKeeps

\* Coming to the loop over the fields, or to its end, with a usable collection that
\* lacks the fields to do only.
LEMMA IndexKeeps ==
  ASSUME SchemaIInv, NEW w \in Ingestions, ingestion[w].pc \in Active,
         NEW missing \in SUBSET Fields, Index(w, missing),
         Kept \/ Made(w) \/ Completed, callFaults' = callFaults,
         collection'.exists, Usable(collection', w),
         \A f \in Fields \ missing : collection'.index[f] = "right"
  PROVE  SchemaIInv'
<1> DEFINE r == [ingestion[w] EXCEPT !.todo = missing,
                                     !.pc = IF missing = {} THEN "indexed" ELSE "indexing"]
<1>1. r \in IngestionRecord /\ r.todo = missing /\ r.try = ingestion[w].try
      /\ r.pc = IF missing = {} THEN "indexed" ELSE "indexing"
  BY OwnState DEF IngestionRecord
<1>2. ingestion' = [ingestion EXCEPT ![w] = r]
  BY OwnState DEF Index
<1>3. OwnFacts(w, r)
  BY <1>1, OwnState DEF OwnFacts, Active, Lost
<1>4. callFaults' \in 0..MaxCallFaults /\ callFaults' >= callFaults
  BY <1>3, OwnState
<1> HIDE DEF r
<1> QED BY <1>1, <1>2, <1>3, <1>4, StepKeeps

LEMMA InspectKeeps == SchemaIInv /\ (\E w \in Ingestions : Inspect(w)) => SchemaIInv'
<1> SUFFICES ASSUME SchemaIInv, NEW w \in Ingestions, Inspect(w) PROVE SchemaIInv'
    OBVIOUS
<1>1. Kept /\ callFaults' = callFaults /\ ingestion[w].pc \in Active /\ In(w, "inspecting")
  BY DEF Inspect, Kept, In, Active
<1>2. collection.exists /\ collection \in Collection
  BY <1>1, OwnState DEF SchemaIInv, KnowsSchema
<1>3. CASE Usable(collection, w)
  <2>1. \A f \in Fields \ Missing(collection) : collection.index[f] = "right"
    BY <1>2, <1>3 DEF Usable, Missing, Collection
  <2>2. Missing(collection) \in SUBSET Fields /\ Index(w, Missing(collection))
    BY <1>3 DEF Inspect, Missing
  <2> QED BY <1>1, <1>2, <1>3, <2>1, <2>2, IndexKeeps DEF Kept
<1>4. CASE ~Usable(collection, w)
  <2> DEFINE r == [ingestion[w] EXCEPT !.pc = "unavailable"]
  <2>1. r \in IngestionRecord /\ r.pc = "unavailable" /\ r.try = ingestion[w].try
    BY OwnState DEF IngestionRecord
  <2>2. ingestion' = [ingestion EXCEPT ![w] = r]
    BY <1>4, OwnState DEF Inspect, Move
  <2>3. OwnFacts(w, r)
    BY <1>1, <1>2, <2>1, OwnState DEF OwnFacts, Active, Lost, Kept
  <2>4. callFaults' \in 0..MaxCallFaults /\ callFaults' >= callFaults
    BY <1>1, OwnState
  <2> HIDE DEF r
  <2> QED BY <1>1, <2>1, <2>2, <2>3, <2>4, StepKeeps
<1> QED BY <1>3, <1>4

LEMMA CreateKeeps == SchemaIInv /\ (\E w \in Ingestions : Create(w)) => SchemaIInv'
<1> SUFFICES ASSUME SchemaIInv, NEW w \in Ingestions, Create(w) PROVE SchemaIInv'
    OBVIOUS
<1>1. callFaults' = callFaults /\ ingestion[w].pc \in Active /\ In(w, "creating")
  BY DEF Create, In, Active
<1>2. CASE ~collection.exists
  <2>1. Made(w) /\ Index(w, Fields)
    BY <1>2 DEF Create, Made
  <2> QED BY <1>1, <2>1, MadeIsUsable, IndexKeeps
<1>3. CASE collection.exists
  <2>1. Transient(w) /\ Kept
    BY <1>3 DEF Create, Kept
  <2> QED BY <1>1, <1>3, <2>1, TransientKeeps
<1> QED BY <1>2, <1>3

LEMMA CreateIndexKeeps == SchemaIInv /\ (\E w \in Ingestions : CreateIndex(w)) => SchemaIInv'
<1> SUFFICES ASSUME SchemaIInv, NEW w \in Ingestions, CreateIndex(w) PROVE SchemaIInv'
    OBVIOUS
<1>1. callFaults' = callFaults /\ ingestion[w].pc \in Active /\ In(w, "indexing")
  BY DEF CreateIndex, In, Active
<1>2. /\ collection.exists /\ collection \in Collection /\ Usable(collection, w)
      /\ \A f \in Fields \ ingestion[w].todo : collection.index[f] = "right"
      /\ ingestion[w].todo \in SUBSET Fields
  BY <1>1, OwnState DEF SchemaIInv, KnowsSchema, IngestionRecord
<1>3. PICK f \in ingestion[w].todo :
        /\ collection' = [collection EXCEPT !.index[f] = "right"]
        /\ Index(w, ingestion[w].todo \ {f})
  BY DEF CreateIndex
<1>4. Completed
  BY <1>2, <1>3 DEF Completed
<1>5. \A g \in Fields \ (ingestion[w].todo \ {f}) : collection'.index[g] = "right"
  BY <1>2, <1>3 DEF Collection
<1>6. collection'.exists /\ Usable(collection', w)
  BY <1>2, <1>4, SchemaOnlyGrows DEF SchemaIInv
<1>7. ingestion[w].todo \ {f} \in SUBSET Fields
  BY <1>2
<1> QED BY <1>1, <1>3, <1>4, <1>5, <1>6, <1>7, IndexKeeps

LEMMA CallFailsKeeps == SchemaIInv /\ (\E w \in Ingestions : CallFails(w)) => SchemaIInv'
<1> SUFFICES ASSUME SchemaIInv, NEW w \in Ingestions, CallFails(w) PROVE SchemaIInv'
    OBVIOUS
<1>1. ingestion[w].pc \in Active /\ Transient(w)
      /\ callFaults' = callFaults + 1 /\ callFaults < MaxCallFaults
  BY DEF CallFails, In, Active
<1>2. Kept \/ Made(w) \/ Completed
  <2>1. CASE In(w, "indexing") /\ \E f \in ingestion[w].todo :
                collection' = [collection EXCEPT !.index[f] = "right"]
    BY <2>1, OwnState DEF SchemaIInv, KnowsSchema, Completed, IngestionRecord
  <2> QED BY <2>1 DEF CallFails, Kept, Made
<1> QED BY <1>1, <1>2, TransientKeeps

LEMMA WorkerDiesKeeps == SchemaIInv /\ (\E w \in Ingestions : WorkerDies(w)) => SchemaIInv'
<1> SUFFICES ASSUME SchemaIInv, NEW w \in Ingestions, WorkerDies(w) PROVE SchemaIInv'
    OBVIOUS
<1> DEFINE r == [pc |-> "waiting", try |-> ingestion[w].try - 1, todo |-> {}]
<1>1. ingestion[w].pc \in Active /\ Kept
      /\ callFaults' = callFaults + 1 /\ callFaults < MaxCallFaults
  BY DEF WorkerDies, Active, Kept
<1>2. r \in IngestionRecord
  BY <1>1, OwnState DEF IngestionRecord
<1>3. ingestion' = [ingestion EXCEPT ![w] = r]
  BY OwnState DEF WorkerDies
<1>4. OwnFacts(w, r)
  BY <1>1, OwnState DEF OwnFacts, Active, Lost, Kept, In
<1>5. callFaults' \in 0..MaxCallFaults /\ callFaults' >= callFaults
  BY <1>1, OwnState
<1> HIDE DEF r
<1> QED BY <1>1, <1>2, <1>3, <1>4, <1>5, StepKeeps

LEMMA SchemaInductive == SchemaIInv /\ [SchemaNext]_schemaVars => SchemaIInv'
<1>1. ASSUME SchemaIInv, UNCHANGED schemaVars PROVE SchemaIInv'
  BY <1>1 DEF schemaVars, SchemaIInv, SchemaTypeOK, ActiveHasTry, KnowsSchema, IndexedIsWhole,
              NoRaceBefore, RaceCostsOneAttempt, In, Lost, Usable
<1> QED BY <1>1, DeliverKeeps, CheckKeeps, InspectKeeps, CreateKeeps, CreateIndexKeeps,
           CallFailsKeeps, WorkerDiesKeeps
        DEF SchemaNext, EnsureCollection, AllSettled

LEMMA SchemaAlways == SchemaSpec => []SchemaIInv
BY SchemaInitially, SchemaInductive, PTL DEF SchemaSpec

-----------------------------------------------------------------------------
(***************************************************************************)
(* The theorems.                                                           *)
(***************************************************************************)

\* When ensure_collection returns, the collection has both vectors, the dimension of
\* the caller and every payload index, however many ingestions of whatever settings
\* check, create and complete it at the same time, and whatever calls fail.
THEOREM SchemaIsWhole == SchemaSpec => []IndexedIsWhole
<1>1. SchemaIInv => IndexedIsWhole
  BY DEF SchemaIInv
<1> QED BY <1>1, SchemaAlways, PTL

\* An ingestion loses at most one attempt more than there were faults, which is the
\* one in which create_collection found the collection of another ingestion.
THEOREM RacesAreCheap == SchemaSpec => []RaceCostsOneAttempt
<1>1. SchemaIInv => RaceCostsOneAttempt
  BY DEF SchemaIInv
<1> QED BY <1>1, SchemaAlways, PTL

-----------------------------------------------------------------------------
(***************************************************************************)
(* Principals: the first requests are served, for any number of clients: a *)
(* request that goes on without a committed owner has inserted it itself.  *)
(***************************************************************************)
\* The row a request counts on is committed, or its own; it is there for good once
\* a duplicate was refused.
OwnerIsThere ==
    \A c \in Clients :
        /\ client[c].pc \in {"authorized", "added"} => principal \/ inserter = c
        /\ client[c].pc = "duplicate" => principal

PrincipalsIInv == PrincipalsTypeOK /\ inserter \in Clients \cup {Nobody}
                  /\ OwnerIsThere /\ FirstRequestsAreServed

LEMMA PrincipalsInitially == PrincipalsInit /\ ClientsAssumption => PrincipalsIInv
BY DEF PrincipalsInit, PrincipalsIInv, PrincipalsTypeOK, OwnerIsThere, FirstRequestsAreServed,
       ClientRecord, Routes, IdleClient, Has

\* One step per action; c is the client that takes it.
LEMMA PrincipalsInductive ==
  PrincipalsIInv /\ [PrincipalsNext]_principalVars => PrincipalsIInv'
<1> SUFFICES ASSUME PrincipalsIInv, [PrincipalsNext]_principalVars PROVE PrincipalsIInv'
    OBVIOUS
<1> USE ClientsAssumption
<1> USE DEF PrincipalsIInv, PrincipalsTypeOK, OwnerIsThere, FirstRequestsAreServed,
            ClientRecord, Routes, Has, Goes, CloseSession
<1>1. ASSUME NEW c \in Clients, Request(c) PROVE PrincipalsIInv'
  BY <1>1 DEF Request
<1>2. ASSUME NEW c \in Clients, GetPrincipal(c) PROVE PrincipalsIInv'
  BY <1>2 DEF GetPrincipal
<1>3. ASSUME NEW c \in Clients, AddPrincipal(c) PROVE PrincipalsIInv'
  BY <1>3 DEF AddPrincipal
<1>4. ASSUME NEW c \in Clients, LoadDuplicate(c) PROVE PrincipalsIInv'
  BY <1>4 DEF LoadDuplicate
<1>5. ASSUME NEW c \in Clients, ListCollections(c) PROVE PrincipalsIInv'
  BY <1>5 DEF ListCollections
<1>6. ASSUME NEW c \in Clients, AddCollection(c) PROVE PrincipalsIInv'
  BY <1>6 DEF AddCollection
<1>7. ASSUME NEW c \in Clients, CommitCollection(c) PROVE PrincipalsIInv'
  BY <1>7 DEF CommitCollection
<1>8. ASSUME NEW c \in Clients, Disconnect(c) PROVE PrincipalsIInv'
  BY <1>8 DEF Disconnect, IdleClient
<1>9. ASSUME NEW c \in Clients, Answered(c) PROVE PrincipalsIInv'
  BY <1>9 DEF Answered, IdleClient
<1>10. CASE UNCHANGED principalVars
  BY <1>10 DEF principalVars
<1> QED BY <1>1, <1>2, <1>3, <1>4, <1>5, <1>6, <1>7, <1>8, <1>9, <1>10
        DEF PrincipalsNext, ClientStep

LEMMA PrincipalsAlways == PrincipalsSpec => []PrincipalsIInv
BY PrincipalsInitially, PrincipalsInductive, ClientsAssumption, PTL DEF PrincipalsSpec

\* However many first requests race, and whichever of them are rolled back, none is
\* refused: not for the row that another one inserted, nor for a row that is gone.
THEOREM RacingRequestsAreServed == PrincipalsSpec => [](PrincipalsTypeOK /\ FirstRequestsAreServed)
<1>1. PrincipalsIInv => PrincipalsTypeOK /\ FirstRequestsAreServed
  BY DEF PrincipalsIInv
<1> QED BY <1>1, PrincipalsAlways, PTL

-----------------------------------------------------------------------------
(***************************************************************************)
(* HostedCalls: for any number of queries, threads, slots and connections, *)
(* the calls of live queries stay below both limits, so that a call that is*)
(* kept from a thread is kept from it by calls that were given up.         *)
(***************************************************************************)
(***************************************************************************)
(* Lines: what joining, leaving at the head and leaving from the middle do *)
(* to who is in them.                                                      *)
(***************************************************************************)
LEMMA JoinLine ==
  ASSUME NEW S, NEW line \in Seq(S), Once(line), NEW q \in S, ~Among(line, q)
  PROVE  /\ Append(line, q) \in Seq(S) /\ Once(Append(line, q))
         /\ \A c : Among(Append(line, q), c) <=> Among(line, c) \/ c = q
<1> DEFINE new == Append(line, q)
<1>1. /\ new \in Seq(S) /\ Len(new) = Len(line) + 1 /\ Len(line) \in Nat
      /\ \A i \in 1..Len(line) : new[i] = line[i]
      /\ new[Len(line) + 1] = q
  OBVIOUS
<1> HIDE DEF new
<1>2. Once(new)
  BY <1>1 DEF Once, Among
<1>3. ASSUME NEW c PROVE Among(new, c) <=> Among(line, c) \/ c = q
  BY <1>1 DEF Among
<1> QED BY <1>1, <1>2, <1>3 DEF new

LEMMA LeaveLine ==
  ASSUME NEW S, NEW line \in Seq(S), Once(line), line # <<>>
  PROVE  /\ Tail(line) \in Seq(S) /\ Once(Tail(line))
         /\ Head(line) \in S /\ Among(line, Head(line))
         /\ \A c : Among(Tail(line), c) <=> Among(line, c) /\ c # Head(line)
<1> DEFINE new == Tail(line)
<1>1. /\ new \in Seq(S) /\ Len(new) = Len(line) - 1 /\ Len(line) \in Nat \ {0}
      /\ \A i \in 1..Len(new) : new[i] = line[i + 1]
      /\ Head(line) = line[1] /\ line[1] \in S
  OBVIOUS
<1> HIDE DEF new
<1>2. Once(new)
  BY <1>1 DEF Once
<1>3. Among(line, Head(line))
  BY <1>1 DEF Among
<1>4. ASSUME NEW c PROVE Among(new, c) <=> Among(line, c) /\ c # Head(line)
  <2>1. ASSUME Among(new, c) PROVE Among(line, c) /\ c # Head(line)
    <3>1. PICK i \in 1..Len(new) : new[i] = c
      BY <2>1 DEF Among
    <3> QED BY <3>1, <1>1 DEF Among, Once
  <2>2. ASSUME Among(line, c), c # Head(line) PROVE Among(new, c)
    <3>1. PICK i \in 1..Len(line) : line[i] = c
      BY <2>2 DEF Among
    <3>2. i - 1 \in 1..Len(new) /\ new[i - 1] = c
      BY <3>1, <2>2, <1>1
    <3> QED BY <3>2 DEF Among
  <2> QED BY <2>1, <2>2
<1> QED BY <1>1, <1>2, <1>3, <1>4 DEF new

LEMMA LeaveMiddle ==
  ASSUME NEW S, NEW line \in Seq(S), Once(line), NEW k \in 1..Len(line)
  PROVE  /\ RemoveAt(line, k) \in Seq(S) /\ Once(RemoveAt(line, k))
         /\ \A c : Among(RemoveAt(line, k), c) <=> Among(line, c) /\ c # line[k]
<1> DEFINE new == RemoveAt(line, k)
<1>1. /\ new \in Seq(S) /\ Len(new) = Len(line) - 1 /\ Len(line) \in Nat \ {0}
      /\ \A i \in 1..Len(new) : new[i] = IF i < k THEN line[i] ELSE line[i + 1]
  <2> DEFINE before == SubSeq(line, 1, k - 1)
             after == SubSeq(line, k + 1, Len(line))
  <2>1. Len(line) \in Nat \ {0} /\ k \in Nat \ {0} /\ k <= Len(line)
    OBVIOUS
  <2>2. /\ before \in Seq(S) /\ Len(before) = k - 1
        /\ \A i \in 1..(k - 1) : before[i] = line[i]
    BY <2>1, SubSeqProperties
  <2>3. /\ after \in Seq(S) /\ Len(after) = Len(line) - k
        /\ \A i \in 1..(Len(line) - k) : after[i] = line[k + i]
    BY <2>1, SubSeqProperties
  <2> HIDE DEF before, after
  <2>4. /\ before \o after \in Seq(S) /\ Len(before \o after) = Len(before) + Len(after)
        /\ \A i \in 1..(Len(before) + Len(after)) :
             (before \o after)[i] = IF i <= Len(before) THEN before[i] ELSE after[i - Len(before)]
    BY <2>2, <2>3, ConcatProperties
  <2>5. new = before \o after
    BY DEF RemoveAt, before, after
  <2> HIDE DEF new
  <2>6. Len(new) = Len(line) - 1 /\ new \in Seq(S)
    <3>1. new \in Seq(S) /\ Len(new) = Len(before) + Len(after)
      BY <2>4, <2>5, Zenon
    <3>2. Len(before) + Len(after) = Len(line) - 1
      BY <2>1, <2>2, <2>3, SMT
    <3> QED BY <3>1, <3>2, Zenon
  <2>7. ASSUME NEW i \in 1..Len(new) PROVE new[i] = IF i < k THEN line[i] ELSE line[i + 1]
    <3>1. CASE i < k
      BY <3>1, <2>1, <2>2, <2>4, <2>5, <2>6
    <3>2. CASE i >= k
      <4>1. i - (k - 1) \in 1..(Len(line) - k) /\ k + (i - (k - 1)) = i + 1
        BY <3>2, <2>1, <2>6
      <4>2. new[i] = after[i - (k - 1)]
        BY <3>2, <2>1, <2>2, <2>3, <2>4, <2>5, <2>6
      <4> QED BY <4>1, <4>2, <3>2, <2>3
    <3> QED BY <3>1, <3>2, <2>1, <2>6
  <2> QED BY <2>1, <2>6, <2>7
<1> HIDE DEF new
<1>2. Once(new)
  BY <1>1 DEF Once
<1>3. ASSUME NEW c PROVE Among(new, c) <=> Among(line, c) /\ c # line[k]
  <2>1. ASSUME Among(new, c) PROVE Among(line, c) /\ c # line[k]
    <3>1. PICK i \in 1..Len(new) : new[i] = c
      BY <2>1 DEF Among
    <3> QED BY <3>1, <1>1 DEF Among, Once
  <2>2. ASSUME Among(line, c), c # line[k] PROVE Among(new, c)
    <3>1. PICK i \in 1..Len(line) : line[i] = c
      BY <2>2 DEF Among
    <3>2. CASE i < k
      BY <3>1, <3>2, <1>1 DEF Among
    <3>3. CASE i > k
      <4>1. i - 1 \in 1..Len(new) /\ new[i - 1] = c
        BY <3>1, <3>3, <1>1
      <4> QED BY <4>1 DEF Among
    <3> QED BY <3>1, <3>2, <3>3, <2>2
  <2> QED BY <2>1, <2>2
<1> QED BY <1>1, <1>2, <1>3 DEF new

LEMMA RemainingIsWithout ==
  ASSUME callLine \in Seq(Callers), Once(callLine), NEW q \in Callers
  PROVE  /\ Remaining(q) \in Seq(Callers) /\ Once(Remaining(q))
         /\ \A c : Among(Remaining(q), c) <=> Among(callLine, c) /\ c # q
<1>1. CASE ~Among(callLine, q)
  BY <1>1 DEF Remaining
<1>2. CASE Among(callLine, q)
  <2> DEFINE k == CHOOSE i \in 1..Len(callLine) : callLine[i] = q
  <2>1. k \in 1..Len(callLine) /\ callLine[k] = q
    BY <1>2 DEF Among
  <2>2. Remaining(q) = RemoveAt(callLine, k)
    BY <1>2 DEF Remaining
  <2> HIDE DEF k
  <2> QED BY <2>1, <2>2, LeaveMiddle
<1> QED BY <1>1, <1>2

-----------------------------------------------------------------------------
(***************************************************************************)
(* Threads: whose calls run after a step.                                  *)
(***************************************************************************)
ThreadsOK ==
    /\ thread \in [Workforce -> Callers \cup {Free, Stray}]
    /\ \A s, t \in Workforce : thread[s] = thread[t] /\ thread[s] \in Callers => s = t

LEMMA CallStarts ==
  ASSUME ThreadsOK, CallersAssumption, NEW q \in Callers, NEW t \in Workforce,
         thread[t] = Free, ~Running(q), thread' = [thread EXCEPT ![t] = q]
  PROVE  ThreadsOK' /\ \A c \in Callers : Running(c)' <=> Running(c) \/ c = q
BY DEF ThreadsOK, Running, CallersAssumption

LEMMA CallReturns ==
  ASSUME ThreadsOK, CallersAssumption, NEW t \in Workforce, thread' = [thread EXCEPT ![t] = Free]
  PROVE  ThreadsOK' /\ \A c \in Callers : Running(c)' <=> Running(c) /\ c # thread[t]
BY DEF ThreadsOK, Running, CallersAssumption

LEMMA CallGivenUp ==
  ASSUME ThreadsOK, CallersAssumption, NEW q \in Callers, GiveUp(q)
  PROVE  ThreadsOK' /\ \A c \in Callers : Running(c)' <=> Running(c) /\ c # q
BY DEF ThreadsOK, Running, CallersAssumption, GiveUp

-----------------------------------------------------------------------------
\* A step that moves one query keeps HostedTypeOK if it does so for that query and
\* leaves the others where they are.
LEMMA OneMoves ==
  ASSUME HostedTypeOK, NEW q \in Callers, NEW record \in AskingRecord,
         asking' = [asking EXCEPT ![q] = record],
         slotLine' \in Seq(Callers), Once(slotLine'), callLine' \in Seq(Callers), Once(callLine'),
         ThreadsOK',
         \A c \in Callers \ {q} : /\ Among(slotLine', c) <=> Among(slotLine, c)
                                  /\ Among(callLine', c) <=> Among(callLine, c)
                                  /\ Running(c)' <=> Running(c),
         record.pc = "waiting" <=> Among(slotLine', q),
         record.pc \in {"shadow", "generating"} <=> Among(callLine', q) \/ Running(q)',
         ~(Among(callLine', q) /\ Running(q)')
  PROVE  HostedTypeOK'
<1>1. /\ asking' \in [Callers -> AskingRecord]
      /\ asking'[q] = record
      /\ \A c \in Callers \ {q} : asking'[c] = asking[c]
  BY DEF HostedTypeOK
<1>2. ASSUME NEW c \in Callers
      PROVE  /\ asking'[c].pc = "waiting" <=> Among(slotLine', c)
             /\ asking'[c].pc \in {"shadow", "generating"} <=> Among(callLine', c) \/ Running(c)'
             /\ ~(Among(callLine', c) /\ Running(c)')
  <2>1. CASE c = q
    BY <2>1, <1>1
  <2>2. CASE c # q
    <3>1. /\ asking[c].pc = "waiting" <=> Among(slotLine, c)
          /\ asking[c].pc \in {"shadow", "generating"} <=> Among(callLine, c) \/ Running(c)
          /\ ~(Among(callLine, c) /\ Running(c))
      BY DEF HostedTypeOK, Stands
    <3>2. /\ Among(slotLine', c) <=> Among(slotLine, c)
          /\ Among(callLine', c) <=> Among(callLine, c)
          /\ Running(c)' <=> Running(c)
          /\ asking'[c] = asking[c]
      BY <2>2, <1>1
    <3> QED BY <3>1, <3>2
  <2> QED BY <2>1, <2>2
<1> QED BY <1>1, <1>2 DEF HostedTypeOK, ThreadsOK, Stands, Among, Once, Running

LEMMA HostedTypeInductive ==
  HostedTypeOK /\ CallersAssumption /\ LimitsAssumption /\ [HostedNext]_hostedVars => HostedTypeOK'
<1> SUFFICES ASSUME HostedTypeOK, CallersAssumption, LimitsAssumption, [HostedNext]_hostedVars
             PROVE  HostedTypeOK'
    OBVIOUS
<1>t. /\ ThreadsOK /\ asking \in [Callers -> AskingRecord]
      /\ slotLine \in Seq(Callers) /\ Once(slotLine) /\ callLine \in Seq(Callers) /\ Once(callLine)
  BY DEF ThreadsOK, HostedTypeOK
<1>q. ASSUME NEW q \in Callers
      PROVE  /\ asking[q] \in AskingRecord
             /\ asking[q].pc = "waiting" <=> Among(slotLine, q)
             /\ asking[q].pc \in {"shadow", "generating"} <=> Among(callLine, q) \/ Running(q)
             /\ ~(Among(callLine, q) /\ Running(q))
  BY DEF HostedTypeOK, Stands
<1>s. ASSUME UNCHANGED thread PROVE ThreadsOK' /\ \A c \in Callers : Running(c)' <=> Running(c)
  BY <1>s, <1>t DEF ThreadsOK, Running
<1>r. ASSUME NEW q \in Callers, NEW pc \in {"waiting", "packing", "shadow", "generating", "done"},
             NEW record \in AskingRecord
      PROVE  [record EXCEPT !.pc = pc] \in AskingRecord /\ [record EXCEPT !.pc = pc].pc = pc
  BY DEF AskingRecord
<1>1. ASSUME NEW q \in Callers,
             Ask(q) \/ NoConnection(q) \/ PackFails(q) \/ Abstain(q) \/ Respond(q)
      PROVE  HostedTypeOK'
  <2>1. UNCHANGED <<slotLine, callLine, thread>>
    BY <1>1 DEF Ask, NoConnection, PackFails, Abstain, Respond, Ends
  <2>2. /\ asking[q].pc \notin {"waiting", "shadow", "generating"}
        /\ \E record \in AskingRecord :
             /\ asking' = [asking EXCEPT ![q] = record]
             /\ record.pc \notin {"waiting", "shadow", "generating"}
    BY <1>1, <1>q, <1>t DEF Ask, NoConnection, PackFails, Abstain, Respond, Ends, Stands, NotAsking, AskingRecord
  <2> QED BY <2>1, <2>2, <1>t, <1>q, <1>s, OneMoves
<1>2. ASSUME NEW q \in Callers, Connect(q) PROVE HostedTypeOK'
  <2>1. asking[q].pc = "connecting" /\ ~Among(slotLine, q) /\ UNCHANGED <<callLine, thread>>
    BY <1>2, <1>q DEF Connect, Stands
  <2>2. /\ slotLine' \in Seq(Callers) /\ Once(slotLine')
        /\ \A c : Among(slotLine', c) <=> Among(slotLine, c) \/ c = q
    BY <1>2, <2>1, <1>t, JoinLine DEF Connect
  <2>3. \E record \in AskingRecord : asking' = [asking EXCEPT ![q] = record] /\ record.pc = "waiting"
    <3>1. asking' = [asking EXCEPT ![q] = [asking[q] EXCEPT !.pc = "waiting"]]
      BY <1>2 DEF Connect
    <3> QED BY <3>1, <1>q, <1>r
  <2> QED BY <2>1, <2>2, <2>3, <1>t, <1>q, <1>s, OneMoves
<1>3. ASSUME NEW q \in Callers, Admit(q) PROVE HostedTypeOK'
  <2>1. /\ slotLine' \in Seq(Callers) /\ Once(slotLine') /\ Among(slotLine, q)
        /\ \A c : Among(slotLine', c) <=> Among(slotLine, c) /\ c # q
    BY <1>3, <1>t, LeaveLine DEF Admit
  <2>2. asking[q].pc = "waiting" /\ UNCHANGED <<callLine, thread>>
    BY <1>3, <2>1, <1>q DEF Admit
  <2>3. \E record \in AskingRecord : asking' = [asking EXCEPT ![q] = record] /\ record.pc = "packing"
    <3>1. asking' = [asking EXCEPT ![q] = [asking[q] EXCEPT !.pc = "packing"]]
      BY <1>3 DEF Admit
    <3> QED BY <3>1, <1>q, <1>r
  <2> QED BY <2>1, <2>2, <2>3, <1>t, <1>q, <1>s, OneMoves
<1>4. ASSUME NEW q \in Callers, Pack(q) PROVE HostedTypeOK'
  <2>1. /\ asking[q].pc = "packing" /\ UNCHANGED <<slotLine, thread>>
        /\ ~Among(callLine, q) /\ ~Running(q) /\ ~Among(slotLine, q)
    BY <1>4, <1>q DEF Pack, Stands
  <2>2. /\ callLine' \in Seq(Callers) /\ Once(callLine')
        /\ \A c : Among(callLine', c) <=> Among(callLine, c) \/ c = q
    BY <1>4, <2>1, <1>t, JoinLine DEF Pack
  <2>3. \E record \in AskingRecord : /\ asking' = [asking EXCEPT ![q] = record]
                                     /\ record.pc \in {"shadow", "generating"}
    <3>1. PICK evidence \in {"weak", "enough"}, pc \in {"shadow", "generating"} :
            asking' = [asking EXCEPT ![q].evidence = evidence, ![q].pc = pc]
      BY <1>4 DEF Pack
    <3> DEFINE record == [asking[q] EXCEPT !.evidence = evidence]
    <3>2. record \in AskingRecord
      BY <1>q DEF AskingRecord
    <3>3. asking' = [asking EXCEPT ![q] = [record EXCEPT !.pc = pc]]
      BY <3>1, <1>t
    <3> QED BY <3>2, <3>3, <1>r
  <2> QED BY <2>1, <2>2, <2>3, <1>t, <1>q, <1>s, OneMoves
<1>5. ASSUME NEW q \in Callers, NEW t \in Workforce, StartCall(q, t) PROVE HostedTypeOK'
  <2>1. /\ callLine' \in Seq(Callers) /\ Once(callLine') /\ Among(callLine, q)
        /\ \A c : Among(callLine', c) <=> Among(callLine, c) /\ c # q
    BY <1>5, <1>t, LeaveLine DEF StartCall
  <2>2. /\ asking[q].pc \in {"shadow", "generating"} /\ ~Running(q) /\ UNCHANGED slotLine
        /\ asking' = [asking EXCEPT ![q] = asking[q]]
    BY <1>5, <2>1, <1>q, <1>t DEF StartCall
  <2>3. ThreadsOK' /\ \A c \in Callers : Running(c)' <=> Running(c) \/ c = q
    BY <1>5, <2>2, <1>t, CallStarts DEF StartCall
  <2> QED BY <2>1, <2>2, <2>3, <1>t, <1>q, OneMoves
<1>6. ASSUME NEW q \in Callers, NEW left \in Seq(Callers), Once(left), UNCHANGED slotLine, ThreadsOK',
             asking[q].pc \in {"shadow", "generating"},
             \A c \in Callers : Among(left, c) <=> Among(callLine, c) /\ c # q,
             \A c \in Callers : Running(c)' <=> Running(c) /\ c # q,
             \/ AfterShadow(q, left)
             \/ callLine' = left /\ \E outcome \in {"ANSWERED", "INSUFFICIENT_EVIDENCE", "ERROR"} : Ends(q, outcome)
      PROVE  HostedTypeOK'
  <2>1. ~Among(slotLine, q) /\ ~Among(left, q)
    BY <1>6, <1>q
  <2>2. CASE AfterShadow(q, left) /\ asking[q].evidence = "enough"
    <3>1. /\ callLine' \in Seq(Callers) /\ Once(callLine')
          /\ \A c : Among(callLine', c) <=> Among(left, c) \/ c = q
      <4>1. callLine' = Append(left, q)
        BY <2>2 DEF AfterShadow
      <4>2. Once(left)
        BY <1>6
      <4> QED BY <4>1, <4>2, <2>1, JoinLine
    <3>2. \E record \in AskingRecord : /\ asking' = [asking EXCEPT ![q] = record]
                                       /\ record.pc = "generating"
      <4>1. asking' = [asking EXCEPT ![q] = [asking[q] EXCEPT !.pc = "generating"]]
        BY <2>2 DEF AfterShadow
      <4> QED BY <4>1, <1>q, <1>r
    <3> QED BY <3>1, <3>2, <2>1, <1>6, <1>t, <1>q, OneMoves
  <2>3. CASE callLine' = left /\ \E outcome \in {"ANSWERED", "INSUFFICIENT_EVIDENCE", "ERROR"} : Ends(q, outcome)
    <3>1. \E record \in AskingRecord : asking' = [asking EXCEPT ![q] = record] /\ record.pc = "done"
      <4>1. PICK outcome \in {"ANSWERED", "INSUFFICIENT_EVIDENCE", "ERROR"} : Ends(q, outcome)
        BY <2>3
      <4> DEFINE record == [asking[q] EXCEPT !.outcome = outcome]
      <4>2. record \in AskingRecord
        BY <1>q DEF AskingRecord
      <4>3. asking' = [asking EXCEPT ![q] = [record EXCEPT !.pc = "done"]]
        BY <4>1, <1>t DEF Ends
      <4> QED BY <4>2, <4>3, <1>r
    <3> QED BY <3>1, <2>3, <2>1, <1>6, <1>t, <1>q, OneMoves
  <2> QED BY <1>6, <2>2, <2>3 DEF AfterShadow
<1>7. ASSUME NEW q \in Callers, NEW t \in Workforce, Return(q, t) PROVE HostedTypeOK'
  <2>1. ThreadsOK' /\ \A c \in Callers : Running(c)' <=> Running(c) /\ c # q
    BY <1>7, <1>t, CallReturns DEF Return
  <2>2. Running(q) /\ ~Among(callLine, q) /\ UNCHANGED slotLine
    BY <1>7, <1>q DEF Return, Running
  <2>3. \A c \in Callers : Among(callLine, c) <=> Among(callLine, c) /\ c # q
    BY <2>2
  <2>4. /\ asking[q].pc \in {"shadow", "generating"}
        /\ \/ AfterShadow(q, callLine)
           \/ callLine' = callLine /\ \E outcome \in {"ANSWERED", "INSUFFICIENT_EVIDENCE", "ERROR"} : Ends(q, outcome)
    BY <1>7 DEF Return, Stands
  <2> QED BY <2>1, <2>2, <2>3, <2>4, <1>6, <1>t
<1>8. ASSUME NEW q \in Callers, ShadowTimesOut(q) \/ GenerationTimesOut(q) PROVE HostedTypeOK'
  <2>1. ThreadsOK' /\ \A c \in Callers : Running(c)' <=> Running(c) /\ c # q
    BY <1>8, <1>t, CallGivenUp DEF ShadowTimesOut, GenerationTimesOut
  <2>2. /\ Remaining(q) \in Seq(Callers) /\ Once(Remaining(q))
        /\ \A c : Among(Remaining(q), c) <=> Among(callLine, c) /\ c # q
    BY <1>t, RemainingIsWithout
  <2>3. /\ UNCHANGED slotLine /\ asking[q].pc \in {"shadow", "generating"}
        /\ \/ AfterShadow(q, Remaining(q))
           \/ callLine' = Remaining(q) /\ \E outcome \in {"ANSWERED", "INSUFFICIENT_EVIDENCE", "ERROR"} : Ends(q, outcome)
    BY <1>8 DEF ShadowTimesOut, GenerationTimesOut, Stands
  <2> QED BY <2>1, <2>2, <2>3, <1>6
<1>9. ASSUME NEW t \in Workforce, StrayReturns(t) PROVE HostedTypeOK'
  <2>1. ThreadsOK' /\ \A c \in Callers : Running(c)' <=> Running(c)
    BY <1>9, <1>t, CallReturns DEF StrayReturns, CallersAssumption
  <2> QED BY <1>9, <2>1 DEF StrayReturns, HostedTypeOK, ThreadsOK, Stands, Among, Once, Running
<1>11. ASSUME NEW t \in Workforce, OtherCall(t) PROVE HostedTypeOK'
  <2>1. /\ thread' \in [Workforce -> Callers \cup {Free, Stray}]
        /\ \A s \in Workforce : thread'[s] \in Callers => thread'[s] = thread[s]
        /\ \A s \in Workforce : thread[s] \in Callers => thread'[s] = thread[s]
    BY <1>11, <1>t DEF OtherCall, ThreadsOK, CallersAssumption
  <2>2. ThreadsOK' /\ \A c \in Callers : Running(c)' <=> Running(c)
    BY <2>1, <1>t DEF ThreadsOK, Running
  <2> QED BY <1>11, <2>2 DEF OtherCall, HostedTypeOK, ThreadsOK, Stands, Among, Once, Running
<1>10. CASE UNCHANGED hostedVars
  BY <1>10 DEF hostedVars, HostedTypeOK, Stands, Among, Once, Running
<1> QED BY <1>1, <1>2, <1>3, <1>4, <1>5, <1>7, <1>8, <1>9, <1>10, <1>11 DEF HostedNext

-----------------------------------------------------------------------------
(***************************************************************************)
(* The two limits.                                                         *)
(***************************************************************************)
WithinLimits ==
    Cardinality(Holding) <= InFlight /\ Cardinality(Connected) <= Connections

HostedIInv == HostedTypeOK /\ WithinLimits

LEMMA Counted ==
  ASSUME CallersAssumption
  PROVE  /\ IsFiniteSet(Holding) /\ Cardinality(Holding) \in Nat
         /\ IsFiniteSet(Connected) /\ Cardinality(Connected) \in Nat
BY FS_Subset, FS_CardinalityType DEF Holding, Connected, CallersAssumption

LEMMA HostedInitially ==
  ASSUME CallersAssumption, LimitsAssumption, HostedInit
  PROVE  HostedIInv
<1>1. HostedTypeOK
  BY DEF HostedInit, HostedTypeOK, CallersAssumption, NotAsking, AskingRecord, Once, Among,
         Stands, Running
<1>2. Holding = {} /\ Connected = {}
  BY DEF HostedInit, NotAsking, Holding, Connected
<1> QED BY <1>1, <1>2, FS_EmptySet DEF HostedIInv, WithinLimits, LimitsAssumption

\* Only Connect takes a connection, and only Admit takes a slot.
LEMMA LimitsInductive ==
  ASSUME CallersAssumption, LimitsAssumption, HostedIInv, HostedTypeOK', [HostedNext]_hostedVars
  PROVE  WithinLimits'
<1> USE DEF HostedIInv
<1>f. /\ IsFiniteSet(Holding) /\ Cardinality(Holding) \in Nat
      /\ IsFiniteSet(Connected) /\ Cardinality(Connected) \in Nat
      /\ InFlight \in Nat /\ Connections \in Nat
  BY Counted DEF LimitsAssumption
<1>g. IsFiniteSet(Callers) /\ Holding' \subseteq Callers /\ Connected' \subseteq Callers
  BY DEF CallersAssumption, Holding, Connected
<1>h. Cardinality(Holding') \in Nat /\ Cardinality(Connected') \in Nat
  BY <1>g, FS_Subset, FS_CardinalityType
<1>less. ASSUME Holding' \subseteq Holding PROVE Cardinality(Holding') <= InFlight
  <2>1. Cardinality(Holding') <= Cardinality(Holding)
    BY <1>less, <1>f, FS_Subset
  <2> QED BY <2>1, <1>f, <1>h DEF WithinLimits
<1>fewer. ASSUME Connected' \subseteq Connected PROVE Cardinality(Connected') <= Connections
  <2>1. Cardinality(Connected') <= Cardinality(Connected)
    BY <1>fewer, <1>f, FS_Subset
  <2> QED BY <2>1, <1>f, <1>h DEF WithinLimits
<1>t. asking \in [Callers -> AskingRecord]
  BY DEF HostedTypeOK
<1>1. ASSUME NEW q \in Callers, Connect(q) PROVE WithinLimits'
  <2>1. Holding' \subseteq Holding
    BY <1>1, <1>t DEF Connect, Holding
  <2>2. Connected' \subseteq Connected \cup {q}
    BY <1>1, <1>t DEF Connect, Connected
  <2>3. /\ IsFiniteSet(Connected \cup {q})
        /\ Cardinality(Connected \cup {q}) <= Cardinality(Connected) + 1
        /\ Cardinality(Connected \cup {q}) \in Nat
    <3>1. /\ IsFiniteSet(Connected \cup {q})
          /\ Cardinality(Connected \cup {q}) = IF q \in Connected THEN Cardinality(Connected)
                                                   ELSE Cardinality(Connected) + 1
      BY <1>f, FS_AddElement
    <3> QED BY <3>1, <1>f
  <2>4. Cardinality(Connected') <= Cardinality(Connected \cup {q})
    BY <2>2, <2>3, FS_Subset
  <2>5. Cardinality(Connected) < Connections
    BY <1>1 DEF Connect
  <2> QED BY <2>1, <2>3, <2>4, <2>5, <1>less, <1>f, <1>h DEF WithinLimits
<1>2. ASSUME NEW q \in Callers, Admit(q) PROVE WithinLimits'
  <2>1. asking[q].pc = "waiting"
    BY <1>2, LeaveLine DEF Admit, HostedTypeOK, Stands
  <2>2. Connected' \subseteq Connected
    BY <1>2, <2>1, <1>t DEF Admit, Connected
  <2>3. Holding' \subseteq Holding \cup {q}
    BY <1>2, <1>t DEF Admit, Holding
  <2>4. /\ IsFiniteSet(Holding \cup {q})
        /\ Cardinality(Holding \cup {q}) <= Cardinality(Holding) + 1
        /\ Cardinality(Holding \cup {q}) \in Nat
    <3>1. /\ IsFiniteSet(Holding \cup {q})
          /\ Cardinality(Holding \cup {q}) = IF q \in Holding THEN Cardinality(Holding)
                                                   ELSE Cardinality(Holding) + 1
      BY <1>f, FS_AddElement
    <3> QED BY <3>1, <1>f
  <2>5. Cardinality(Holding') <= Cardinality(Holding \cup {q})
    BY <2>3, <2>4, FS_Subset
  <2>6. Cardinality(Holding) < InFlight
    BY <1>2 DEF Admit
  <2> QED BY <2>2, <2>4, <2>5, <2>6, <1>fewer, <1>f, <1>h DEF WithinLimits
<1>3. ASSUME NEW q \in Callers,
             Ask(q) \/ NoConnection(q) \/ PackFails(q) \/ Abstain(q) \/ Pack(q) \/ Respond(q)
      PROVE  WithinLimits'
  <2>1. Holding' \subseteq Holding /\ Connected' \subseteq Connected
    <3>1. CASE Ask(q) \/ NoConnection(q) \/ Respond(q)
      BY <3>1, <1>t DEF Ask, NoConnection, Respond, NotAsking, Stands, Holding, Connected, AskingRecord
    <3>2. CASE PackFails(q) \/ Abstain(q)
      BY <3>2, <1>t DEF PackFails, Abstain, Ends, Stands, Holding, Connected, AskingRecord
    <3>3. CASE Pack(q)
      <4>1. /\ asking[q].pc = "packing"
            /\ \A c \in Callers \ {q} : asking'[c] = asking[c]
        BY <3>3, <1>t DEF Pack, Stands
      <4> QED BY <4>1 DEF Holding, Connected
    <3> QED BY <1>3, <3>1, <3>2, <3>3
  <2> QED BY <2>1, <1>less, <1>fewer DEF WithinLimits
<1>4. ASSUME NEW q \in Callers, asking[q].pc \in {"shadow", "generating"},
             \/ AfterShadow(q, callLine) \/ AfterShadow(q, Remaining(q))
             \/ \E outcome \in {"ANSWERED", "INSUFFICIENT_EVIDENCE", "ERROR"} : Ends(q, outcome)
      PROVE  WithinLimits'
  <2>1. Holding' \subseteq Holding /\ Connected' \subseteq Connected
    BY <1>4, <1>t DEF AfterShadow, Ends, Holding, Connected, AskingRecord
  <2> QED BY <2>1, <1>less, <1>fewer DEF WithinLimits
<1>5. ASSUME NEW q \in Callers,
             \/ \E t \in Workforce : Return(q, t)
             \/ ShadowTimesOut(q) \/ GenerationTimesOut(q)
      PROVE  WithinLimits'
  BY <1>5, <1>4 DEF Return, ShadowTimesOut, GenerationTimesOut, Stands
<1>6. ASSUME UNCHANGED asking PROVE WithinLimits'
  <2>1. Holding' = Holding /\ Connected' = Connected
    BY <1>6 DEF Holding, Connected
  <2> QED BY <2>1, <1>less, <1>fewer DEF WithinLimits
<1> QED BY <1>1, <1>2, <1>3, <1>5, <1>6 DEF HostedNext, StartCall, OtherCall, StrayReturns, hostedVars

LEMMA HostedAlways == HostedSpec => []HostedIInv
<1>1. HostedInit => HostedIInv
  BY HostedInitially, CallersAssumption, LimitsAssumption
<1>2. HostedIInv /\ [HostedNext]_hostedVars => HostedIInv'
  BY HostedTypeInductive, LimitsInductive, CallersAssumption, LimitsAssumption DEF HostedIInv
<1> QED BY <1>1, <1>2, PTL DEF HostedSpec

-----------------------------------------------------------------------------
\* The threads that are busy and not with a stray make the calls of different live
\* queries, and the one at the head of the line is live and not among them.
LEMMA LiveCallsAreFew ==
  ASSUME CallersAssumption, LimitsAssumption, HostedIInv, callLine # <<>>,
         \A t \in Workforce : thread[t] # Free,
         NEW Live, NEW limit \in Nat, IsFiniteSet(Live), Cardinality(Live) <= limit,
         \A q \in Callers : asking[q].pc \in {"shadow", "generating"} => q \in Live
  PROVE  Cardinality(Strays) + limit > Cardinality(Workforce)
<1> DEFINE first == Head(callLine)
           busy == Workforce \ Strays
           caller == [t \in busy |-> thread[t]]
<1>1. first \in Callers /\ Among(callLine, first)
  BY LeaveLine DEF HostedIInv, HostedTypeOK
<1>2. first \in Live /\ ~Running(first)
  BY <1>1 DEF HostedIInv, HostedTypeOK
<1>3. caller \in Injection(busy, Live \ {first})
  <2>1. ASSUME NEW t \in busy PROVE thread[t] \in Live \ {first}
    <3>1. thread[t] \in Callers /\ Running(thread[t])
      BY DEF HostedIInv, HostedTypeOK, Strays, Running
    <3>2. thread[t] \in Live
      BY <3>1 DEF HostedIInv, HostedTypeOK
    <3> QED BY <3>1, <3>2, <1>2
  <2>2. \A s, t \in busy : caller[s] = caller[t] => s = t
    <3>1. \A t \in busy : thread[t] \in Callers
      BY DEF HostedIInv, HostedTypeOK, Strays
    <3> QED BY <3>1 DEF HostedIInv, HostedTypeOK
  <2> QED BY <2>1, <2>2 DEF Injection, IsInjective
<1>4. /\ IsFiniteSet(Live \ {first}) /\ Cardinality(Live \ {first}) = Cardinality(Live) - 1
      /\ Cardinality(Live) \in Nat
  BY <1>2, FS_RemoveElement, FS_CardinalityType
<1>5. Cardinality(busy) <= Cardinality(Live \ {first})
  BY <1>3, <1>4, FS_Injection
<1>6. /\ Cardinality(busy) = Cardinality(Workforce) - Cardinality(Workforce \cap Strays)
      /\ IsFiniteSet(busy)
  BY FS_Difference DEF CallersAssumption
<1>7. Workforce \cap Strays = Strays
  BY DEF Strays
<1>8. Cardinality(Workforce) \in Nat /\ Cardinality(Strays) \in Nat
  <2>1. IsFiniteSet(Strays)
    BY FS_Subset DEF Strays, CallersAssumption
  <2> QED BY <2>1, FS_CardinalityType DEF CallersAssumption
<1>9. Cardinality(busy) \in Nat
  BY <1>6, FS_CardinalityType
<1>10. Cardinality(busy) = Cardinality(Workforce) - Cardinality(Strays)
  BY <1>6, <1>7
<1>11. Cardinality(busy) <= Cardinality(Live) - 1
  BY <1>4, <1>5
<1> HIDE DEF busy, first
<1> QED BY <1>4, <1>8, <1>9, <1>10, <1>11

LEMMA StraysHoldThreads == HostedIInv => HostedTypeOK /\ CallsWaitForStrays
<1> SUFFICES ASSUME HostedIInv, callLine # <<>>, \A t \in Workforce : thread[t] # Free
             PROVE  /\ Cardinality(Strays) + InFlight > Cardinality(Workforce)
                    /\ Cardinality(Strays) + Connections > Cardinality(Workforce)
  BY DEF HostedIInv, CallsWaitForStrays
<1>1. /\ IsFiniteSet(Holding) /\ Cardinality(Holding) <= InFlight /\ InFlight \in Nat
      /\ \A q \in Callers : asking[q].pc \in {"shadow", "generating"} => q \in Holding
  BY Counted, CallersAssumption, LimitsAssumption
     DEF HostedIInv, WithinLimits, Holding, LimitsAssumption
<1>2. /\ IsFiniteSet(Connected) /\ Cardinality(Connected) <= Connections /\ Connections \in Nat
      /\ \A q \in Callers : asking[q].pc \in {"shadow", "generating"} => q \in Connected
  BY Counted, CallersAssumption, LimitsAssumption
     DEF HostedIInv, WithinLimits, Connected, LimitsAssumption
<1> QED BY <1>1, <1>2, LiveCallsAreFew, CallersAssumption, LimitsAssumption

\* For every number of queries, threads, slots and connections: a call that finds no
\* free thread waits for calls that were given up, unless the threads were too few
\* for the slots, or for the connections, from the start.
THEOREM ThreadsAreHeldByStrays == HostedSpec => [](HostedTypeOK /\ CallsWaitForStrays)
BY StraysHoldThreads, HostedAlways, PTL

-----------------------------------------------------------------------------
(***************************************************************************)
(* Evaluation: the sums of gains.  Gained(ranks)[n] is the sum up to rank  *)
(* n; what holds at 0, and at each number if it does before it, holds of   *)
(* all of them.                                                            *)
(***************************************************************************)
Gained(ranks) ==
    CHOOSE sum : sum = [n \in 0..Len(Gain) |->
        IF n = 0 THEN 0 ELSE sum[n - 1] + IF n \in ranks THEN Gain[n] ELSE 0]

LEMMA GainsAreGained == \A ranks : Gains(ranks) = Gained(ranks)[Len(Gain)]
BY DEF Gains, Gained

GainsUp(sum, ranks) ==
    /\ sum \in [0..Len(Gain) -> Nat]
    /\ sum[0] = 0
    /\ \A n \in 1..Len(Gain) : sum[n] = sum[n - 1] + IF n \in ranks THEN Gain[n] ELSE 0

LEMMA GainsArePositive ==
    /\ Len(Gain) \in Nat
    /\ \A n \in 1..Len(Gain) : Gain[n] \in Nat /\ Gain[n] > 0
    /\ \A m, n \in 1..Len(Gain) : m < n => Gain[m] > Gain[n]
BY EvaluationAssumption

LEMMA GainedIsASum == \A ranks : GainsUp(Gained(ranks), ranks)
<1> SUFFICES ASSUME NEW ranks PROVE GainsUp(Gained(ranks), ranks)
  OBVIOUS
<1> DEFINE N == Len(Gain)
           Size(n) == IF n \in ranks THEN Gain[n] ELSE 0
           step == [z \in Nat \X (1..N) |-> z[1] + Size(z[2])]
           Next(f) == [n \in 0..N |-> IF n = 0 THEN 0 ELSE f[n - 1] + Size(n)]
<1>1. N \in Nat /\ \A n \in 1..N : Size(n) \in Nat
  BY GainsArePositive
<1>2. step \in [Nat \X (1..N) -> Nat]
  <2> HIDE DEF N, Size
  <2> QED BY <1>1
<1>3. PICK f \in [0..N -> Nat] : f[0] = 0 /\ \A k \in 1..N : f[k] = step[<<f[k - 1], k>>]
  <2> HIDE DEF N, step
  <2>1. 0 \in Nat /\ N \in Nat
    BY <1>1
  <2>2. \E f : SolvesIt(f, Nat, 0, N, step)
    BY <1>2, <2>1, Recursion, Zenon
  <2> QED BY <2>2 DEF SolvesIt
<1>4. ASSUME NEW k \in 1..N PROVE f[k] = f[k - 1] + Size(k)
  <2>1. f[k - 1] \in Nat
    <3> HIDE DEF N
    <3> QED BY <1>1, <1>3
  <2>2. step[<<f[k - 1], k>>] = f[k - 1] + Size(k)
    <3> HIDE DEF N, Size
    <3> QED BY <2>1
  <2> QED BY <1>3, <2>2
<1>5. f = Next(f)
  <2> HIDE DEF N, Size
  <2> QED BY <1>3, <1>4
<1>6. Gained(ranks) = CHOOSE g : g = Next(g)
  BY DEF Gained
<1>7. Gained(ranks) = Next(Gained(ranks))
  <2> HIDE DEF Next
  <2> QED BY <1>5, <1>6
<1>8. \A k \in 0..N : Gained(ranks)[k] = f[k]
  <2> DEFINE u == Gained(ranks)
  <2>1. u[0] = 0 /\ \A k \in 1..N : u[k] = u[k - 1] + Size(k)
    <3> HIDE DEF N, Size, u
    <3>1. u = Next(u)
      BY <1>7 DEF u
    <3> QED BY <1>1, <3>1
  <2>2. \A k \in 1..N : u[k - 1] = f[k - 1] => u[k] = f[k]
    <3> HIDE DEF N, Size, u
    <3> QED BY <1>4, <2>1
  <2> HIDE DEF N, Size, u
  <2>3. InStep(u, f, N)
    BY <1>3, <2>1, <2>2 DEF InStep
  <2>4. Agree(u, f, N)
    BY <1>1, <2>3, Agreement, Zenon
  <2> QED BY <2>4 DEF u, Agree
<1>9. Gained(ranks) = f
  <2>1. Gained(ranks) = [n \in 0..N |-> Gained(ranks)[n]]
    <3> HIDE DEF N, Size
    <3> QED BY <1>7
  <2> HIDE DEF N
  <2> QED BY <1>3, <1>8, <2>1
<1> QED BY <1>3, <1>4, <1>9 DEF GainsUp

\* Induction over the ranks, with the set of those for which something holds.
LEMMA Climb ==
    ASSUME NEW n \in Nat, NEW P, 0 \in P, \A k \in 1..n : k - 1 \in P => k \in P
    PROVE  \A k \in 0..n : k \in P
<1> DEFINE Out == {k \in 0..n : k \notin P}
<1>1. SUFFICES ASSUME Out # {} PROVE FALSE
  OBVIOUS
<1>2. PICK m \in Out : \A k \in Out : m <= k
  <2>1. Out \subseteq Nat
    OBVIOUS
  <2> HIDE DEF Out
  <2> QED BY <1>1, <2>1, Least
<1>3. m \in 1..n /\ m - 1 \in 0..n /\ ~(m <= m - 1)
  OBVIOUS
<1>4. m - 1 \in P
  BY <1>2, <1>3
<1> QED BY <1>3, <1>4

\* A sum of gains is a number, and nought if there is nothing to add.
LEMMA GainsVanish ==
    ASSUME NEW ranks \in SUBSET (1..Len(Gain))
    PROVE  Gains(ranks) \in Nat /\ (Gains(ranks) = 0 <=> ranks = {})
<1> DEFINE N == Len(Gain)
           sum == Gained(ranks)
           Size(n) == IF n \in ranks THEN Gain[n] ELSE 0
<1>1. /\ sum \in [0..N -> Nat] /\ sum[0] = 0 /\ \A n \in 1..N : sum[n] = sum[n - 1] + Size(n)
  BY GainedIsASum DEF GainsUp
<1>2. N \in Nat /\ \A n \in 1..N : Size(n) \in Nat /\ (n \in ranks => Size(n) > 0)
  BY GainsArePositive
<1>3. Gains(ranks) = sum[N]
  BY GainsAreGained
<1>4. ASSUME ranks = {} PROVE sum[N] = 0
  <2>1. \A n \in 1..N : Size(n) = 0
    BY <1>4
  <2> HIDE DEF N, sum, Size
  <2> DEFINE P == {k \in 0..N : sum[k] = 0}
  <2>2. 0 \in P /\ \A k \in 1..N : k - 1 \in P => k \in P
    BY <1>1, <1>2, <2>1
  <2>3. \A k \in 0..N : k \in P
    <3> HIDE DEF P
    <3> QED BY <1>2, <2>2, Climb
  <2> QED BY <1>2, <2>3
<1>5. ASSUME NEW r \in ranks PROVE sum[N] > 0
  <2>1. r \in 1..N
    OBVIOUS
  <2> HIDE DEF N, sum, Size
  <2> DEFINE P == {k \in 0..N : k >= r => sum[k] > 0}
  <2>2. 0 \in P
    BY <1>2, <2>1
  <2>3. ASSUME NEW k \in 1..N, k - 1 \in P PROVE k \in P
    <3>1. sum[k] = sum[k - 1] + Size(k) /\ sum[k - 1] \in Nat /\ Size(k) \in Nat
      BY <1>1, <1>2
    <3>2. CASE k > r
      BY <1>2, <2>1, <2>3, <3>1, <3>2
    <3>3. CASE k = r
      BY <1>2, <2>1, <3>1, <3>3
    <3>4. CASE k < r
      BY <1>2, <2>1, <3>4
    <3> QED BY <1>2, <2>1, <3>2, <3>3, <3>4
  <2>4. \A k \in 0..N : k \in P
    <3> HIDE DEF P
    <3> QED BY <1>2, <2>2, <2>3, Climb
  <2> QED BY <1>2, <2>1, <2>4
<1>6. sum[N] \in Nat
  <2> HIDE DEF N, sum
  <2> QED BY <1>1, <1>2
<1> HIDE DEF N, sum
<1> QED BY <1>3, <1>4, <1>5, <1>6

\* A relevant chunk that moves up by one place gains.
LEMMA GainsExchange ==
    ASSUME NEW ranks, NEW i \in 1..Len(Gain), i + 1 \in 1..Len(Gain),
           i \notin ranks, i + 1 \in ranks
    PROVE  Gains(ranks) <= Gains((ranks \ {i + 1}) \cup {i})
<1> DEFINE N == Len(Gain)
           moved == (ranks \ {i + 1}) \cup {i}
           sum == Gained(ranks)
           more == Gained(moved)
           Lead(k) == IF k < i THEN 0 ELSE IF k = i THEN Gain[i] ELSE Gain[i] - Gain[i + 1]
           P == {k \in 0..N : more[k] = sum[k] + Lead(k)}
<1>1. /\ sum \in [0..N -> Nat] /\ sum[0] = 0
      /\ \A n \in 1..N : sum[n] = sum[n - 1] + IF n \in ranks THEN Gain[n] ELSE 0
  BY GainedIsASum DEF GainsUp
<1>2. /\ more \in [0..N -> Nat] /\ more[0] = 0
      /\ \A n \in 1..N : more[n] = more[n - 1] + IF n \in moved THEN Gain[n] ELSE 0
  BY GainedIsASum DEF GainsUp
<1>3. /\ N \in Nat /\ i \in 1..N /\ i + 1 \in 1..N /\ Gain[i] \in Nat /\ Gain[i + 1] \in Nat
      /\ Gain[i] > Gain[i + 1] /\ \A n \in 1..N : Gain[n] \in Nat
  BY GainsArePositive
<1>4. Gains(ranks) = sum[N] /\ Gains(moved) = more[N]
  BY GainsAreGained
<1> HIDE DEF N, sum, more
<1>5. 0 \in P
  BY <1>1, <1>2, <1>3
<1>6. ASSUME NEW k \in 1..N, k - 1 \in P PROVE k \in P
  <2>1. /\ more[k - 1] = sum[k - 1] + Lead(k - 1) /\ sum[k - 1] \in Nat
        /\ k \in 0..N /\ k - 1 \in Nat /\ Gain[k] \in Nat
    BY <1>1, <1>3, <1>6
  <2>2. CASE k = i
    <3>1. k \in moved /\ k \notin ranks /\ Lead(k) = Gain[i] /\ Lead(k - 1) = 0
      BY <1>3, <2>1, <2>2
    <3>2. more[k] = more[k - 1] + Gain[i] /\ sum[k] = sum[k - 1] + 0
      BY <1>1, <1>2, <2>2, <3>1
    <3> QED BY <1>3, <2>1, <3>1, <3>2
  <2>3. CASE k = i + 1
    <3>1. /\ more[k] = more[k - 1] /\ sum[k] = sum[k - 1] + Gain[i + 1]
          /\ Lead(k - 1) = Gain[i] /\ Lead(k) = Gain[i] - Gain[i + 1]
      <4>1. k \notin moved /\ k \in ranks /\ k - 1 = i /\ ~(k < i) /\ k # i
        BY <1>3, <2>3
      <4>2. more[k - 1] \in Nat
        BY <1>2, <1>3, <2>1
      <4> QED BY <1>1, <1>2, <1>3, <2>3, <4>1, <4>2
    <3> QED BY <1>3, <2>1, <3>1
  <2>4. CASE k # i /\ k # i + 1
    <3>1. Lead(k) = Lead(k - 1) /\ (k \in moved <=> k \in ranks)
      BY <1>3, <2>1, <2>4
    <3>2. /\ more[k] = more[k - 1] + IF k \in ranks THEN Gain[k] ELSE 0
          /\ sum[k] = sum[k - 1] + IF k \in ranks THEN Gain[k] ELSE 0
      BY <1>1, <1>2, <3>1
    <3>3. Lead(k) \in Int
      BY <1>3
    <3> DEFINE g == IF k \in ranks THEN Gain[k] ELSE 0
               lead == Lead(k)
    <3>4. g \in Nat
      BY <2>1
    <3> HIDE DEF g, lead
    <3>5. more[k] = sum[k - 1] + lead + g /\ sum[k] = sum[k - 1] + g
      BY <2>1, <3>1, <3>2 DEF g, lead
    <3>6. more[k] = sum[k] + lead
      BY <2>1, <3>3, <3>4, <3>5 DEF lead
    <3> QED BY <2>1, <3>6 DEF lead
  <2> QED BY <2>2, <2>3, <2>4
<1>7. N \in P
  <2>1. \A k \in 0..N : k \in P
    <3> HIDE DEF P
    <3> QED BY <1>3, <1>5, <1>6, Climb
  <2> QED BY <1>3, <2>1
<1>8. sum[N] \in Nat
  BY <1>1, <1>3
<1> QED BY <1>3, <1>4, <1>7, <1>8

\* The first m ranks gain what all ranks have gained after m of them.
LEMMA FirstGains ==
    ASSUME NEW m \in 0..Len(Gain)
    PROVE  Gains(1..m) = Gained(1..Len(Gain))[m]
<1> DEFINE N == Len(Gain)
           first == Gained(1..m)
           all == Gained(1..N)
           P == {k \in 0..N : first[k] = IF k <= m THEN all[k] ELSE all[m]}
<1>1. /\ first \in [0..N -> Nat] /\ first[0] = 0
      /\ \A n \in 1..N : first[n] = first[n - 1] + IF n \in 1..m THEN Gain[n] ELSE 0
  BY GainedIsASum DEF GainsUp
<1>2. /\ all \in [0..N -> Nat] /\ all[0] = 0
      /\ \A n \in 1..N : all[n] = all[n - 1] + IF n \in 1..N THEN Gain[n] ELSE 0
  BY GainedIsASum DEF GainsUp
<1>3. N \in Nat /\ m \in 0..N /\ \A n \in 1..N : Gain[n] \in Nat
  BY GainsArePositive
<1>4. Gains(1..m) = first[N]
  BY GainsAreGained
<1> HIDE DEF N, first, all
<1>5. 0 \in P
  BY <1>1, <1>2, <1>3
<1>6. ASSUME NEW k \in 1..N, k - 1 \in P PROVE k \in P
  <2>1. /\ first[k - 1] = IF k - 1 <= m THEN all[k - 1] ELSE all[m]
        /\ first[k - 1] \in Nat /\ all[k] = all[k - 1] + Gain[k]
        /\ k \in Nat /\ k - 1 \in Nat /\ k \in 0..N
    BY <1>1, <1>2, <1>3, <1>6
  <2>2. CASE k <= m
    <3>1. k \in 1..m /\ k - 1 <= m
      BY <1>3, <2>1, <2>2
    <3>2. first[k] = first[k - 1] + Gain[k]
      BY <1>1, <3>1
    <3> QED BY <2>1, <2>2, <3>1, <3>2
  <2>3. CASE ~(k <= m)
    <3>1. k \notin 1..m /\ (k - 1 <= m => k - 1 = m)
      BY <1>3, <2>1, <2>3
    <3>2. first[k] = first[k - 1] + 0
      BY <1>1, <3>1
    <3> QED BY <2>1, <2>3, <3>1, <3>2
  <2> QED BY <2>2, <2>3
<1>7. N \in P
  <2>1. \A k \in 0..N : k \in P
    <3> HIDE DEF P
    <3> QED BY <1>3, <1>5, <1>6, Climb
  <2> QED BY <1>3, <2>1
<1>8. first[N] = all[m]
  BY <1>3, <1>7
<1> QED BY <1>4, <1>8 DEF all, N

\* More ranks gain more.
LEMMA GainsGrow ==
    ASSUME NEW x \in 0..Len(Gain), NEW y \in 0..Len(Gain), x < y
    PROVE  Gained(1..Len(Gain))[x] < Gained(1..Len(Gain))[y]
<1> DEFINE N == Len(Gain)
           all == Gained(1..N)
           P == {k \in 0..N : k > x => all[x] < all[k]}
<1>1. /\ all \in [0..N -> Nat]
      /\ \A n \in 1..N : all[n] = all[n - 1] + IF n \in 1..N THEN Gain[n] ELSE 0
  BY GainedIsASum DEF GainsUp
<1>2. /\ N \in Nat /\ x \in 0..N /\ y \in 0..N
      /\ \A n \in 1..N : Gain[n] \in Nat /\ Gain[n] > 0
  BY GainsArePositive
<1> HIDE DEF N, all
<1>3. 0 \in P
  BY <1>2
<1>4. ASSUME NEW k \in 1..N, k - 1 \in P PROVE k \in P
  <2>1. /\ all[k] = all[k - 1] + Gain[k] /\ Gain[k] > 0 /\ Gain[k] \in Nat
        /\ all[k - 1] \in Nat /\ all[x] \in Nat /\ k \in 0..N /\ k \in Nat /\ x \in Nat
        /\ k - 1 \in 0..N
    BY <1>1, <1>2
  <2>2. k > x => k - 1 = x \/ k - 1 > x
    BY <2>1
  <2> QED BY <1>4, <2>1, <2>2
<1>5. \A k \in 0..N : k \in P
  <2> HIDE DEF P
  <2> QED BY <1>2, <1>3, <1>4, Climb
<1>6. all[x] < all[y]
  BY <1>2, <1>5
<1> QED BY <1>6 DEF all, N

\* Of all sets of at most m ranks, the first m gain most, and no other as much.
LEMMA IdealIsBest ==
    ASSUME NEW ranks \in SUBSET (1..Len(Gain)), NEW m \in 0..Len(Gain),
           Cardinality(ranks) <= m
    PROVE  /\ Gains(ranks) <= Gains(1..m)
           /\ Gains(ranks) = Gains(1..m) <=> ranks = 1..m
<1> DEFINE N == Len(Gain)
           sum == Gained(ranks)
           all == Gained(1..N)
           Found(k) == ranks \cap 1..k
           C(k) == Cardinality(Found(k))
           P == {k \in 0..N : /\ sum[k] <= all[C(k)]
                              /\ sum[k] = all[C(k)] => Found(k) = 1..C(k)}
<1>1. /\ sum \in [0..N -> Nat] /\ sum[0] = 0
      /\ \A n \in 1..N : sum[n] = sum[n - 1] + IF n \in ranks THEN Gain[n] ELSE 0
  BY GainedIsASum DEF GainsUp
<1>2. /\ all \in [0..N -> Nat] /\ all[0] = 0
      /\ \A n \in 1..N : all[n] = all[n - 1] + IF n \in 1..N THEN Gain[n] ELSE 0
  BY GainedIsASum DEF GainsUp
<1>3. /\ N \in Nat /\ \A n \in 1..N : Gain[n] \in Nat /\ Gain[n] > 0
      /\ \A j, n \in 1..N : j < n => Gain[j] > Gain[n]
  BY GainsArePositive
<1>4. Gains(ranks) = sum[N] /\ Gains(1..m) = all[m]
  BY GainsAreGained, FirstGains
<1>5. ranks \subseteq 1..N /\ m \in 0..N
  OBVIOUS
<1>6. \A x, y \in 0..N : x < y => all[x] < all[y]
  BY GainsGrow
<1> HIDE DEF N, sum, all
<1>7. ASSUME NEW k \in 0..N
      PROVE  IsFiniteSet(Found(k)) /\ C(k) \in 0..k /\ k \in Nat
  <2>1. k \in Nat /\ k \in Int /\ 1 \in Int
    BY <1>3
  <2>2. IsFiniteSet(1..k) /\ Cardinality(1..k) = IF 1 > k THEN 0 ELSE k - 1 + 1
    BY <2>1, FS_Interval
  <2>3. Found(k) \in SUBSET (1..k)
    OBVIOUS
  <2>4. IsFiniteSet(Found(k)) /\ Cardinality(Found(k)) <= Cardinality(1..k)
    BY <2>2, <2>3, FS_Subset
  <2>5. Cardinality(Found(k)) \in Nat
    BY <2>4, FS_CardinalityType
  <2> QED BY <2>1, <2>2, <2>4, <2>5
<1>8. 0 \in P
  <2>1. 0 \in 0..N /\ Found(0) = {} /\ 1..0 = {}
    BY <1>3
  <2>2. C(0) = 0
    BY <2>1, FS_EmptySet
  <2> QED BY <1>1, <1>2, <2>1, <2>2
<1>9. ASSUME NEW k \in 1..N, k - 1 \in P PROVE k \in P
  <2>1. k \in 0..N /\ k - 1 \in 0..N /\ k \in Nat /\ k \notin Found(k - 1)
    BY <1>3
  <2>2. C(k - 1) \in 0..(k - 1) /\ IsFiniteSet(Found(k - 1))
    BY <1>7, <2>1
  <2>3. /\ sum[k - 1] <= all[C(k - 1)] /\ sum[k - 1] \in Nat
        /\ sum[k - 1] = all[C(k - 1)] => Found(k - 1) = 1..C(k - 1)
    BY <1>1, <1>9, <2>1
  <2>4. CASE k \in ranks
    <3>1. Found(k) = Found(k - 1) \cup {k}
      BY <1>5, <2>1, <2>4
    <3>2. C(k) = C(k - 1) + 1
      <4> HIDE DEF Found
      <4> QED BY <2>1, <2>2, <3>1, FS_AddElement
    <3> DEFINE c == C(k)
    <3>3. c \in 1..N /\ c - 1 = C(k - 1) /\ c <= k
      <4> HIDE DEF C
      <4> QED BY <1>3, <2>1, <2>2, <3>2
    <3>4. all[c] = all[c - 1] + Gain[c] /\ all[c - 1] \in Nat /\ sum[k] = sum[k - 1] + Gain[k]
      <4>1. c - 1 \in 0..N
        <5> HIDE DEF c, C
        <5> QED BY <1>3, <3>3
      <4> HIDE DEF c
      <4> QED BY <1>1, <1>2, <2>4, <3>3, <4>1
    <3>5. Gain[k] <= Gain[c] /\ (Gain[k] = Gain[c] => k = c) /\ Gain[k] \in Nat /\ Gain[c] \in Nat
      <4> HIDE DEF c
      <4>1. c < k \/ c = k
        BY <2>1, <3>3, <1>3
      <4> QED BY <1>3, <3>3, <4>1
    <3>6. sum[k] <= all[c] /\ (sum[k] = all[c] => k = c /\ sum[k - 1] = all[c - 1])
      <4> DEFINE s == sum[k - 1]
                 t == all[c - 1]
                 g == Gain[k]
                 h == Gain[c]
      <4>1. s \in Nat /\ t \in Nat /\ g \in Nat /\ h \in Nat /\ s <= t /\ g <= h
        BY <2>3, <3>3, <3>4, <3>5
      <4>2. s + g <= t + h /\ (s + g = t + h => s = t /\ g = h)
        <5> HIDE DEF s, t, g, h
        <5> QED BY <4>1
      <4> QED BY <3>4, <3>5, <4>2
    <3>7. sum[k] = all[c] => Found(k) = 1..c
      <4>1. SUFFICES ASSUME sum[k] = all[c] PROVE Found(k) = 1..c
        OBVIOUS
      <4>2. k = c /\ Found(k - 1) = 1..(k - 1)
        BY <2>3, <3>3, <3>6, <4>1
      <4>3. 1..k = 1..(k - 1) \cup {k}
        BY <2>1, <1>3
      <4> QED BY <3>1, <4>2, <4>3
    <3> QED BY <2>1, <3>6, <3>7
  <2>5. CASE k \notin ranks
    <3>1. Found(k) = Found(k - 1)
      BY <1>5, <2>1, <2>5
    <3>2. sum[k] = sum[k - 1]
      BY <1>1, <2>3, <2>5
    <3> QED BY <2>1, <2>3, <3>1, <3>2
  <2> QED BY <2>4, <2>5
<1>10. N \in P
  <2>1. \A k \in 0..N : k \in P
    <3> HIDE DEF P
    <3> QED BY <1>3, <1>8, <1>9, Climb
  <2> QED BY <1>3, <2>1
<1> DEFINE c == Cardinality(ranks)
<1>11. Found(N) = ranks /\ C(N) = c
  BY <1>5
<1>12. sum[N] <= all[c] /\ (sum[N] = all[c] => ranks = 1..c) /\ c \in 0..N
  <2>1. N \in 0..N
    BY <1>3
  <2> QED BY <1>7, <1>10, <1>11, <2>1
<1>13. c <= m
  OBVIOUS
<1> HIDE DEF c, Found, C, P
<1>14. all[c] <= all[m] /\ (all[c] = all[m] => c = m)
       /\ all[c] \in Nat /\ all[m] \in Nat /\ sum[N] \in Nat
  <2>1. c < m \/ c = m
    BY <1>3, <1>5, <1>12, <1>13
  <2>2. all[c] \in Nat /\ all[m] \in Nat /\ sum[N] \in Nat
    BY <1>1, <1>2, <1>3, <1>5, <1>12
  <2> QED BY <1>5, <1>6, <1>12, <2>1, <2>2
<1>15. sum[N] <= all[m] /\ (sum[N] = all[m] => ranks = 1..m)
  <2>1. sum[N] = all[m] => sum[N] = all[c] /\ all[c] = all[m]
    BY <1>12, <1>14
  <2> QED BY <1>12, <1>14, <2>1
<1> QED BY <1>4, <1>15

-----------------------------------------------------------------------------
(***************************************************************************)
(* Evaluation: the tallies of the report add up and its metrics agree, for *)
(* any datasets and any configuration, and whatever the rankers and the    *)
(* shadow decision say.                                                    *)
(***************************************************************************)
\* What is retrieved: chunks of the corpus, each once, and not more than are fused.
Ranking(s) == s \in Seq(Corpus) /\ IsInjective(s) /\ Len(s) <= FusedTopK

ReportInv ==
    /\ dataset \in Seq(Case) /\ evaluated \in Nat
    /\ setting.decisioner \in BOOLEAN
    /\ Ranking(last.retrieved) /\ last.relevant \subseteq Corpus
    /\ tally \in [Counters -> Nat]
    /\ TalliesAddUp

LEMMA PrefixTyped ==
    ASSUME NEW S, NEW s \in Seq(S), NEW n \in Nat
    PROVE  Prefix(s, n) \in Seq(S)
BY DEF Prefix

LEMMA CorpusIsFinite ==
    /\ IsFiniteSet(Corpus) /\ Corpus \subseteq ChunkId
    /\ Cardinality(Corpus) = CorpusSize /\ CorpusSize \in Nat
<1> DEFINE chunkNumbers == 1..CorpusSize
<1>1. CorpusSize \in Nat
  BY EvaluationAssumption
<1>2. IsFiniteSet(chunkNumbers) /\ Cardinality(chunkNumbers) = CorpusSize
  BY <1>1, FS_Interval
<1>3. chunkNumbers \subseteq Nat
  BY <1>1
<1>4. IsFiniteSet({1}) /\ Cardinality({1}) = 1
  BY FS_Singleton
<1>5. Corpus = {1} \X chunkNumbers
  BY DEF Corpus
<1> HIDE DEF chunkNumbers
<1>6. IsFiniteSet(Corpus) /\ Cardinality(Corpus) = 1 * CorpusSize
  BY <1>2, <1>4, <1>5, FS_Product
<1>7. Corpus \subseteq ChunkId
  <2>1. \A S, T \in SUBSET Nat : S \X T \subseteq Nat \X Nat
    OBVIOUS
  <2>2. {1} \in SUBSET Nat
    OBVIOUS
  <2> QED BY <1>3, <1>5, <2>1, <2>2 DEF ChunkId
<1> QED BY <1>1, <1>6, <1>7

LEMMA RetrievedIsRanking ==
    ASSUME NEW fused \in Retrievals
    PROVE  Ranking(fused)
<1>1. PICK dense \in Results(setting.config.dense), sparse \in Results(setting.config.sparse) :
        fused = Fuse(dense, sparse)
  BY DEF Retrievals
<1>2. dense \in Seq(Corpus) /\ sparse \in Seq(Corpus)
  BY CorpusIsFinite, HitsTyped DEF Results
<1>3. dense \in Seq(ChunkId) /\ sparse \in Seq(ChunkId)
  BY <1>2, CorpusIsFinite, SequencesGrow
<1> DEFINE C == Candidates(dense, sparse)
           place == Place(dense, sparse)
<1>4. C \subseteq Corpus /\ Cardinality(C) \in Nat
  BY <1>2, CandidatesAreRanked, CandidatesAreFinite, FS_CardinalityType
<1>5. /\ fused \in Seq(C) /\ Len(fused) = Min({FusedTopK, Cardinality(C)})
      /\ \A i \in 1..Len(fused) : place[fused[i]] = i
  BY <1>1, <1>3, FusedIsSorted
<1> HIDE DEF C, place
<1>6. Len(fused) <= FusedTopK
  <2> DEFINE n == Cardinality(C)
  <2>1. n \in Nat /\ FusedTopK \in Nat
    BY <1>4, AnsweringAssumption
  <2>2. Min({FusedTopK, n}) = IF n < FusedTopK THEN n ELSE FusedTopK
    <3> HIDE DEF n
    <3> QED BY <2>1, MinOfTwo
  <2> HIDE DEF n
  <2>3. (IF n < FusedTopK THEN n ELSE FusedTopK) <= FusedTopK
    BY <2>1
  <2> QED BY <1>5, <2>2, <2>3 DEF n
<1>7. IsInjective(fused)
  BY <1>5 DEF IsInjective
<1> QED BY <1>4, <1>5, <1>6, <1>7, SequencesGrow DEF Ranking

\* The ranks of the relevant chunks of a ranking, and how many there may be.
LEMMA HitsAreCounted ==
    ASSUME NEW retrieved, Ranking(retrieved), NEW relevant \in SUBSET Corpus, relevant # {}
    PROVE  LET hits == HitRanks(retrieved, relevant, FusedTopK)
               ideal == Min({FusedTopK, Cardinality(relevant)})
           IN /\ hits = {i \in 1..Len(retrieved) : retrieved[i] \in relevant}
              /\ hits = HitRanks(retrieved, relevant, Len(retrieved))
              /\ hits \in SUBSET (1..Len(Gain)) /\ Len(retrieved) <= Len(Gain)
              /\ Cardinality(hits) \in Nat /\ (Cardinality(hits) = 0 <=> hits = {})
              /\ Cardinality(relevant) \in Nat \ {0}
              /\ Cardinality(hits) <= Cardinality(relevant)
              /\ ideal \in 1..Len(Gain) /\ Cardinality(hits) <= ideal
<1> DEFINE hits == HitRanks(retrieved, relevant, FusedTopK)
           N == Len(retrieved)
           c == Cardinality(relevant)
           h == Cardinality(hits)
<1>1. /\ N \in Nat /\ N <= FusedTopK /\ FusedTopK \in Nat /\ FusedTopK >= 1
      /\ DOMAIN retrieved = 1..N /\ retrieved \in [1..N -> Corpus]
  BY AnsweringAssumption DEF Ranking
<1>2. /\ hits = {i \in 1..N : retrieved[i] \in relevant}
      /\ hits = HitRanks(retrieved, relevant, N)
  <2> HIDE DEF N
  <2> QED BY <1>1 DEF HitRanks
<1>3. Len(Gain) \in Nat /\ CorpusSize <= Len(Gain)
  BY EvaluationAssumption
<1>4. IsFiniteSet(1..N) /\ Cardinality(1..N) = N
  <2> HIDE DEF N
  <2>1. 1 \in Int /\ N \in Int
    BY <1>1
  <2>2. IsFiniteSet(1..N) /\ Cardinality(1..N) = IF 1 > N THEN 0 ELSE N - 1 + 1
    BY <2>1, FS_Interval
  <2> QED BY <1>1, <2>2
<1>5. N <= CorpusSize
  <2>1. retrieved \in Injection(1..N, Corpus)
    <3> HIDE DEF N
    <3> QED BY <1>1 DEF Ranking, Injection, IsInjective
  <2>2. Cardinality(1..N) <= Cardinality(Corpus)
    BY <2>1, CorpusIsFinite, FS_Injection
  <2> QED BY <1>4, <2>2, CorpusIsFinite
<1>6. IsFiniteSet(relevant) /\ c \in Nat /\ c # 0 /\ c <= CorpusSize
  <2>1. IsFiniteSet(relevant) /\ c <= CorpusSize
    BY CorpusIsFinite, FS_Subset
  <2> QED BY <2>1, FS_CardinalityType, FS_EmptySet
<1>7. IsFiniteSet(hits) /\ h <= N /\ h \in Nat /\ (h = 0 <=> hits = {})
  <2>1. hits \in SUBSET (1..N)
    BY <1>2
  <2> HIDE DEF hits
  <2>2. IsFiniteSet(hits) /\ h <= N
    BY <1>4, <2>1, FS_Subset
  <2> QED BY <2>2, FS_CardinalityType, FS_EmptySet
<1>8. h <= c
  <2> DEFINE found == [i \in hits |-> retrieved[i]]
  <2>1. found \in [hits -> relevant]
    BY <1>2
  <2>2. \A i, j \in hits : found[i] = found[j] => i = j
    <3> HIDE DEF N, hits
    <3> QED BY <1>1, <1>2 DEF Ranking, IsInjective
  <2>3. found \in Injection(hits, relevant)
    <3> HIDE DEF found, hits
    <3> QED BY <2>1, <2>2 DEF Injection, IsInjective
  <2> HIDE DEF found, hits
  <2> QED BY <1>6, <2>3, FS_Injection
<1> DEFINE ideal == Min({FusedTopK, c})
<1>9. ideal = IF c < FusedTopK THEN c ELSE FusedTopK
  BY <1>1, <1>6, MinOfTwo
<1>10. /\ hits \in SUBSET (1..Len(Gain)) /\ N <= Len(Gain)
       /\ ideal \in 1..Len(Gain) /\ h <= ideal
  <2> HIDE DEF ideal, h, c, N
  <2>1. N <= Len(Gain) /\ c <= Len(Gain)
    BY <1>1, <1>3, <1>5, <1>6, CorpusIsFinite
  <2>2. hits \in SUBSET (1..Len(Gain))
    BY <1>1, <1>2, <1>3, <2>1
  <2>3. ideal \in 1..Len(Gain) /\ h <= ideal
    <3> HIDE DEF hits
    <3> QED BY <1>1, <1>3, <1>6, <1>7, <1>8, <1>9, <2>1
  <2> QED BY <2>1, <2>2, <2>3
<1> QED BY <1>2, <1>6, <1>7, <1>8, <1>10

\* A relevant chunk that is moved up by one place is the one hit that moves.
LEMMA HitMovesUp ==
    ASSUME NEW retrieved, Ranking(retrieved), NEW relevant \in SUBSET Corpus, relevant # {},
           NEW i \in 1..(Len(retrieved) - 1),
           retrieved[i + 1] \in relevant, retrieved[i] \notin relevant
    PROVE  LET better == [retrieved EXCEPT ![i] = retrieved[i + 1], ![i + 1] = retrieved[i]]
               hits == HitRanks(retrieved, relevant, FusedTopK)
           IN /\ Ranking(better)
              /\ i \notin hits /\ i + 1 \in hits /\ i \in Nat
              /\ HitRanks(better, relevant, FusedTopK) = (hits \ {i + 1}) \cup {i}
<1> DEFINE better == [retrieved EXCEPT ![i] = retrieved[i + 1], ![i + 1] = retrieved[i]]
           N == Len(retrieved)
           hits == HitRanks(retrieved, relevant, FusedTopK)
<1>1. /\ retrieved \in [1..N -> Corpus] /\ N \in Nat /\ N <= FusedTopK
      /\ i \in 1..N /\ i + 1 \in 1..N /\ i # i + 1
      /\ \A j, k \in 1..N : retrieved[j] = retrieved[k] => j = k
  BY DEF Ranking, IsInjective
<1>2. /\ better \in [1..N -> Corpus]
      /\ better[i] = retrieved[i + 1] /\ better[i + 1] = retrieved[i]
      /\ \A j \in 1..N : j # i /\ j # i + 1 => better[j] = retrieved[j]
  <2> HIDE DEF N
  <2> QED BY <1>1
<1>3. better \in Seq(Corpus) /\ Len(better) = N
  <2> HIDE DEF better, N
  <2> QED BY <1>1, <1>2
<1>4. Ranking(better)
  <2>1. \A j, k \in 1..N : better[j] = better[k] => j = k
    <3> HIDE DEF better, N
    <3> QED BY <1>1, <1>2
  <2>2. DOMAIN better = 1..N
    BY <1>2
  <2> HIDE DEF better, N
  <2> QED BY <1>1, <1>3, <2>1, <2>2 DEF Ranking, IsInjective
<1>5. hits = {j \in 1..N : retrieved[j] \in relevant}
  BY HitsAreCounted
<1>6. HitRanks(better, relevant, FusedTopK) = {j \in 1..N : better[j] \in relevant}
  <2> HIDE DEF better
  <2> QED BY <1>3, <1>4, HitsAreCounted
<1> HIDE DEF better, hits, N
<1>7. {j \in 1..N : better[j] \in relevant} = (hits \ {i + 1}) \cup {i}
  <2>1. i \notin hits /\ i + 1 \in hits /\ better[i] \in relevant /\ better[i + 1] \notin relevant
    BY <1>1, <1>2, <1>5
  <2>2. \A j \in 1..N : j # i /\ j # i + 1 => (better[j] \in relevant <=> j \in hits)
    BY <1>2, <1>5
  <2>3. hits \subseteq 1..N
    BY <1>5
  <2>4. ASSUME NEW j
        PROVE  j \in {k \in 1..N : better[k] \in relevant} <=> j \in (hits \ {i + 1}) \cup {i}
    <3>1. CASE j = i
      BY <1>1, <2>1, <3>1
    <3>2. CASE j = i + 1
      BY <1>1, <2>1, <3>2
    <3>3. CASE j # i /\ j # i + 1
      BY <2>2, <2>3, <3>3
    <3> QED BY <3>1, <3>2, <3>3
  <2> QED BY <2>4
<1>8. i \notin hits /\ i + 1 \in hits /\ i \in Nat
  BY <1>1, <1>5
<1>9. HitRanks(better, relevant, FusedTopK) = (hits \ {i + 1}) \cup {i}
  BY <1>6, <1>7
<1> QED BY <1>4, <1>8, <1>9 DEF better, hits

\* The least rank of the hits of a ranking.
LEMMA FirstHit ==
    ASSUME NEW hits \in SUBSET Nat, NEW more \in SUBSET Nat, hits # {}, more # {},
           NEW i \in more, more = (hits \ {i + 1}) \cup {i}, i + 1 \in hits
    PROVE  Min(hits) \in Nat /\ Min(more) \in Nat /\ Min(more) <= Min(hits)
<1>1. Min(hits) \in hits /\ Min(more) \in more /\ \A y \in more : Min(more) <= y
  BY MinIsLeast
<1>2. CASE Min(hits) = i + 1
  <2>1. Min(more) <= i /\ Min(more) \in Nat /\ i \in Nat
    BY <1>1
  <2>2. \A m, n \in Nat : m <= n => m <= n + 1
    OBVIOUS
  <2>3. Min(more) <= i + 1 /\ i + 1 \in Nat
    BY <2>1, <2>2
  <2> QED BY <1>2, <2>1, <2>3, Zenon
<1>3. CASE Min(hits) # i + 1
  BY <1>1, <1>3
<1> QED BY <1>1, <1>2, <1>3

\* The metrics of every ranking agree, for any corpus, gains and limit.
LEMMA RankingsAgree ==
    ASSUME Ranking(last.retrieved), last.relevant \in SUBSET Corpus
    PROVE  MetricsAgree
<1> DEFINE retrieved == last.retrieved
           relevant == last.relevant
           K == FusedTopK
           hits == HitRanks(retrieved, relevant, K)
           h == Cardinality(hits)
           c == Cardinality(relevant)
           ideal == Min({K, c})
           recall == RecallAtK(retrieved, relevant, K)
           ndcg == NdcgAtK(retrieved, relevant, K)
           mrr == Mrr(retrieved, relevant)
           better(i) == [retrieved EXCEPT ![i] = retrieved[i + 1], ![i + 1] = retrieved[i]]
<1>1. SUFFICES ASSUME relevant # {}
      PROVE  /\ \A x \in {recall, ndcg, mrr} : 0 <= x[1] /\ x[1] <= x[2]
             /\ (recall[1] = 0) = (ndcg[1] = 0)
             /\ (recall[1] = 0) = (mrr[1] = 0)
             /\ ndcg[1] = ndcg[2] <=> hits = 1..ideal
             /\ \A i \in 1..(Len(retrieved) - 1) :
                  retrieved[i + 1] \in relevant /\ retrieved[i] \notin relevant =>
                    /\ NotAbove(recall, RecallAtK(better(i), relevant, K))
                    /\ NotAbove(ndcg, NdcgAtK(better(i), relevant, K))
                    /\ NotAbove(mrr, Mrr(better(i), relevant))
  BY Zenon DEF MetricsAgree
<1>2. /\ hits = {i \in 1..Len(retrieved) : retrieved[i] \in relevant}
      /\ hits = HitRanks(retrieved, relevant, Len(retrieved))
      /\ hits \in SUBSET (1..Len(Gain)) /\ Len(retrieved) <= Len(Gain)
      /\ h \in Nat /\ (h = 0 <=> hits = {})
      /\ c \in Nat \ {0} /\ h <= c
      /\ ideal \in 1..Len(Gain) /\ h <= ideal
  BY <1>1, HitsAreCounted
<1>3. recall = <<h, c>>
  BY <1>1 DEF RecallAtK
<1>4. ndcg = <<Gains(hits), Gains(1..ideal)>>
  BY <1>1 DEF NdcgAtK
<1>5. mrr = IF hits = {} THEN <<0, 1>> ELSE <<1, Min(hits)>>
  BY <1>2 DEF Mrr
<1>6. /\ Gains(hits) \in Nat /\ (Gains(hits) = 0 <=> hits = {})
      /\ Gains(1..ideal) \in Nat
      /\ Gains(hits) <= Gains(1..ideal)
      /\ Gains(hits) = Gains(1..ideal) <=> hits = 1..ideal
  <2>1. Len(Gain) \in Nat
    BY GainsArePositive
  <2>2. ideal \in 0..Len(Gain) /\ 1..ideal \in SUBSET (1..Len(Gain))
    <3> HIDE DEF ideal
    <3> QED BY <1>2, <2>1
  <2> HIDE DEF hits, ideal, h
  <2>3. Cardinality(hits) <= ideal
    BY <1>2 DEF h
  <2> QED BY <1>2, <2>2, <2>3, GainsVanish, IdealIsBest
<1>7. hits # {} => Min(hits) \in Nat /\ Min(hits) >= 1
  <2> HIDE DEF hits
  <2>1. hits \subseteq Nat /\ \A x \in hits : x \in Nat /\ x >= 1
    BY <1>2, GainsArePositive
  <2> QED BY <2>1, MinIsLeast
<1>8. ASSUME NEW i \in 1..(Len(retrieved) - 1),
             retrieved[i + 1] \in relevant, retrieved[i] \notin relevant
      PROVE  /\ NotAbove(recall, RecallAtK(better(i), relevant, K))
             /\ NotAbove(ndcg, NdcgAtK(better(i), relevant, K))
             /\ NotAbove(mrr, Mrr(better(i), relevant))
  <2> DEFINE up == better(i)
             more == HitRanks(up, relevant, K)
  <2>1. /\ Ranking(up) /\ i \notin hits /\ i + 1 \in hits /\ i \in Nat
        /\ more = (hits \ {i + 1}) \cup {i}
    BY <1>1, <1>8, HitMovesUp
  <2> HIDE DEF up
  <2>2. /\ more = HitRanks(up, relevant, Len(up)) /\ more \in SUBSET (1..Len(Gain))
    BY <1>1, <2>1, HitsAreCounted
  <2> HIDE DEF more
  <2>3. Cardinality(more) = h
    <3>1. IsFiniteSet(hits) /\ IsFiniteSet(hits \ {i + 1})
      <4>1. IsFiniteSet(1..Len(Gain))
        BY GainsArePositive, FS_Interval
      <4>2. IsFiniteSet(hits)
        <5> HIDE DEF hits
        <5> QED BY <1>2, <4>1, FS_Subset
      <4> HIDE DEF hits
      <4> QED BY <4>2, FS_RemoveElement
    <3> HIDE DEF hits
    <3>2. Cardinality(hits \ {i + 1}) = h - 1
      BY <2>1, <3>1, FS_RemoveElement DEF h
    <3> DEFINE rest == hits \ {i + 1}
    <3>3. Cardinality(rest \cup {i}) = (h - 1) + 1
      <4>1. i \notin rest /\ IsFiniteSet(rest) /\ Cardinality(rest) = h - 1
        BY <2>1, <3>1, <3>2
      <4> HIDE DEF rest, h
      <4> QED BY <4>1, FS_AddElement
    <3>4. (h - 1) + 1 = h
      <4>1. h \in Nat
        BY <1>2
      <4> HIDE DEF h
      <4> QED BY <4>1
    <3> HIDE DEF h
    <3> QED BY <2>1, <3>3, <3>4
  <2>4. NotAbove(recall, RecallAtK(up, relevant, K))
    <3>1. RecallAtK(up, relevant, K) = <<h, c>>
      BY <1>1, <2>3 DEF RecallAtK, more
    <3>2. h * c \in Nat
      <4> HIDE DEF h, c
      <4> QED BY <1>2
    <3>3. h * c <= h * c
      <4> DEFINE product == h * c
      <4> HIDE DEF product
      <4> QED BY <3>2 DEF product
    <3> HIDE DEF recall, h, c
    <3> QED BY <1>3, <3>1, <3>3 DEF NotAbove
  <2>5. NotAbove(ndcg, NdcgAtK(up, relevant, K))
    <3>1. NdcgAtK(up, relevant, K) = <<Gains(more), Gains(1..ideal)>>
      BY <1>1 DEF NdcgAtK, more
    <3>2. Gains(hits) <= Gains(more) /\ Gains(more) \in Nat
      <4>1. i \in 1..Len(Gain) /\ i + 1 \in 1..Len(Gain)
        <5> HIDE DEF hits, more
        <5> QED BY <1>2, <2>1, <2>2
      <4> HIDE DEF hits, more
      <4> QED BY <2>1, <2>2, <4>1, GainsExchange, GainsVanish
    <3> DEFINE x == Gains(hits)
               y == Gains(more)
               d == Gains(1..ideal)
    <3>3. x * d <= y * d
      <4>1. x \in Nat /\ y \in Nat /\ d \in Nat /\ x <= y
        BY <1>6, <3>2
      <4> HIDE DEF x, y, d
      <4> QED BY <4>1
    <3> HIDE DEF x, y, d
    <3>4. ndcg = <<x, d>> /\ NdcgAtK(up, relevant, K) = <<y, d>>
      BY <1>4, <3>1 DEF x, y, d
    <3> HIDE DEF ndcg
    <3> QED BY <3>3, <3>4 DEF NotAbove
  <2>6. NotAbove(mrr, Mrr(up, relevant))
    <3>1. Mrr(up, relevant) = <<1, Min(more)>>
      BY <2>1, <2>2 DEF Mrr
    <3>2. mrr = <<1, Min(hits)>>
      BY <1>5, <2>1
    <3>3. Min(hits) \in Nat /\ Min(more) \in Nat /\ Min(more) <= Min(hits)
      <4>1. hits \in SUBSET Nat /\ more \in SUBSET Nat /\ hits # {} /\ more # {} /\ i \in more
        <5> HIDE DEF hits
        <5> QED BY <1>2, <2>1, <2>2, GainsArePositive
      <4> HIDE DEF hits
      <4> QED BY <2>1, <4>1, FirstHit
    <3> HIDE DEF mrr
    <3> QED BY <3>1, <3>2, <3>3 DEF NotAbove
  <2> QED BY <2>4, <2>5, <2>6 DEF up
<1>9. \A x \in {recall, ndcg, mrr} : 0 <= x[1] /\ x[1] <= x[2]
  <2> HIDE DEF recall, ndcg, mrr, h, c, hits, ideal
  <2>1. 0 <= recall[1] /\ recall[1] <= recall[2]
    BY <1>2, <1>3
  <2>2. 0 <= ndcg[1] /\ ndcg[1] <= ndcg[2]
    BY <1>4, <1>6
  <2>3. 0 <= mrr[1] /\ mrr[1] <= mrr[2]
    BY <1>5, <1>7
  <2> QED BY <2>1, <2>2, <2>3
<1>10. /\ (recall[1] = 0) = (ndcg[1] = 0)
       /\ (recall[1] = 0) = (mrr[1] = 0)
       /\ ndcg[1] = ndcg[2] <=> hits = 1..ideal
  <2> HIDE DEF recall, ndcg, mrr, h, c, hits, ideal
  <2>1. recall[1] = 0 <=> hits = {}
    BY <1>2, <1>3
  <2>2. ndcg[1] = 0 <=> hits = {}
    BY <1>4, <1>6
  <2>3. mrr[1] = 0 <=> hits = {}
    BY <1>5
  <2>4. ndcg[1] = Gains(hits) /\ ndcg[2] = Gains(1..ideal)
    BY <1>4
  <2> QED BY <1>6, <2>1, <2>2, <2>3, <2>4
<1> HIDE DEF recall, ndcg, mrr, hits, ideal, better
<1> QED BY <1>8, <1>9, <1>10

\* What the reranker makes of what is retrieved are chunks of the corpus.
LEMMA RerankedTyped ==
    ASSUME NEW fused \in Retrievals, NEW ranked \in Reranked(fused)
    PROVE  ranked \in Seq(Corpus)
<1>4. fused \in Seq(Corpus)
  BY RetrievedIsRanking DEF Ranking
<1>5. RerankTopN \in Nat
  BY AnsweringAssumption
<1>6. CASE setting.config.rerank
  <2>1. PICK order \in SetToSeqs(ToSet(fused)) : ranked = Prefix(order, RerankTopN)
    BY <1>6 DEF Reranked
  <2>2. ToSet(fused) \subseteq Corpus /\ Cardinality(ToSet(fused)) \in Nat
    BY <1>4, SequencesAreFinite, FS_CardinalityType DEF ToSet
  <2>3. order \in [1..Cardinality(ToSet(fused)) -> ToSet(fused)]
    BY <2>1 DEF SetToSeqs
  <2>4. order \in Seq(ToSet(fused))
    BY <2>2, <2>3
  <2>5. order \in Seq(Corpus)
    BY <2>2, <2>4, SequencesGrow
  <2> QED BY <1>5, <2>1, <2>5, PrefixTyped
<1>7. CASE ~setting.config.rerank
  BY <1>4, <1>5, <1>7, PrefixTyped DEF Reranked
<1> QED BY <1>6, <1>7

\* The heuristic generator cites nothing that the validation refuses.
LEMMA HeuristicIsValid ==
    ASSUME NEW ranked \in Seq(Corpus), NEW quoted \in SUBSET DOMAIN Evidence(ranked)
    PROVE  ValidCitations(HeuristicAnswer(quoted).status, HeuristicAnswer(quoted).claims,
                          Evidence(ranked), {1})
<1> DEFINE evidence == Evidence(ranked)
<1>1. evidence \in Seq(Corpus)
  <2>1. PacksUp(Packed(ranked), Corpus, ranked)
    BY PackedIsALoop
  <2>2. Len(ranked) \in 0..Len(ranked)
    OBVIOUS
  <2> QED BY <2>1, <2>2, EvidenceIsPacked DEF PacksUp
<1> HIDE DEF evidence
<1>2. \A i \in DOMAIN evidence : evidence[i][1] = 1
  BY <1>1 DEF Corpus
<1>3. quoted \subseteq DOMAIN evidence
  BY DEF evidence
<1>4. ValidCitations(HeuristicAnswer(quoted).status, HeuristicAnswer(quoted).claims, evidence, {1})
  <2>1. CASE quoted = {}
    BY <2>1 DEF HeuristicAnswer, ValidCitations, Referenced
  <2>2. CASE quoted # {}
    <3>1. HeuristicAnswer(quoted) = [status |-> "ANSWERED", claims |-> {quoted}]
      BY <2>2 DEF HeuristicAnswer
    <3>2. UNION {quoted} = quoted
      OBVIOUS
    <3> QED BY <1>2, <1>3, <2>2, <3>1, <3>2 DEF ValidCitations, Referenced
  <2> QED BY <2>1, <2>2
<1> QED BY <1>4 DEF evidence

\* What one case adds to the counters, if its citations are valid.
LEMMA CaseCounts ==
    ASSUME NEW case \in Case, NEW shadow \in {"yes", "no", "failed", "none"},
           NEW quoted
    PROVE  LET shadowed == CountShadow(case, shadow)
               answered == CountAnswer(case, HeuristicAnswer(quoted), TRUE)
           IN /\ DOMAIN shadowed = {"agreements", "false_answer", "abstention", "failures"}
              /\ DOMAIN answered = {"citation_ok", "abstained", "abstained_correct",
                                    "unanswerable", "answered_unanswerable"}
              /\ shadowed \in [DOMAIN shadowed -> 0..1] /\ answered \in [DOMAIN answered -> 0..1]
              /\ shadowed["agreements"] + shadowed["false_answer"] + shadowed["abstention"]
                   + shadowed["failures"] = IF shadow = "none" THEN 0 ELSE 1
              /\ answered["abstained_correct"] + answered["answered_unanswerable"]
                   = answered["unanswerable"]
              /\ answered["abstained_correct"] <= answered["abstained"]
              /\ answered["citation_ok"] = 1
<1>1. case.answerable \in BOOLEAN
  BY DEF Case
<1>2. HeuristicAnswer(quoted).status \in {"INSUFFICIENT_EVIDENCE", "ANSWERED"}
  BY DEF HeuristicAnswer
<1>3. If(TRUE) = 1 /\ If(FALSE) = 0
  BY DEF If
<1> QED BY <1>1, <1>2, <1>3 DEF CountShadow, CountAnswer, If

LEMMA NothingIsRanking == Ranking(<<>>)
BY AnsweringAssumption DEF Ranking, IsInjective

LEMMA ReportInitially == EvaluationInit => ReportInv
BY EvaluationAssumption, NothingIsRanking DEF EvaluationInit, ReportInv, TalliesAddUp, Counters

\* The tally of a case.
Counts(ranked, quoted, shadow) ==
    LET case == dataset[evaluated + 1]
        answer == HeuristicAnswer(quoted)
        valid == ValidCitations(answer.status, answer.claims, Evidence(ranked), {1})
        shadowed == CountShadow(case, shadow)
        answered == CountAnswer(case, answer, valid)
    IN tally' = [counter \in Counters |->
                  tally[counter] + IF counter \in DOMAIN shadowed THEN shadowed[counter]
                                                                 ELSE answered[counter]]

LEMMA ReportInductive == ReportInv /\ [EvaluationNext]_evaluationVars => ReportInv'
<1> SUFFICES ASSUME ReportInv, [EvaluationNext]_evaluationVars PROVE ReportInv'
  OBVIOUS
<1>1. CASE UNCHANGED evaluationVars
  BY <1>1 DEF evaluationVars, ReportInv, TalliesAddUp, Ranking
<1>2. CASE EvaluateCase
  <2>a. PICK fused \in Retrievals :
           \E ranked \in Reranked(fused) :
           \E quoted \in SUBSET DOMAIN Evidence(ranked),
              shadow \in IF setting.decisioner THEN {"yes", "no", "failed"} ELSE {"none"} :
             /\ Counts(ranked, quoted, shadow)
             /\ last' = [retrieved |-> fused, relevant |-> dataset[evaluated + 1].relevant]
    BY <1>2 DEF EvaluateCase, Counts
  <2>b. PICK ranked \in Reranked(fused) :
           \E quoted \in SUBSET DOMAIN Evidence(ranked),
              shadow \in IF setting.decisioner THEN {"yes", "no", "failed"} ELSE {"none"} :
             /\ Counts(ranked, quoted, shadow)
             /\ last' = [retrieved |-> fused, relevant |-> dataset[evaluated + 1].relevant]
    BY <2>a
  <2>1. PICK quoted \in SUBSET DOMAIN Evidence(ranked),
             shadow \in IF setting.decisioner THEN {"yes", "no", "failed"} ELSE {"none"} :
          /\ Counts(ranked, quoted, shadow)
          /\ last' = [retrieved |-> fused, relevant |-> dataset[evaluated + 1].relevant]
    BY <2>b
  <2> DEFINE case == dataset[evaluated + 1]
             answer == HeuristicAnswer(quoted)
             shadowed == CountShadow(case, shadow)
             answered == CountAnswer(case, answer, TRUE)
  <2>2. case \in Case
    BY <1>2 DEF EvaluateCase, ReportInv
  <2>3. ValidCitations(answer.status, answer.claims, Evidence(ranked), {1}) = TRUE
    BY RerankedTyped, HeuristicIsValid DEF ValidCitations
  <2>4. tally' = [counter \in Counters |->
                   tally[counter] + IF counter \in DOMAIN shadowed THEN shadowed[counter]
                                                                  ELSE answered[counter]]
    BY <2>1, <2>3 DEF Counts
  <2>5. /\ shadow \in {"yes", "no", "failed", "none"}
        /\ shadow = "none" <=> ~setting.decisioner
    OBVIOUS
  <2>6. /\ DOMAIN shadowed = {"agreements", "false_answer", "abstention", "failures"}
        /\ DOMAIN answered = {"citation_ok", "abstained", "abstained_correct",
                              "unanswerable", "answered_unanswerable"}
        /\ shadowed \in [DOMAIN shadowed -> 0..1] /\ answered \in [DOMAIN answered -> 0..1]
        /\ shadowed["agreements"] + shadowed["false_answer"] + shadowed["abstention"]
             + shadowed["failures"] = IF shadow = "none" THEN 0 ELSE 1
        /\ answered["abstained_correct"] + answered["answered_unanswerable"]
             = answered["unanswerable"]
        /\ answered["abstained_correct"] <= answered["abstained"]
        /\ answered["citation_ok"] = 1
    BY <2>2, <2>5, CaseCounts
  <2>7. evaluated' = evaluated + 1 /\ setting' = setting /\ dataset' = dataset
    BY <1>2 DEF EvaluateCase
  <2> HIDE DEF shadowed, answered, answer, case
  <2>8. /\ tally \in [Counters -> Nat]
        /\ Counters = DOMAIN shadowed \cup DOMAIN answered
        /\ DOMAIN shadowed \cap DOMAIN answered = {}
    BY <2>6 DEF ReportInv, Counters
  <2>9. \A counter \in Counters : /\ counter \in DOMAIN shadowed =>
                                       tally'[counter] = tally[counter] + shadowed[counter]
                                  /\ counter \in DOMAIN answered =>
                                       tally'[counter] = tally[counter] + answered[counter]
    BY <2>4, <2>8
  <2>10. tally' \in [Counters -> Nat]
    BY <2>4, <2>6, <2>8
  <2>11. TalliesAddUp'
    <3>1. /\ tally'["agreements"] = tally["agreements"] + shadowed["agreements"]
          /\ tally'["false_answer"] = tally["false_answer"] + shadowed["false_answer"]
          /\ tally'["abstention"] = tally["abstention"] + shadowed["abstention"]
          /\ tally'["failures"] = tally["failures"] + shadowed["failures"]
      BY <2>6, <2>8, <2>9
    <3>2. /\ tally'["abstained_correct"] = tally["abstained_correct"] + answered["abstained_correct"]
          /\ tally'["answered_unanswerable"]
               = tally["answered_unanswerable"] + answered["answered_unanswerable"]
          /\ tally'["unanswerable"] = tally["unanswerable"] + answered["unanswerable"]
          /\ tally'["abstained"] = tally["abstained"] + answered["abstained"]
          /\ tally'["citation_ok"] = tally["citation_ok"] + answered["citation_ok"]
      BY <2>6, <2>8, <2>9
    <3>3. /\ \A counter \in DOMAIN shadowed : tally[counter] \in Nat /\ shadowed[counter] \in Nat
          /\ \A counter \in DOMAIN answered : tally[counter] \in Nat /\ answered[counter] \in Nat
      BY <2>6, <2>8
    <3>4. TalliesAddUp /\ evaluated \in Nat
      BY DEF ReportInv
    <3>5. /\ tally["agreements"] + tally["false_answer"] + tally["abstention"] + tally["failures"]
               = IF setting.decisioner THEN evaluated ELSE 0
          /\ tally["abstained_correct"] + tally["answered_unanswerable"] = tally["unanswerable"]
          /\ tally["abstained_correct"] <= tally["abstained"]
          /\ tally["citation_ok"] = evaluated
      BY <3>4 DEF TalliesAddUp
    <3>6. tally'["agreements"] + tally'["false_answer"] + tally'["abstention"] + tally'["failures"]
            = IF setting.decisioner THEN evaluated + 1 ELSE 0
      <4>1. /\ {tally["agreements"], tally["false_answer"], tally["abstention"],
                 tally["failures"]} \subseteq Nat
            /\ {shadowed["agreements"], shadowed["false_answer"], shadowed["abstention"],
                 shadowed["failures"]} \subseteq Nat
        BY <2>6, <3>3
      <4>2. shadowed["agreements"] + shadowed["false_answer"] + shadowed["abstention"]
              + shadowed["failures"] = IF setting.decisioner THEN 1 ELSE 0
        BY <2>5, <2>6
      <4>3. \A a, b, c, d, e, f, g, h \in Nat :
               (a + e) + (b + f) + (c + g) + (d + h) = (a + b + c + d) + (e + f + g + h)
        OBVIOUS
      <4>4. tally'["agreements"] + tally'["false_answer"] + tally'["abstention"]
              + tally'["failures"]
              = (tally["agreements"] + tally["false_answer"] + tally["abstention"]
                  + tally["failures"])
                + (shadowed["agreements"] + shadowed["false_answer"] + shadowed["abstention"]
                    + shadowed["failures"])
        BY <3>1, <4>1, <4>3
      <4> QED BY <3>4, <3>5, <4>2, <4>4
    <3>7. /\ tally'["abstained_correct"] + tally'["answered_unanswerable"] = tally'["unanswerable"]
          /\ tally'["abstained_correct"] <= tally'["abstained"]
          /\ tally'["citation_ok"] = evaluated + 1
      <4>1. /\ {tally["abstained_correct"], tally["answered_unanswerable"],
                 tally["unanswerable"], tally["abstained"], tally["citation_ok"]} \subseteq Nat
            /\ {answered["abstained_correct"], answered["answered_unanswerable"],
                 answered["unanswerable"], answered["abstained"], answered["citation_ok"]}
                 \subseteq Nat
        BY <2>6, <3>3
      <4> QED BY <2>6, <3>2, <3>4, <3>5, <4>1
    <3> QED BY <2>7, <3>6, <3>7 DEF TalliesAddUp
  <2>12. Ranking(last.retrieved)' /\ last'.relevant \subseteq Corpus
    <3>1. last' = [retrieved |-> fused, relevant |-> case.relevant]
      BY <2>1 DEF case
    <3>2. case.relevant \subseteq Corpus
      BY <2>2 DEF Case, Corpus
    <3>3. Ranking(fused)
      BY RetrievedIsRanking
    <3> QED BY <3>1, <3>2, <3>3 DEF Ranking
  <2> QED BY <2>7, <2>10, <2>11, <2>12 DEF ReportInv
<1> QED BY <1>1, <1>2 DEF EvaluationNext, Reported

\* A report is right however many cases, chunks and gains there are: every case is
\* counted once, what the heuristic generator cites always passes the validation,
\* and recall, mrr and ndcg of every ranking agree.
THEOREM ReportsAreSound == EvaluationSpec => []ReportIsSound
<1>1. ReportInv => ReportIsSound
  BY RankingsAgree DEF ReportInv, ReportIsSound
<1> QED BY <1>1, ReportInitially, ReportInductive, PTL DEF EvaluationSpec

-----------------------------------------------------------------------------
(***************************************************************************)
(* The parts together.  They share nothing: each keeps its invariant if a  *)
(* behaviour is of it, and the others stay as they began.                  *)
(***************************************************************************)
PartsInv ==
    /\ IF part = "chunker" THEN IInv ELSE ChunkerIdle
    /\ IF part = "schema" THEN SchemaIInv ELSE SchemaIdle
    /\ IF part = "principals" THEN PrincipalsIInv ELSE PrincipalsIdle
    /\ HostedIInv /\ ReportInv

LEMMA PartsInitially == PartsInit => PartsInv
<1>1. HostedInit => HostedIInv
  BY HostedInitially, CallersAssumption, LimitsAssumption
<1>2. PrincipalsInit => PrincipalsIInv
  BY PrincipalsInitially, ClientsAssumption
<1>3. EvaluationIdle => ReportInv
  BY NothingIsRanking DEF EvaluationIdle, ReportInv, TalliesAddUp, Counters
<1> QED BY <1>1, <1>2, <1>3, InitIInv, SchemaInitially, ReportInitially DEF PartsInit, PartsInv

LEMMA PartsInductive == PartsInv /\ [PartsNext]_partsVars => PartsInv'
<1> SUFFICES ASSUME PartsInv, [PartsNext]_partsVars PROVE PartsInv'
  OBVIOUS
<1>1. /\ part' = part
      /\ IF part = "chunker" THEN [ChunkerNext]_chunkerVars ELSE UNCHANGED chunkerVars
      /\ IF part = "schema" THEN [SchemaNext]_schemaVars ELSE UNCHANGED schemaVars
      /\ IF part = "principals" THEN [PrincipalsNext]_principalVars ELSE UNCHANGED principalVars
      /\ [HostedNext]_hostedVars /\ [EvaluationNext]_evaluationVars
  BY DEF PartsNext, partsVars
<1>2. IF part = "chunker" THEN IInv' ELSE ChunkerIdle'
  BY <1>1, NextIInv DEF PartsInv, ChunkerIdle, chunkerVars
<1>3. IF part = "schema" THEN SchemaIInv' ELSE SchemaIdle'
  BY <1>1, SchemaInductive DEF PartsInv, SchemaIdle, schemaVars
<1>4. IF part = "principals" THEN PrincipalsIInv' ELSE PrincipalsIdle'
  BY <1>1, PrincipalsInductive DEF PartsInv, PrincipalsIdle, principalVars
<1>5. HostedIInv'
  BY <1>1, HostedTypeInductive, LimitsInductive, CallersAssumption, LimitsAssumption
     DEF PartsInv, HostedIInv
<1>6. ReportInv'
  BY <1>1, ReportInductive DEF PartsInv
<1> QED BY <1>1, <1>2, <1>3, <1>4, <1>5, <1>6 DEF PartsInv

LEMMA PartsOwe ==
    ASSUME PartsInv
    PROVE  /\ PartsTypeOK /\ NothingIsLost /\ ChunksFit /\ ReadingOrder
           /\ IndexedIsWhole /\ RaceCostsOneAttempt /\ FirstRequestsAreServed
           /\ CallsWaitForStrays /\ ReportIsSound
<1>1. ChunkerTypeOK /\ NothingIsLost /\ ChunksFit /\ ReadingOrder
  <2>1. CASE IInv
    BY <2>1 DEF IInv
  <2>2. CASE ChunkerIdle
    BY <2>2 DEF ChunkerIdle, ChunkerTypeOK, NothingIsLost, ChunksFit, ReadingOrder, NoPage
  <2> QED BY <2>1, <2>2 DEF PartsInv
<1>2. SchemaTypeOK /\ IndexedIsWhole /\ RaceCostsOneAttempt
  <2>1. CASE SchemaIInv
    BY <2>1 DEF SchemaIInv
  <2>2. CASE SchemaIdle
    BY <2>2, SchemaAssumption DEF SchemaIdle, SchemaTypeOK, IndexedIsWhole, RaceCostsOneAttempt,
       Waiting, IngestionRecord, In, Lost
  <2> QED BY <2>1, <2>2 DEF PartsInv
<1>3. PrincipalsTypeOK /\ FirstRequestsAreServed
  <2>1. CASE PrincipalsIInv
    BY <2>1 DEF PrincipalsIInv
  <2>2. CASE PrincipalsIdle
    BY <2>2 DEF PrincipalsIdle, PrincipalsTypeOK, FirstRequestsAreServed, IdleClient,
       ClientRecord, Routes, Has
  <2> QED BY <2>1, <2>2 DEF PartsInv
<1>4. HostedTypeOK /\ CallsWaitForStrays
  BY StraysHoldThreads DEF PartsInv
<1>5. ReportIsSound
  BY RankingsAgree DEF PartsInv, ReportInv, ReportIsSound
<1> QED BY <1>1, <1>2, <1>3, <1>4, <1>5 DEF PartsTypeOK

\* What is proved of each part holds of them in the behaviours that are of it, and
\* in those that are of another one.
THEOREM PartsKeepTheirs ==
    PartsSpec => [](/\ PartsTypeOK /\ NothingIsLost /\ ChunksFit /\ ReadingOrder
                    /\ IndexedIsWhole /\ RaceCostsOneAttempt /\ FirstRequestsAreServed
                    /\ CallsWaitForStrays /\ ReportIsSound)
BY PartsInitially, PartsInductive, PartsOwe, PTL DEF PartsSpec

\* In these behaviours, too, every window advances.
THEOREM PartsAdvance == PartsSpec => WindowsAdvance
<1>1. PartsInv /\ [PartsNext]_partsVars => [Advance]_chunkerVars
  <2>1. [PartsNext]_partsVars => UNCHANGED chunkerVars \/ (part = "chunker" /\ ChunkerNext)
    BY DEF PartsNext, partsVars
  <2>2. PartsInv /\ part = "chunker" => IInv
    BY DEF PartsInv
  <2> QED BY <2>1, <2>2, WindowStep
<1> QED BY <1>1, PartsInitially, PartsInductive, PTL DEF PartsSpec, WindowsAdvance, Advance
=============================================================================
