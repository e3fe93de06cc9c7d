------------------------------- MODULE MCParts -------------------------------
(***************************************************************************)
(* The parts that share no state with the rest of the system nor with each *)
(* other, in one model: a behaviour is of one of them, and the others stay *)
(* as they began.                                                          *)
(***************************************************************************)
EXTENDS Chunker, IndexSchema, Principals, Evaluation, HostedCalls

CONSTANT Chars

VARIABLE part

partsVars == <<part, chunkerVars, schemaVars, principalVars, evaluationVars, hostedVars>>

(***************************************************************************)
(* Every document of two pages with Chars characters in all.               *)
(***************************************************************************)
Texts(k) == [1..k -> Char]

MCDocuments ==
    UNION {{<<first, second>> : first \in Texts(k), second \in Texts(Chars - k)} : k \in 0..Chars}

(***************************************************************************)
(* Three ingestions, the last by a worker with another dimension; a        *)
(* collection that is absent, whole, half done by an earlier run, of one   *)
(* vector only, or with a wrong index.                                     *)
(***************************************************************************)
MCDimension == [w \in Ingestions |-> IF w = 3 THEN 16 ELSE 8]

MCExisting ==
    {Absent} \cup
    {[exists |-> TRUE, vectors |-> v, dimension |-> 8, index |-> i] :
        v \in BOOLEAN, i \in [Fields -> {"missing", "right", "wrong"}]}

(***************************************************************************)
(* One case of every kind, and two that can and cannot be answered.        *)
(***************************************************************************)
MCDatasets ==
    {<<case>> : case \in Case} \cup
    {<<[answerable |-> a, relevant |-> {<<1, 1>>}], [answerable |-> b, relevant |-> {}]>> :
        a, b \in BOOLEAN}

OneToken == [chunk \in 1..CorpusSize |-> 1]
MCGain == <<1000, 631, 500>>

-----------------------------------------------------------------------------
\* The values of the parts that a behaviour is not about.
ChunkerIdle ==
    doc = <<>> /\ todo = {} /\ page = NoPage /\ start = 0 /\ stop = 0 /\ chunks = <<>>
SchemaIdle ==
    collection = Absent /\ callFaults = 0
    /\ ingestion = [w \in Ingestions |-> [Waiting EXCEPT !.pc = "exhausted"]]
PrincipalsIdle ==
    principal = FALSE /\ inserter = Nobody /\ owned = {} /\ client = [c \in Clients |-> IdleClient]
EvaluationIdle ==
    /\ dataset = <<>> /\ evaluated = 0 /\ last = [retrieved |-> <<>>, relevant |-> {}]
    /\ setting = [config |-> [dense |-> TRUE, sparse |-> TRUE, rerank |-> TRUE],
                  decisioner |-> FALSE]
    /\ tally = [counter \in Counters |-> 0]

PartsInit ==
    \/ part = "chunker" /\ ChunkerInit /\ SchemaIdle /\ PrincipalsIdle /\ EvaluationIdle /\ HostedInit
    \/ part = "schema" /\ SchemaInit /\ ChunkerIdle /\ PrincipalsIdle /\ EvaluationIdle /\ HostedInit
    \/ part = "principals" /\ PrincipalsInit /\ ChunkerIdle /\ SchemaIdle /\ EvaluationIdle /\ HostedInit
    \/ part = "evaluation" /\ EvaluationInit /\ ChunkerIdle /\ SchemaIdle /\ PrincipalsIdle /\ HostedInit
    \/ part = "hosted" /\ HostedInit /\ ChunkerIdle /\ SchemaIdle /\ PrincipalsIdle /\ EvaluationIdle

PartsNext ==
    /\ UNCHANGED part
    /\ \/ /\ part = "chunker" /\ ChunkerNext
          /\ UNCHANGED <<schemaVars, principalVars, evaluationVars, hostedVars>>
       \/ /\ part = "schema" /\ SchemaNext
          /\ UNCHANGED <<chunkerVars, principalVars, evaluationVars, hostedVars>>
       \/ /\ part = "principals" /\ PrincipalsNext
          /\ UNCHANGED <<chunkerVars, schemaVars, evaluationVars, hostedVars>>
       \/ /\ part = "evaluation" /\ EvaluationNext
          /\ UNCHANGED <<chunkerVars, schemaVars, principalVars, hostedVars>>
       \/ /\ part = "hosted" /\ HostedNext
          /\ UNCHANGED <<chunkerVars, schemaVars, principalVars, evaluationVars>>

\* Workers go on with the jobs they have; requests go on; PostgreSQL lets a waiting
\* insert through when the row is free again and again; the event loop runs.
PartsFairness ==
    /\ \A w \in Ingestions : WF_schemaVars(part = "schema" /\ EnsureCollection(w))
    /\ \A c \in Clients : /\ WF_principalVars(part = "principals" /\ ClientStep(c))
                          /\ SF_principalVars(part = "principals" /\ AddPrincipal(c))
    /\ \A q \in Callers : WF_hostedVars(part = "hosted" /\ LoopStep(q))

PartsSpec == PartsInit /\ [][PartsNext]_partsVars /\ PartsFairness

-----------------------------------------------------------------------------
\* The types of the parts: what a window, an ingestion, a transaction or a call
\* holds while it is where it is.
PartsTypeOK == ChunkerTypeOK /\ SchemaTypeOK /\ PrincipalsTypeOK /\ HostedTypeOK
=============================================================================
