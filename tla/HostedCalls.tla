----------------------------- MODULE HostedCalls -----------------------------
(***************************************************************************)
(* What a query holds while it runs, with a hosted generator and, perhaps, *)
(* the shadow decision: a connection of PostgreSQL from its first read to  *)
(* its response, one of the slots of query_semaphore, and a thread of      *)
(* asyncio's executor for each HTTP call.  wait_for gives a call up in     *)
(* time, but a call that runs goes on in its thread: it may never return.  *)
(***************************************************************************)
EXTENDS Sequences, FiniteSets, Integers, SequencesExt

CONSTANTS
    Callers,         \* requests to the query route
    Workforce,       \* threads of the executor that asyncio.to_thread uses
    Connections,     \* size of the connection pool, overflow included
    InFlight,        \* max_in_flight_queries
    Free, Stray,     \* of a thread: without a call; with one no query waits for
    ShadowEnabled    \* jev_shadow_enabled

ASSUME CallersAssumption ==
    /\ IsFiniteSet(Callers) /\ IsFiniteSet(Workforce)
    /\ {Free, Stray} \cap Callers = {} /\ Free # Stray
ASSUME LimitsAssumption ==
    /\ Connections \in Nat \ {0} /\ InFlight \in Nat \ {0}
    /\ ShadowEnabled \in BOOLEAN

VARIABLES
    asking,       \* where each query is
    slotLine,     \* queries that wait for a slot, first come first served
    callLine,     \* queries whose call waits for a thread
    thread        \* whose call each thread makes

hostedVars == <<asking, slotLine, callLine, thread>>

(***************************************************************************)
(* evidence  what the context build made of the candidates: no records,    *)
(*           records below min_rerank_score, or enough to ask the model    *)
(***************************************************************************)
AskingRecord ==
    [pc : {"idle", "connecting", "waiting", "packing", "shadow", "generating", "done"},
     evidence : {"none", "weak", "enough"},
     outcome : {"none", "ANSWERED", "INSUFFICIENT_EVIDENCE", "ERROR"}]

NotAsking == [pc |-> "idle", evidence |-> "none", outcome |-> "none"]

HostedInit ==
    /\ asking = [q \in Callers |-> NotAsking]
    /\ slotLine = <<>> /\ callLine = <<>>
    /\ thread = [t \in Workforce |-> Free]

Among(line, q) == \E i \in 1..Len(line) : line[i] = q

Stands(q, pc) == asking[q].pc = pc

\* The queries inside the semaphore, and those with a session.
Holding == {q \in Callers : asking[q].pc \in {"packing", "shadow", "generating"}}
Connected == {q \in Callers : asking[q].pc \notin {"idle", "connecting"}}

Ends(q, outcome) == asking' = [asking EXCEPT ![q].pc = "done", ![q].outcome = outcome]

-----------------------------------------------------------------------------
Ask(q) ==
    /\ Stands(q, "idle")
    /\ asking' = [asking EXCEPT ![q].pc = "connecting"]
    /\ UNCHANGED <<slotLine, callLine, thread>>

\* get_principal reads, which takes a connection; the route reads the collection
\* and the versions with it and comes to the semaphore.
Connect(q) ==
    /\ Stands(q, "connecting") /\ Cardinality(Connected) < Connections
    /\ asking' = [asking EXCEPT ![q].pc = "waiting"]
    /\ slotLine' = Append(slotLine, q)
    /\ UNCHANGED <<callLine, thread>>

\* The pool does not wait forever for a connection.
NoConnection(q) ==
    /\ Stands(q, "connecting")
    /\ asking' = [asking EXCEPT ![q] = NotAsking]
    /\ UNCHANGED <<slotLine, callLine, thread>>

\* Mutant: the semaphore is left out.
AdmitAtOnce(q) ==
    /\ slotLine # <<>> /\ Head(slotLine) = q
    /\ slotLine' = Tail(slotLine)
    /\ asking' = [asking EXCEPT ![q].pc = "packing"]
    /\ UNCHANGED <<callLine, thread>>

Admit(q) ==
    /\ slotLine # <<>> /\ Head(slotLine) = q
    /\ Cardinality(Holding) < InFlight
    /\ slotLine' = Tail(slotLine)
    /\ asking' = [asking EXCEPT ![q].pc = "packing"]
    /\ UNCHANGED <<callLine, thread>>

(***************************************************************************)
(* answer_question, from the evidence on                                   *)
(***************************************************************************)
\* Retrieval or the reranker fails, which ends the query.
PackFails(q) ==
    /\ Stands(q, "packing")
    /\ Ends(q, "ERROR")
    /\ UNCHANGED <<slotLine, callLine, thread>>

\* The evidence is weak or there is none, and no shadow is to be asked about it.
Abstain(q) ==
    /\ Stands(q, "packing")
    /\ \E evidence \in {"none", "weak"} :
        /\ evidence = "none" \/ ~ShadowEnabled
        /\ asking' = [asking EXCEPT ![q] = [pc |-> "done", evidence |-> evidence,
                                            outcome |-> "INSUFFICIENT_EVIDENCE"]]
    /\ UNCHANGED <<slotLine, callLine, thread>>

\* The first call: of the shadow whatever the evidence is worth, else of the model.
Pack(q) ==
    /\ Stands(q, "packing")
    /\ \E evidence \in IF ShadowEnabled THEN {"weak", "enough"} ELSE {"enough"} :
        asking' = [asking EXCEPT ![q].evidence = evidence,
                                 ![q].pc = IF ShadowEnabled THEN "shadow" ELSE "generating"]
    /\ callLine' = Append(callLine, q)
    /\ UNCHANGED <<slotLine, thread>>

\* The executor takes the calls in order.
StartCall(q, t) ==
    /\ callLine # <<>> /\ Head(callLine) = q /\ thread[t] = Free
    /\ thread' = [thread EXCEPT ![t] = q]
    /\ callLine' = Tail(callLine)
    /\ UNCHANGED <<asking, slotLine>>

\* What the shadow said or that it failed is only logged: what happens next was
\* decided before.  left is the line of calls without the one that is over.
AfterShadow(q, left) ==
    IF asking[q].evidence = "enough"
      THEN /\ asking' = [asking EXCEPT ![q].pc = "generating"]
           /\ callLine' = Append(left, q)
      ELSE Ends(q, "INSUFFICIENT_EVIDENCE") /\ callLine' = left

\* A call comes back in time, with an answer or an error.
Return(q, t) ==
    /\ thread[t] = q
    /\ thread' = [thread EXCEPT ![t] = Free]
    /\ \/ Stands(q, "shadow") /\ AfterShadow(q, callLine)
       \/ /\ Stands(q, "generating") /\ UNCHANGED callLine
          /\ \E outcome \in {"ANSWERED", "INSUFFICIENT_EVIDENCE", "ERROR"} : Ends(q, outcome)
    /\ UNCHANGED slotLine

\* Mutant: a call that runs is still taken for the query's own.
KeepCall(q) == UNCHANGED thread

\* A call in the line is cancelled; one that runs keeps its thread.
GiveUp(q) ==
    thread' = [t \in Workforce |-> IF thread[t] = q THEN Stray ELSE thread[t]]

Remaining(q) ==
    IF Among(callLine, q)
      THEN RemoveAt(callLine, CHOOSE i \in 1..Len(callLine) : callLine[i] = q)
      ELSE callLine


ShadowTimesOut(q) ==
    /\ Stands(q, "shadow")
    /\ GiveUp(q) /\ AfterShadow(q, Remaining(q))
    /\ UNCHANGED slotLine

GenerationTimesOut(q) ==
    /\ Stands(q, "generating")
    /\ GiveUp(q) /\ callLine' = Remaining(q)
    /\ Ends(q, "ERROR")
    /\ UNCHANGED slotLine

\* The executor is the process's: uploads, citation pages, the probe of /ready and a
\* local encoder of questions use its threads too.
OtherCall(t) ==
    /\ thread[t] = Free
    /\ thread' = [thread EXCEPT ![t] = Stray]
    /\ UNCHANGED <<asking, slotLine, callLine>>

\* A call of theirs, or one that was given up, returns at last.
StrayReturns(t) ==
    /\ thread[t] = Stray
    /\ thread' = [thread EXCEPT ![t] = Free]
    /\ UNCHANGED <<asking, slotLine, callLine>>

\* The response, and the session is closed.
Respond(q) ==
    /\ Stands(q, "done")
    /\ asking' = [asking EXCEPT ![q] = NotAsking]
    /\ UNCHANGED <<slotLine, callLine, thread>>

HostedNext ==
    \/ \E q \in Callers :
        \/ Ask(q) \/ Connect(q) \/ NoConnection(q) \/ Admit(q)
        \/ PackFails(q) \/ Abstain(q) \/ Pack(q)
        \/ ShadowTimesOut(q) \/ GenerationTimesOut(q) \/ Respond(q)
        \/ \E t \in Workforce : StartCall(q, t) \/ Return(q, t)
    \/ \E t \in Workforce : OtherCall(t) \/ StrayReturns(t)

\* What the event loop and its timers do.  No call is assumed to return, nor to get
\* a thread.
LoopStep(q) ==
    \/ NoConnection(q) \/ Admit(q) \/ PackFails(q) \/ Abstain(q) \/ Pack(q)
    \/ ShadowTimesOut(q) \/ GenerationTimesOut(q) \/ Respond(q)

HostedSpec == HostedInit /\ [][HostedNext]_hostedVars

-----------------------------------------------------------------------------
(***************************************************************************)
(* The properties.                                                         *)
(***************************************************************************)

\* A query that waits for a call has it in one place: once in the line or in one
\* thread; and nobody else has a call.
Once(line) == \A i, j \in 1..Len(line) : line[i] = line[j] => i = j
Running(q) == \E t \in Workforce : thread[t] = q

HostedTypeOK ==
    /\ asking \in [Callers -> AskingRecord]
    /\ slotLine \in Seq(Callers) /\ Once(slotLine)
    /\ callLine \in Seq(Callers) /\ Once(callLine)
    /\ thread \in [Workforce -> Callers \cup {Free, Stray}]
    /\ \A s, t \in Workforce : thread[s] = thread[t] /\ thread[s] \in Callers => s = t
    /\ \A q \in Callers :
        /\ Stands(q, "waiting") <=> Among(slotLine, q)
        /\ asking[q].pc \in {"shadow", "generating"} <=> Among(callLine, q) \/ Running(q)
        /\ ~(Among(callLine, q) /\ Running(q))

Strays == {t \in Workforce : thread[t] = Stray}

\* The slots and the connections keep the calls of live queries below both limits.
\* A call that finds no free thread in an executor of at least as many is kept from
\* it by calls that no query waits for, given up or of other requests: with as many
\* threads to spare for those, no query would wait for another one's.
CallsWaitForStrays ==
    callLine # <<>> /\ (\A t \in Workforce : thread[t] # Free) =>
        /\ Cardinality(Strays) + InFlight > Cardinality(Workforce)
        /\ Cardinality(Strays) + Connections > Cardinality(Workforce)

=============================================================================
