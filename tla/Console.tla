------------------------------ MODULE Console ------------------------------
(***************************************************************************)
(* The web console: one page whose handlers are suspended at every await   *)
(* while the user goes from one collection to another.  A call is the run  *)
(* of one handler, from its fetch to its end.  The API is outside of this  *)
(* module: each answer is any answer it may give.  A change of state, its  *)
(* render and the effects of the render are one step.                      *)
(***************************************************************************)
EXTENDS Naturals, FiniteSets

CONSTANTS
    Collections,
    Names,        \* of the documents of a collection
    Calls,        \* bound: handlers that run at a time
    PollLimit,    \* POLL_LIMIT
    None

ASSUME PollLimitAssumption == PollLimit \in Nat
ASSUME NoneAssumption == None \notin Collections /\ None \notin Collections \X Names

Documents == Collections \X Names
DocumentsOf(c) == {c} \X Names

VARIABLES
    connected,
    selected,   \* the collection that is open, or None
    rows,       \* documents in the table
    deleting,   \* the document whose button says "Deleting"
    result,     \* the collection that the answer on the screen is from, or None
    loading,    \* the button says "Asking"
    proof,      \* the collection that the page on the screen is from, or None
    calls,
    lost        \* documents whose DELETE was rejected, which no handler catches

screen == <<rows, deleting, result, loading, proof>>
vars == <<connected, selected, screen, calls, lost>>

(***************************************************************************)
(* kind      the handler: "list" loads the table, "upload" is onUpload and *)
(*           "poll" the pollDocument it becomes, "delete" onDeleteDocument *)
(*           and "watch" the pollDeletion it becomes                       *)
(* at        what it waits for: a response, the body of one, or the timer  *)
(* live      it is not cancelled; for a citation, it is the latest request *)
(***************************************************************************)
Ended == [kind |-> "none", from |-> None, document |-> None, at |-> "end",
          attempt |-> 0, live |-> FALSE]
Running(kind, c, d) ==
    [kind |-> kind, from |-> c, document |-> d, at |-> "response", attempt |-> 0, live |-> TRUE]
Call == [kind : {"none", "list", "upload", "poll", "delete", "watch", "query", "citation"},
         from : Collections \union {None}, document : Documents \union {None},
         at : {"response", "body", "detail", "timer", "end"},
         attempt : 0..PollLimit, live : BOOLEAN]

ConsoleTypeOK ==
    /\ connected \in BOOLEAN
    /\ selected \in Collections \union {None}
    /\ rows \subseteq Documents
    /\ deleting \in Documents \union {None}
    /\ {result, proof} \subseteq Collections \union {None}
    /\ loading \in BOOLEAN
    /\ calls \in [Calls -> Call]
    /\ lost \subseteq Documents

Shown == connected /\ selected # None

\* A handler starts, and the calls it cancels, if any, are already so in old.
Idle == {k \in Calls : calls[k] = Ended}
Start(old, kind, c, d) ==
    /\ Idle # {}
    /\ calls' = [old EXCEPT ![CHOOSE k \in Idle : TRUE] = Running(kind, c, d)]
Cancel(kinds) ==
    [k \in Calls |-> IF calls[k].kind \in kinds THEN [calls[k] EXCEPT !.live = FALSE]
                                                ELSE calls[k]]
At(k, kind, at) == calls[k].kind = kind /\ calls[k].at = at
End(k) == calls' = [calls EXCEPT ![k] = Ended]
Await(k, at) == calls' = [calls EXCEPT ![k].at = at]

\* selectedCollectionIdRef.current is the collection of the call.
StillOpen(k) == selected = calls[k].from

\* The key and the path of the page are those of the last visit.
ConsoleInit ==
    /\ connected \in BOOLEAN
    /\ selected \in Collections \union {None}
    /\ rows = {} /\ deleting = None
    /\ result = None /\ loading = FALSE /\ proof = None
    /\ \E k \in Calls :
         calls = [j \in Calls |-> IF j = k /\ Shown THEN Running("list", selected, None) ELSE Ended]
    /\ lost = {}

-----------------------------------------------------------------------------
(***************************************************************************)
(* The effect of a change of connected or selected: the page on the screen *)
(* is closed, the load of the table and the citation are cancelled, and a  *)
(* collection that is shown starts from nothing.                           *)
(***************************************************************************)
Open ==
    /\ proof' = None
    /\ IF connected' /\ selected' # None
         THEN /\ rows' = {} /\ deleting' = None /\ result' = None /\ loading' = FALSE
              /\ Start(Cancel({"list", "citation"}), "list", selected', None)
         ELSE /\ calls' = Cancel({"list", "citation"})
              /\ UNCHANGED <<rows, deleting, result, loading>>

\* A click on a collection or on the way back, or the browser's history.
Navigate ==
    /\ \E c \in (Collections \union {None}) \ {selected} : selected' = c
    /\ UNCHANGED <<connected, lost>>
    /\ Open

Connect ==
    /\ ~connected
    /\ connected' = TRUE
    /\ UNCHANGED <<selected, lost>>
    /\ Open

\* Any load or creation of collections may find that the key is refused.
KeyRefused ==
    /\ connected
    /\ connected' = FALSE
    /\ UNCHANGED <<selected, lost>>
    /\ Open

\* A handler ends because its response is a 401.
Disconnect(k) ==
    /\ connected' = FALSE
    /\ proof' = None
    /\ calls' = [Cancel({"list", "citation"}) EXCEPT ![k] = Ended]
    /\ UNCHANGED <<selected, rows, deleting, result>>

-----------------------------------------------------------------------------
(***************************************************************************)
(* The table: its load, and onUpload with the polls that follow it.        *)
(***************************************************************************)
ListLoaded(k) ==
    /\ At(k, "list", "response")
    /\ rows' \in IF calls[k].live THEN SUBSET DocumentsOf(calls[k].from) ELSE {rows}
    /\ End(k)
    /\ UNCHANGED <<connected, selected, deleting, result, loading, proof, lost>>

Upload ==
    /\ Shown
    /\ Start(calls, "upload", selected, None)
    /\ UNCHANGED <<connected, selected, screen, lost>>

Uploaded(k) ==
    /\ At(k, "upload", "response")
    /\ IF StillOpen(k)
         THEN \E d \in DocumentsOf(calls[k].from) :
                /\ rows' = rows \union {d}
                /\ calls' = [calls EXCEPT ![k].kind = "poll", ![k].document = d]
         ELSE End(k) /\ UNCHANGED rows
    /\ UNCHANGED <<connected, selected, deleting, result, loading, proof, lost>>

\* Mutant: the attempts of a poll are not counted.
WaitUncounted(k) == Await(k, "timer")

\* Mutant: the limit is not compared.
WaitForever(k) == calls' = [calls EXCEPT ![k].at = "timer", ![k].attempt = @ + 1]

\* One more attempt after a second, up to the limit.
Wait(k) ==
    IF calls[k].attempt = PollLimit
      THEN End(k)
      ELSE calls' = [calls EXCEPT ![k].at = "timer", ![k].attempt = @ + 1]

PollAgain(k) ==
    /\ calls[k].kind \in {"poll", "watch"} /\ calls[k].at = "timer"
    /\ IF StillOpen(k) THEN Await(k, "response") ELSE End(k)
    /\ UNCHANGED <<connected, selected, screen, lost>>

PollAnswered(k) ==
    /\ At(k, "poll", "response")
    /\ IF StillOpen(k) THEN Await(k, "body") \/ Wait(k) ELSE End(k)
    /\ UNCHANGED <<connected, selected, screen, lost>>

\* The document has its final status, or is polled again.
Polled(k) ==
    /\ At(k, "poll", "body")
    /\ IF StillOpen(k)
         THEN rows' = rows \union {calls[k].document} /\ (End(k) \/ Wait(k))
         ELSE End(k) /\ UNCHANGED rows
    /\ UNCHANGED <<connected, selected, deleting, result, loading, proof, lost>>

\* An error, or a rejection, that leaves only a message or nothing at all.
GivesUp(k) ==
    /\ \/ At(k, "list", "response") \/ At(k, "upload", "response")
       \/ At(k, "poll", "response") \/ At(k, "poll", "body")
       \/ At(k, "citation", "response") \/ At(k, "citation", "body")
    /\ End(k)
    /\ UNCHANGED <<connected, selected, screen, lost>>

-----------------------------------------------------------------------------
(***************************************************************************)
(* onDeleteDocument and pollDeletion.                                      *)
(***************************************************************************)
Delete ==
    /\ Shown
    /\ \E d \in rows \ {deleting} :
          /\ deleting' = d
          /\ lost' = lost \ {d}
          /\ Start(calls, "delete", selected, d)
    /\ UNCHANGED <<connected, selected, rows, result, loading, proof>>

\* Accepted: pollDeletion begins, unless the user has gone elsewhere.
DeleteAccepted(k) ==
    /\ At(k, "delete", "response")
    /\ IF StillOpen(k) THEN calls' = [calls EXCEPT ![k].kind = "watch"] ELSE End(k)
    /\ UNCHANGED <<connected, selected, screen, lost>>

DeleteUnauthorized(k) ==
    /\ At(k, "delete", "response")
    /\ Disconnect(k)
    /\ UNCHANGED <<loading, lost>>

\* Mutant: the button is not reset when the request is refused.
DeleteRefusedKeep(k) ==
    /\ At(k, "delete", "response")
    /\ End(k)
    /\ UNCHANGED <<connected, selected, screen, lost>>

\* The button is reset, whatever collection is open now.
DeleteRefused(k) ==
    /\ At(k, "delete", "response")
    /\ deleting' = None
    /\ End(k)
    /\ UNCHANGED <<connected, selected, rows, result, loading, proof, lost>>

\* fetch rejects outside of a try: the button is never reset.
DeleteRejected(k) ==
    /\ At(k, "delete", "response")
    /\ lost' = lost \union {calls[k].document}
    /\ End(k)
    /\ UNCHANGED <<connected, selected, screen>>

Watched(k) ==
    /\ At(k, "watch", "response")
    /\ ~StillOpen(k)
    /\ End(k)
    /\ UNCHANGED <<connected, selected, screen, lost>>

\* A 404: the document is gone.
DocumentGone(k) ==
    /\ At(k, "watch", "response")
    /\ StillOpen(k)
    /\ rows' = rows \ {calls[k].document}
    /\ deleting' = None
    /\ End(k)
    /\ UNCHANGED <<connected, selected, result, loading, proof, lost>>

\* Mutant: the button is not reset after the last attempt.
NotYetGoneKeep(k) ==
    /\ At(k, "watch", "response")
    /\ StillOpen(k)
    /\ Wait(k)
    /\ UNCHANGED <<connected, selected, screen, lost>>

NotYetGone(k) ==
    /\ At(k, "watch", "response")
    /\ StillOpen(k)
    /\ Wait(k)
    /\ deleting' = IF calls[k].attempt = PollLimit THEN None ELSE deleting
    /\ UNCHANGED <<connected, selected, rows, result, loading, proof, lost>>

\* The catch clause does not compare the collection.
WatchRejected(k) ==
    /\ At(k, "watch", "response")
    /\ deleting' = None
    /\ End(k)
    /\ UNCHANGED <<connected, selected, rows, result, loading, proof, lost>>

-----------------------------------------------------------------------------
(***************************************************************************)
(* onQuery, with its catch and finally clauses, and openCitation.          *)
(***************************************************************************)
AskQuestion ==
    /\ Shown /\ ~loading
    /\ loading' = TRUE
    /\ result' = None /\ proof' = None
    /\ Start(Cancel({"citation"}), "query", selected, None)
    /\ UNCHANGED <<connected, selected, rows, deleting, lost>>

\* Mutant: the button is not reset when the query fails.
SettleKeep(k) == UNCHANGED loading

\* finally: the button is reset if its collection is still open.
Settle(k) == loading' = (loading /\ ~StillOpen(k))

\* The status is read; the body is awaited in either case.
QueryResponse(k) ==
    /\ At(k, "query", "response")
    /\ IF StillOpen(k) THEN Await(k, "body") \/ Await(k, "detail") ELSE End(k)
    /\ UNCHANGED <<connected, selected, screen, lost>>

QueryUnauthorized(k) ==
    /\ At(k, "query", "response")
    /\ StillOpen(k)
    /\ Disconnect(k)
    /\ Settle(k)
    /\ UNCHANGED lost

\* Mutant: the collection is not compared after the body is awaited.
QueryAnsweredUnscoped(k) ==
    /\ At(k, "query", "body")
    /\ result' = calls[k].from
    /\ Settle(k)
    /\ End(k)
    /\ UNCHANGED <<connected, selected, rows, deleting, proof, lost>>

QueryAnswered(k) ==
    /\ At(k, "query", "body")
    /\ result' = IF StillOpen(k) THEN calls[k].from ELSE result
    /\ Settle(k)
    /\ End(k)
    /\ UNCHANGED <<connected, selected, rows, deleting, proof, lost>>

\* A refusal, once its detail is read, or a rejection.
QueryFailed(k) ==
    /\ calls[k].kind = "query"
    /\ Settle(k)
    /\ End(k)
    /\ UNCHANGED <<connected, selected, rows, deleting, result, proof, lost>>

OpenCitation ==
    /\ Shown /\ result # None
    /\ proof' = None
    /\ Start(Cancel({"citation"}), "citation", result, None)
    /\ UNCHANGED <<connected, selected, rows, deleting, result, loading, lost>>

CitationResponse(k) ==
    /\ At(k, "citation", "response")
    /\ IF calls[k].live THEN Await(k, "body") ELSE End(k)
    /\ UNCHANGED <<connected, selected, screen, lost>>

\* The request is not compared after the bytes are awaited.
PageShown(k) ==
    /\ At(k, "citation", "body")
    /\ proof' = calls[k].from
    /\ End(k)
    /\ UNCHANGED <<connected, selected, rows, deleting, result, loading, lost>>

-----------------------------------------------------------------------------
User ==
    \/ Navigate
    \/ Connect
    \/ KeyRefused
    \/ Upload
    \/ Delete
    \/ AskQuestion
    \/ OpenCitation

\* The next step of a handler that waits.
Continue(k) ==
    \/ ListLoaded(k)
    \/ Uploaded(k) \/ PollAnswered(k) \/ Polled(k) \/ PollAgain(k)
    \/ DeleteAccepted(k) \/ DeleteUnauthorized(k) \/ DeleteRefused(k) \/ DeleteRejected(k)
    \/ Watched(k) \/ DocumentGone(k) \/ NotYetGone(k) \/ WatchRejected(k)
    \/ QueryResponse(k) \/ QueryUnauthorized(k) \/ QueryAnswered(k) \/ QueryFailed(k)
    \/ CitationResponse(k) \/ PageShown(k)
    \/ GivesUp(k)

ConsoleNext == User \/ \E k \in Calls : Continue(k)

\* A fetch is answered or rejected, and a timer fires; the user does what they like.
ConsoleFairness == \A k \in Calls : WF_vars(Continue(k))
ConsoleSpec == ConsoleInit /\ [][ConsoleNext]_vars /\ ConsoleFairness

-----------------------------------------------------------------------------
\* The table, the pending delete and the answer on the screen are those of
\* the collection that is open, whatever answers come late: one collection
\* does not paint another one's screen.
ScreenIsOfCollection ==
    Shown => /\ rows \subseteq DocumentsOf(selected)
             /\ deleting \in DocumentsOf(selected) \union {None}
             /\ result \in {selected, None}

\* A button that says that something is going on has a handler that will
\* reset it: no end of a handler forgets the button, save the one of a DELETE
\* that is rejected.
ButtonsHaveCalls ==
    Shown =>
      /\ loading => \E k \in Calls : calls[k].kind = "query" /\ StillOpen(k)
      /\ deleting \in Documents \ lost =>
           \E k \in Calls : /\ calls[k].kind \in {"delete", "watch"}
                            /\ calls[k].document = deleting

\* Who stays in a collection gets the "Ask" button back.
QuerySettles ==
    \A c \in Collections :
        (loading /\ connected /\ selected = c) ~> ~(loading /\ connected /\ selected = c)

\* Who stays in a collection gets the "Delete" button of a document back, or
\* sees the document gone, unless the DELETE was rejected.
DeletingSettles ==
    \A d \in Documents :
        (deleting = d /\ Shown /\ selected = d[1])
            ~> (d \in lost \/ ~(deleting = d /\ Shown /\ selected = d[1]))

\* Polls of an upload or a delete end, though the document never settles.
PollingStops ==
    \A k \in Calls :
        calls[k].kind \in {"poll", "watch"} ~> calls[k].kind \notin {"poll", "watch"}
=============================================================================
