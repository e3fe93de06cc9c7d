------------------------------- MODULE Corpus -------------------------------
(***************************************************************************)
(* What the document side promises to queries, without transactions,       *)
(* index, queue or workers: documents are added, their versions are        *)
(* published one at a time and each at most once, and a deleted document   *)
(* is never answered from again.                                           *)
(***************************************************************************)
CONSTANTS Documents, Versions, None

VARIABLES
    state,      \* the documents: absent, live or deleted
    visible,    \* the version of each document that queries may retrieve
    published   \* the versions that have been published

vars == <<state, visible, published>>

Init ==
    /\ state = [d \in Documents |-> "absent"]
    /\ visible = [d \in Documents |-> None]
    /\ published = {}

Add(d) ==
    /\ state[d] = "absent"
    /\ state' = [state EXCEPT ![d] = "live"]
    /\ UNCHANGED <<visible, published>>

\* Publishing on a document that was deleted meanwhile shows nothing.
Publish(d, v) ==
    /\ state[d] # "absent"
    /\ v \notin published
    /\ published' = published \cup {v}
    /\ visible' = [visible EXCEPT ![d] = IF state[d] = "live" THEN v ELSE @]
    /\ UNCHANGED state

Delete(d) ==
    /\ state[d] = "live"
    /\ state' = [state EXCEPT ![d] = "deleted"]
    /\ visible' = [visible EXCEPT ![d] = None]
    /\ UNCHANGED published

Next ==
    \E d \in Documents :
        \/ Add(d)
        \/ \E v \in Versions : Publish(d, v)
        \/ Delete(d)

Spec == Init /\ [][Next]_vars
=============================================================================
