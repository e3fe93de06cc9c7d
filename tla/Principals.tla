----------------------------- MODULE Principals -----------------------------
(***************************************************************************)
(* The first requests to an empty database: every route begins with        *)
(* ensure_principal, which inserts the one owner's row in the transaction  *)
(* of the request.  A route that only reads never commits it, and a second *)
(* request that inserts waits in the unique index for the first.           *)
(***************************************************************************)
EXTENDS FiniteSets

CONSTANTS
    Clients,     \* handlers of the collection routes
    Nobody

ASSUME ClientsAssumption == Nobody \notin Clients

VARIABLES
    principal,   \* the committed row of the default principal is there
    inserter,    \* whose transaction has inserted it and is open
    owned,       \* the collections that are committed, by who asked for them
    client

principalVars == <<principal, inserter, owned, client>>

Routes == {"list", "create"}
ClientRecord ==
    [pc : {"idle", "asked", "inserting", "duplicate", "authorized", "added", "answered", "refused"},
     route : Routes]

IdleClient == [pc |-> "idle", route |-> "list"]

PrincipalsInit ==
    /\ principal \in BOOLEAN
    /\ inserter = Nobody
    /\ owned = {}
    /\ client = [c \in Clients |-> IdleClient]

Has(c, pc) == client[c].pc = pc
Goes(c, pc) == client' = [client EXCEPT ![c].pc = pc]

\* PostgresUnitOfWork closes the session, which rolls back what is not committed.
CloseSession(c) == inserter' = IF inserter = c THEN Nobody ELSE inserter

-----------------------------------------------------------------------------
Request(c) ==
    /\ Has(c, "idle")
    /\ \E route \in Routes :
        client' = [client EXCEPT ![c] = [pc |-> "asked", route |-> route]]
    /\ UNCHANGED <<principal, inserter, owned>>

\* principals.get
GetPrincipal(c) ==
    /\ Has(c, "asked")
    /\ Goes(c, IF principal THEN "authorized" ELSE "inserting")
    /\ UNCHANGED <<principal, inserter, owned>>

\* principals.add, which waits for an open transaction that has inserted the row.
\* A refused insert rolls the savepoint back, not the transaction.
AddPrincipal(c) ==
    /\ Has(c, "inserting") /\ inserter = Nobody
    /\ IF principal THEN Goes(c, "duplicate") /\ UNCHANGED inserter
                    ELSE Goes(c, "authorized") /\ inserter' = c
    /\ UNCHANGED <<principal, owned>>

\* Mutant: the duplicate is not caught, and the row not read again.
DuplicateRaised(c) ==
    /\ Has(c, "duplicate")
    /\ Goes(c, "refused") /\ CloseSession(c)
    /\ UNCHANGED <<principal, owned>>

\* The row is read again, and without it the error is raised.
LoadDuplicate(c) ==
    /\ Has(c, "duplicate")
    /\ IF principal THEN Goes(c, "authorized") /\ UNCHANGED inserter
                    ELSE Goes(c, "refused") /\ CloseSession(c)
    /\ UNCHANGED <<principal, owned>>

\* list_by_owner, and the response without a commit.
ListCollections(c) ==
    /\ Has(c, "authorized") /\ client[c].route = "list"
    /\ Goes(c, "answered")
    /\ CloseSession(c)
    /\ UNCHANGED <<principal, owned>>

\* Mutant: the owner is looked up in another session, which waits for the row.
AddCollectionElsewhere(c) ==
    /\ Has(c, "authorized") /\ client[c].route = "create"
    /\ principal /\ Goes(c, "added")
    /\ UNCHANGED <<principal, inserter, owned>>

\* collections.add: its foreign key wants a row of the owner, committed or its own.
AddCollection(c) ==
    /\ Has(c, "authorized") /\ client[c].route = "create"
    /\ IF principal \/ inserter = c THEN Goes(c, "added") /\ UNCHANGED inserter
                                    ELSE Goes(c, "refused") /\ CloseSession(c)
    /\ UNCHANGED <<principal, owned>>

\* The commit takes the principal along.
CommitCollection(c) ==
    /\ Has(c, "added")
    /\ principal' = (principal \/ inserter = c)
    /\ owned' = owned \cup {c}
    /\ Goes(c, "answered")
    /\ CloseSession(c)

\* The client goes away or PostgreSQL fails: the request is rolled back.
Disconnect(c) ==
    /\ client[c].pc \in {"asked", "inserting", "duplicate", "authorized", "added"}
    /\ client' = [client EXCEPT ![c] = IdleClient]
    /\ CloseSession(c)
    /\ UNCHANGED <<principal, owned>>

Answered(c) ==
    /\ client[c].pc \in {"answered", "refused"}
    /\ client' = [client EXCEPT ![c] = IdleClient]
    /\ UNCHANGED <<principal, inserter, owned>>

ClientStep(c) ==
    \/ GetPrincipal(c) \/ AddPrincipal(c) \/ LoadDuplicate(c)
    \/ ListCollections(c) \/ AddCollection(c) \/ CommitCollection(c)
    \/ Answered(c)

PrincipalsNext == \E c \in Clients : Request(c) \/ ClientStep(c) \/ Disconnect(c)

PrincipalsSpec == PrincipalsInit /\ [][PrincipalsNext]_principalVars

-----------------------------------------------------------------------------
(***************************************************************************)
(* The properties.                                                         *)
(***************************************************************************)

\* Types; an insert is open only as long as its request, and the row is there once.
PrincipalsTypeOK ==
    /\ principal \in BOOLEAN /\ owned \subseteq Clients
    /\ client \in [Clients -> ClientRecord]
    /\ inserter # Nobody =>
        ~principal /\ client[inserter].pc \in {"authorized", "added"}

\* No request is refused for being among the first: neither for the duplicate row
\* it met, nor because the row it counted on was rolled back with the request that
\* had inserted it; and a collection's owner is there when the collection is.
FirstRequestsAreServed ==
    /\ \A c \in Clients : ~Has(c, "refused")
    /\ owned # {} => principal

\* A request waits for the insert of another one only as long as that one takes:
\* every request ends, also when the others are reads that commit nothing.
FirstRequestsEnd ==
    \A c \in Clients : ~Has(c, "idle") ~> Has(c, "idle")
=============================================================================
