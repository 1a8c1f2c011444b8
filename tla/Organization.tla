--------------------------- MODULE Organization ---------------------------
(***************************************************************************)
(* The organization that the agent searches: what the simulator            *)
(* (simulator/communications.py) writes about its three repositories, and  *)
(* how simulator/organization.py replaces one organization in the database *)
(* by another one, while the server may be reading.                        *)
(*                                                                         *)
(* An entity is <<kind, number>>, as in DEP-37. A row keeps its id, the    *)
(* ids it refers to, in their order, and the thread of a message.          *)
(***************************************************************************)
EXTENDS Naturals, Sequences, FiniteSets, Functions

CONSTANTS
    Seeds,        \* what the random generator draws with each seed
    MaxSeedings   \* how often the simulator is run

ASSUME OrganizationAssumption ==
    /\ Seeds \subseteq [deployments : [1 .. 5 -> 10 .. 99],   \* DEP-xx, each by itself
                        prs : [1 .. 5 -> 101 .. 170],         \* PR-xxx, counted up
                        offset : 0 .. 99]                     \* INC-4xx, TCK-1xxx, ...
    /\ \A s \in Seeds : \A m, n \in 1 .. 5 : m < n => s.prs[m] < s.prs[n]
    /\ MaxSeedings \in Nat

VARIABLES
    schema,     \* whether the tables exist
    tables,     \* the committed rows of each table
    seeding,    \* where persist is
    pending,    \* the rows it has flushed and not committed
    seedings    \* how many runs of it were started

orgVars == <<schema, tables, seeding, pending, seedings>>

--------------------------------------------------------------------------
(* The rows. Commits 1 and 2 are of checkout-service (2 is the one with    *)
(* the regression), 3 and 4 of payment-router, 5 of notification-service.  *)

Checkout     == <<"Repository", "checkout-service">>
Payment      == <<"Repository", "payment-router">>
Notification == <<"Repository", "notification-service">>
RepoIds      == <<Checkout, Payment, Notification>>
RepoOfCommit == <<Checkout, Checkout, Payment, Payment, Notification>>
Regression   == 2
Fallback     == 4

NoThread == <<"none", 0>>
NoEntity == <<"none", 0>>
Row(id, refs) == [id |-> id, refs |-> refs, thread |-> NoThread]

CommitId(n)        == <<"Commit", n>>
PullRequestId(s,n) == <<"PullRequest", s.prs[n]>>
DeploymentId(s,n)  == <<"Deployment", s.deployments[n]>>
CheckoutIncident(s)     == <<"Incident", 400 + s.offset>>
NotificationIncident(s) == <<"Incident", 500 + s.offset>>

RepositoryRows    == [n \in 1 .. 3 |-> Row(RepoIds[n], <<>>)]
CommitRows        == [n \in 1 .. 5 |-> Row(CommitId(n), <<RepoOfCommit[n]>>)]
\* One deployment for each of the last two commits of a repository.
DeploymentRows(s) == [n \in 1 .. 5 |->
    Row(DeploymentId(s, n), <<RepoOfCommit[n], PullRequestId(s, n)>>)]
PullRequestRows(s) == [n \in 1 .. 5 |->
    Row(PullRequestId(s, n), <<RepoOfCommit[n], CommitId(n)>>)]
IncidentRows(s) == <<
    Row(CheckoutIncident(s), <<Checkout, DeploymentId(s, Regression)>>),
    Row(NotificationIncident(s), <<Notification>>) >>
LogRows(s) == << Row(<<"LogEntry", 1>>, <<Checkout, DeploymentId(s, Regression)>>) >>

\* Whether the text of a ticket has a marker of several repositories.
Ticket(id, refs, multi) == [id |-> id, refs |-> refs, thread |-> NoThread, multi |-> multi]
NotificationTicket(s) == <<"Ticket", 2000 + s.offset>>
TicketRows(s) == <<
    Ticket(<<"Ticket", 1000 + s.offset>>, <<CheckoutIncident(s)>>, FALSE),
    Ticket(NotificationTicket(s), <<NotificationIncident(s)>>, FALSE),
    Ticket(<<"Ticket", 3000 + s.offset>>, <<>>, TRUE) >>

\* The third document mentions PR-118 whatever the numbers drawn.
DocumentRows == <<
    Row(<<"Document", 1>>, RepoIds),
    Row(<<"Document", 2>>, <<Checkout>>),
    Row(<<"Document", 3>>, <<Payment, <<"PullRequest", 118>>>>),
    Row(<<"Document", 4>>, <<Notification>>) >>
WikiRows == << Row(<<"WikiPage", 1>>, <<>>), Row(<<"WikiPage", 2>>, <<Checkout>>) >>

Message(n, thread, refs) == [id |-> <<"Message", n>>, refs |-> refs, thread |-> <<"thread", thread>>]
MessageRows(s) == <<
    Message(1, 1, <<PullRequestId(s, Regression), Checkout>>),
    Message(2, 1, <<PullRequestId(s, Regression)>>),
    Message(3, 2, <<CheckoutIncident(s), Checkout>>),
    Message(4, 2, <<PullRequestId(s, Regression)>>),
    Message(5, 3, <<PullRequestId(s, Fallback), Payment>>),
    Message(6, 4, <<NotificationIncident(s), Notification>>) >>

\* The event whose objective is a ticket, and the repository it names.
EventRows(s) == << [objective |-> NotificationTicket(s), repo |-> Notification] >>

TableNames == {"Repository", "Commit", "PullRequest", "Deployment", "Incident", "Ticket",
               "Document", "WikiPage", "Message", "LogEntry", "SimEvent"}
NoRows == [t \in TableNames |-> <<>>]

OrganizationOf(s) == [t \in TableNames |->
    CASE t = "Repository"  -> RepositoryRows
      [] t = "Commit"      -> CommitRows
      [] t = "PullRequest" -> PullRequestRows(s)
      [] t = "Deployment"  -> DeploymentRows(s)
      [] t = "Incident"    -> IncidentRows(s)
      [] t = "Ticket"      -> TicketRows(s)
      [] t = "Document"    -> DocumentRows
      [] t = "WikiPage"    -> WikiRows
      [] t = "Message"     -> MessageRows(s)
      [] t = "LogEntry"    -> LogRows(s)
      [] OTHER             -> EventRows(s)]

RowsOf(t) == {tables[t][k] : k \in DOMAIN tables[t]}
IdsOf(t)  == {r.id : r \in RowsOf(t)}

--------------------------------------------------------------------------
(* One run of the simulator. Creating and dropping tables is not part of   *)
(* the transaction that fills them.                                        *)

\* A server that was started on a new database.
OrgInit ==
    /\ schema = TRUE
    /\ tables = NoRows
    /\ seeding = "idle"
    /\ pending = NoRows
    /\ seedings = 0

DropTables ==
    /\ seeding = "idle"
    /\ seedings < MaxSeedings
    /\ seeding' = "dropped"
    /\ seedings' = seedings + 1
    /\ schema' = FALSE
    /\ tables' = NoRows
    /\ UNCHANGED pending

CreateTables ==
    /\ seeding = "dropped"
    /\ seeding' = "created"
    /\ schema' = TRUE
    /\ UNCHANGED <<tables, pending, seedings>>

\* A mutant: the second of two rows with one id replaces the first.
LastWins(rows) ==
    LET last == {k \in DOMAIN rows : \A j \in DOMAIN rows : rows[j].id = rows[k].id => j <= k}
        Nth(n) == CHOOSE k \in last : Cardinality({j \in last : j <= k}) = n
    IN [n \in 1 .. Cardinality(last) |-> rows[Nth(n)]]

FlushMerging ==
    /\ seeding = "created"
    /\ seeding' = "flushed"
    /\ \E s \in Seeds :
          pending' = [OrganizationOf(s) EXCEPT !["Deployment"] = LastWins(@)]
    /\ UNCHANGED <<schema, tables, seedings>>

\* Two rows with one id are two insertions, since nothing was flushed between
\* their merges, and the flush raises.
Flush ==
    /\ seeding = "created"
    /\ seeding' = "flushed"
    /\ \E s \in Seeds :
          /\ IsInjective(s.deployments)
          /\ pending' = OrganizationOf(s)
    /\ UNCHANGED <<schema, tables, seedings>>

FlushRaises ==
    /\ seeding = "created"
    /\ \E s \in Seeds : ~IsInjective(s.deployments)
    /\ seeding' = "idle"
    /\ UNCHANGED <<schema, tables, pending, seedings>>

CommitRowsOfSeed ==
    /\ seeding = "flushed"
    /\ seeding' = "idle"
    /\ tables' = pending
    /\ pending' = NoRows
    /\ UNCHANGED <<schema, seedings>>

\* The process of the simulator ends, and with it its transaction.
Abort ==
    /\ seeding # "idle"
    /\ seeding' = "idle"
    /\ pending' = NoRows
    /\ UNCHANGED <<schema, tables, seedings>>

SeedNext ==
    \/ DropTables
    \/ CreateTables
    \/ Flush
    \/ FlushRaises
    \/ CommitRowsOfSeed
    \/ Abort

==========================================================================
