---------------------------- MODULE EntityGraph ----------------------------
(***************************************************************************)
(* The entity graph of knowledge/graph.py. Each call builds it afresh, one *)
(* query for each table, and then follows the edges up or down from one    *)
(* entity. The simulator may run between any two of the queries.           *)
(***************************************************************************)
EXTENDS Organization

CONSTANT Focuses   \* the entities that are traced

VARIABLES
    gphase,      \* where the call is
    focus,       \* the entity it is about
    direction,   \* "up": what refers to it; "down": what it refers to
    read,        \* how many tables were read
    fetched,     \* the rows that were read
    seen,        \* the entities reached
    disturbed    \* history: the tables changed while a call or a task was under way

graphVars == <<gphase, focus, direction, read, fetched, seen>>

--------------------------------------------------------------------------
(* The graph: the tables in the order in which build_graph adds them, and  *)
(* an edge to an entity only if that is a node by then.                    *)

\* A mutant: the tables in the order of their names.
GraphTablesByName == <<"Commit", "Deployment", "Document", "Incident", "Message",
                       "PullRequest", "Repository", "Ticket", "WikiPage">>

GraphTables == <<"Repository", "Commit", "PullRequest", "Deployment", "Incident", "Ticket",
                 "Document", "WikiPage", "Message">>

RowAt(i, k) == fetched[GraphTables[i]][k]
Places(i)   == DOMAIN fetched[GraphTables[i]]

Known(i, k) ==
    (UNION {{RowAt(j, l).id : l \in Places(j)} : j \in 1 .. i - 1})
    \cup {RowAt(i, l).id : l \in {l \in Places(i) : l <= k}}

\* A mutant: a repository deploys its deployments.
EdgesOfBackwards(i, k) ==
    LET row == RowAt(i, k)
        to  == Range(row.refs) \cap Known(i, k)
    IN IF GraphTables[i] = "Deployment"
       THEN {<<x, row.id>> : x \in to \cap Range(RepoIds)}
            \cup {<<row.id, x>> : x \in to \ Range(RepoIds)}
       ELSE {<<row.id, x>> : x \in to \cup ({row.thread} \ {NoThread})}

\* The thread of a message becomes a node with the edge to it.
EdgesOf(i, k) ==
    LET row == RowAt(i, k)
    IN {<<row.id, x>> : x \in (Range(row.refs) \cap Known(i, k))
                              \cup ({row.thread} \ {NoThread})}

Edges == UNION {UNION {EdgesOf(i, k) : k \in Places(i)} : i \in 1 .. 9}

Nodes == (UNION {{RowAt(i, k).id : k \in Places(i)} : i \in 1 .. 9}) \cup {e[2] : e \in Edges}

Successors(S)   == {e[2] : e \in {e \in Edges : e[1] \in S}}
Predecessors(S) == {e[1] : e \in {e \in Edges : e[2] \in S}}
NextOf(S)       == IF direction = "down" THEN Successors(S) ELSE Predecessors(S)

--------------------------------------------------------------------------
(* A call of trace_upstream or trace_downstream.                           *)

GraphInit ==
    /\ gphase = "idle"
    /\ focus = NoEntity
    /\ direction = "down"
    /\ read = 0
    /\ fetched = NoRows
    /\ seen = {}
    /\ disturbed = FALSE

StartTrace ==
    /\ gphase = "idle"
    /\ gphase' = "build"
    /\ focus' \in Focuses
    /\ direction' \in {"up", "down"}
    /\ UNCHANGED <<read, fetched, seen>>

FetchTable ==
    /\ gphase = "build"
    /\ schema
    /\ read < 9
    /\ read' = read + 1
    /\ fetched' = [fetched EXCEPT ![GraphTables[read']] = tables[GraphTables[read']]]
    /\ UNCHANGED <<gphase, focus, direction, seen>>

\* The tables are gone.
FetchRaises ==
    /\ gphase = "build"
    /\ ~schema
    /\ read < 9
    /\ gphase' = "raised"
    /\ UNCHANGED <<focus, direction, read, fetched, seen>>

Built ==
    /\ gphase = "build"
    /\ read = 9
    /\ gphase' = IF focus \in Nodes THEN "walk" ELSE "done"
    /\ UNCHANGED <<focus, direction, read, fetched, seen>>

\* One layer of the library's breadth-first search, which does not return the
\* entity it starts from.
Walk ==
    /\ gphase = "walk"
    /\ seen' = (seen \cup NextOf(seen \cup {focus})) \ {focus}
    /\ gphase' = IF seen' = seen THEN "done" ELSE "walk"
    /\ UNCHANGED <<focus, direction, read, fetched>>

GraphNext ==
    \/ StartTrace
    \/ FetchTable
    \/ FetchRaises
    \/ Built
    \/ Walk

--------------------------------------------------------------------------
(* Properties.                                                             *)

\* Nothing that an entity is traced to leads back to it: what the graph calls
\* upstream of an entity is never downstream of it too, even if the tables were
\* replaced between two of its queries (graph.py:16-91).
TracesDoNotCycle == focus \notin NextOf(seen)

\* A graph that no run of the simulator came between has an edge for every
\* reference of a row to an entity that exists: none is lost because the table
\* of what it refers to is added later (graph.py:19-75).
NoReferenceLost ==
    gphase \in {"walk", "done"} /\ ~disturbed =>
        \A i \in 1 .. 9 : \A row \in RowsOf(GraphTables[i]) :
            \A x \in Range(row.refs) :
                (\E t \in TableNames \ {"SimEvent"} : x \in IdsOf(t)) => <<row.id, x>> \in Edges

\* From the incident of checkout-service the trace leads to the deployment, the
\* pull request and the commit that brought the regression, and to the
\* repository, whatever ids the seed drew (graph.py:42-46, the test
\* test_graph_traces_incident_to_repo, communications.py:80-91).
IncidentLeadsToRegression ==
    gphase = "done" /\ direction = "down" /\ ~disturbed =>
        \A row \in RowsOf("Incident") :
            row.id = focus /\ Checkout \in Range(row.refs) =>
                /\ {Checkout, CommitId(Regression)} \subseteq seen
                /\ \A r \in RowsOf("PullRequest") :
                      CommitId(Regression) \in Range(r.refs) => r.id \in seen

==========================================================================
