------------------------- MODULE AgentTask_proofs -------------------------
(***************************************************************************)
(* Theorems about AgentTask: for all seeds, whatever is traced, asked and  *)
(* found, and however often the simulator runs in between.                 *)
(***************************************************************************)
EXTENDS AgentTask, FiniteSetTheorems, SequenceTheorems, WellFoundedInduction, TLAPS

--------------------------------------------------------------------------
(* Arithmetic.                                                             *)

LEMMA LessThanRelated ==
    ASSUME NEW S, S \subseteq Nat, NEW x \in S, NEW y \in S, ~(<<y, x>> \in OpToRel(<, Nat))
    PROVE  ~(y < x)
BY DEF OpToRel

\* The least of some numbers is one of them, and none is below it.
LEMMA MinMember ==
    ASSUME NEW S, S \subseteq Nat, S # {}
    PROVE  Min(S) \in S /\ \A y \in S : Min(S) <= y
<1>1. PICK x \in S : \A y \in S : ~(<<y, x>> \in OpToRel(<, Nat))
  BY NatLessThanWellFounded, WFMin
<1>2. \A y \in S : ~(y < x)
  BY <1>1, LessThanRelated
<1>3. \A y \in S : x <= y
  BY <1>2
<1> QED
  BY <1>3 DEF Min

--------------------------------------------------------------------------
(* The rows.                                                               *)

GraphIndexes == 1 .. 9

\* The rows of a table: each has an id of the table's kind and of its own, and
\* only a message has a thread.
Keyed(rows, t) ==
    /\ DOMAIN rows \subseteq Nat
    /\ \A k \in DOMAIN rows :
          /\ rows[k].id = <<t, rows[k].id[2]>>
          /\ rows[k].thread = NoThread \/ rows[k].thread[1] = "thread"
          /\ \A j \in DOMAIN rows : rows[j].id = rows[k].id => j = k

Draws(s) == s \in Seeds /\ IsInjective(s.deployments)

LEMMA SeedFacts ==
    ASSUME NEW s, Draws(s)
    PROVE  /\ s.deployments \in [1 .. 5 -> 10 .. 99] /\ s.prs \in [1 .. 5 -> 101 .. 170]
           /\ s.offset \in 0 .. 99
           /\ \A m, n \in 1 .. 5 : s.deployments[m] = s.deployments[n] => m = n
           /\ \A m, n \in 1 .. 5 : s.prs[m] = s.prs[n] => m = n
<1>1. s \in [deployments : [1 .. 5 -> 10 .. 99], prs : [1 .. 5 -> 101 .. 170], offset : 0 .. 99]
  BY OrganizationAssumption DEF Draws
<1>2. \A m, n \in 1 .. 5 : s.deployments[m] = s.deployments[n] => m = n
  BY <1>1 DEF Draws, IsInjective
<1>3. \A m, n \in 1 .. 5 : m < n => s.prs[m] < s.prs[n]
  BY OrganizationAssumption DEF Draws
<1>4. \A n \in 1 .. 5 : s.prs[n] \in Nat
  BY <1>1
<1>5. \A m, n \in 1 .. 5 : s.prs[m] = s.prs[n] => m = n
  BY <1>3, <1>4
<1> QED
  BY <1>1, <1>2, <1>5

LEMMA RepositoriesKeyed == Keyed(RepositoryRows, "Repository")
BY DEF Keyed, RepositoryRows, Row, RepoIds, Checkout, Payment, Notification, NoThread

LEMMA CommitsKeyed == Keyed(CommitRows, "Commit")
<1>1. DOMAIN CommitRows = 1 .. 5
  BY DEF CommitRows
<1>2. \A n \in 1 .. 5 : CommitRows[n].id = CommitId(n) /\ CommitRows[n].thread = NoThread
  BY DEF CommitRows, Row
<1>3. \A n \in 1 .. 5 : CommitRows[n].id = <<"Commit", CommitRows[n].id[2]>>
  BY <1>2 DEF CommitId
<1>4. \A j, k \in 1 .. 5 : CommitRows[j].id = CommitRows[k].id => j = k
  BY <1>2 DEF CommitId
<1> QED
  BY <1>1, <1>2, <1>3, <1>4 DEF Keyed

LEMMA PullRequestsKeyed == ASSUME NEW s, Draws(s) PROVE Keyed(PullRequestRows(s), "PullRequest")
<1>1. DOMAIN PullRequestRows(s) = 1 .. 5
  BY DEF PullRequestRows
<1>2. \A n \in 1 .. 5 : PullRequestRows(s)[n].id = PullRequestId(s, n) /\ PullRequestRows(s)[n].thread = NoThread
  BY DEF PullRequestRows, Row
<1>3. \A n \in 1 .. 5 : PullRequestRows(s)[n].id = <<"PullRequest", PullRequestRows(s)[n].id[2]>>
  BY <1>2 DEF PullRequestId
<1>4. \A j, k \in 1 .. 5 : PullRequestRows(s)[j].id = PullRequestRows(s)[k].id => j = k
  BY <1>2, SeedFacts DEF PullRequestId
<1> QED
  BY <1>1, <1>2, <1>3, <1>4 DEF Keyed

LEMMA DeploymentsKeyed == ASSUME NEW s, Draws(s) PROVE Keyed(DeploymentRows(s), "Deployment")
<1>1. DOMAIN DeploymentRows(s) = 1 .. 5
  BY DEF DeploymentRows
<1>2. \A n \in 1 .. 5 : DeploymentRows(s)[n].id = DeploymentId(s, n) /\ DeploymentRows(s)[n].thread = NoThread
  BY DEF DeploymentRows, Row
<1>3. \A n \in 1 .. 5 : DeploymentRows(s)[n].id = <<"Deployment", DeploymentRows(s)[n].id[2]>>
  BY <1>2 DEF DeploymentId
<1>4. \A j, k \in 1 .. 5 : DeploymentRows(s)[j].id = DeploymentRows(s)[k].id => j = k
  BY <1>2, SeedFacts DEF DeploymentId
<1> QED
  BY <1>1, <1>2, <1>3, <1>4 DEF Keyed

LEMMA IncidentsKeyed == ASSUME NEW s, Draws(s) PROVE Keyed(IncidentRows(s), "Incident")
<1>1. s.offset \in Nat
  BY SeedFacts
<1>2. 400 + s.offset # 500 + s.offset
  BY <1>1
<1> QED
  BY <1>2 DEF Keyed, IncidentRows, Row, CheckoutIncident, NotificationIncident, NoThread

LEMMA TicketsKeyed == ASSUME NEW s, Draws(s) PROVE Keyed(TicketRows(s), "Ticket")
<1>1. s.offset \in Nat
  BY SeedFacts
<1>2. 1000 + s.offset # 2000 + s.offset /\ 1000 + s.offset # 3000 + s.offset
  BY <1>1
<1>3. 2000 + s.offset # 3000 + s.offset
  BY <1>1
<1> QED
  BY <1>2, <1>3 DEF Keyed, TicketRows, Ticket, NotificationTicket, NoThread

LEMMA DocumentsKeyed == Keyed(DocumentRows, "Document") /\ Keyed(WikiRows, "WikiPage")
BY DEF Keyed, DocumentRows, WikiRows, Row, NoThread

LEMMA MessagesKeyed == ASSUME NEW s, Draws(s) PROVE Keyed(MessageRows(s), "Message")
BY DEF Keyed, MessageRows, Message, NoThread

LEMMA TablesOf ==
    ASSUME NEW s
    PROVE  /\ OrganizationOf(s)["Repository"] = RepositoryRows
           /\ OrganizationOf(s)["Commit"] = CommitRows
           /\ OrganizationOf(s)["PullRequest"] = PullRequestRows(s)
           /\ OrganizationOf(s)["Deployment"] = DeploymentRows(s)
           /\ OrganizationOf(s)["Incident"] = IncidentRows(s)
           /\ OrganizationOf(s)["Ticket"] = TicketRows(s)
           /\ OrganizationOf(s)["Document"] = DocumentRows
           /\ OrganizationOf(s)["WikiPage"] = WikiRows
           /\ OrganizationOf(s)["Message"] = MessageRows(s)
           /\ OrganizationOf(s)["LogEntry"] = LogRows(s)
           /\ OrganizationOf(s)["SimEvent"] = EventRows(s)
BY DEF OrganizationOf, TableNames

LEMMA GraphTableNumbers ==
    /\ GraphTables[1] = "Repository" /\ GraphTables[2] = "Commit"
    /\ GraphTables[3] = "PullRequest" /\ GraphTables[4] = "Deployment"
    /\ GraphTables[5] = "Incident" /\ GraphTables[6] = "Ticket"
    /\ GraphTables[7] = "Document" /\ GraphTables[8] = "WikiPage"
    /\ GraphTables[9] = "Message"
BY DEF GraphTables

\* Every table of the graph.
LEMMA OrganizationKeyed ==
    ASSUME NEW s, Draws(s), NEW i \in GraphIndexes
    PROVE  Keyed(OrganizationOf(s)[GraphTables[i]], GraphTables[i])
<1>1. i \in {1, 2, 3, 4, 5, 6, 7, 8, 9}
  BY DEF GraphIndexes
<1>2. CASE i \in {1, 2, 3}
  BY <1>2, GraphTableNumbers, TablesOf, RepositoriesKeyed, CommitsKeyed, PullRequestsKeyed
<1>3. CASE i \in {4, 5, 6}
  BY <1>3, GraphTableNumbers, TablesOf, DeploymentsKeyed, IncidentsKeyed, TicketsKeyed
<1>4. CASE i \in {7, 8, 9}
  BY <1>4, GraphTableNumbers, TablesOf, DocumentsKeyed, MessagesKeyed
<1> QED
  BY <1>1, <1>2, <1>3, <1>4

LEMMA NoRowsKeyed == ASSUME NEW t \in TableNames PROVE Keyed(NoRows[t], t)
BY DEF Keyed, NoRows

LEMMA GraphTableNames == \A i \in GraphIndexes : GraphTables[i] \in TableNames
<1> SUFFICES ASSUME NEW i \in GraphIndexes PROVE GraphTables[i] \in TableNames
  OBVIOUS
<1>1. i \in {1, 2, 3, 4, 5, 6, 7, 8, 9}
  BY DEF GraphIndexes
<1> QED
  BY <1>1 DEF GraphTables, TableNames

\* Two tables of the graph have different names.
LEMMA GraphTablesDiffer ==
    \A i, j \in GraphIndexes : GraphTables[i] = GraphTables[j] => i = j
<1> SUFFICES ASSUME NEW i \in GraphIndexes, NEW j \in GraphIndexes,
                    GraphTables[i] = GraphTables[j]
             PROVE  i = j
  OBVIOUS
<1>1. i \in {1, 2, 3, 4, 5, 6, 7, 8, 9} /\ j \in {1, 2, 3, 4, 5, 6, 7, 8, 9}
  BY DEF GraphIndexes
<1> QED
  BY <1>1 DEF GraphTables

--------------------------------------------------------------------------
(* What the database holds and what a trace has read: nothing, or the      *)
(* whole of what one seed draws.                                           *)

Whole(x) == x = NoRows \/ \E s : Draws(s) /\ x = OrganizationOf(s)

OrgInv ==
    /\ seeding \in {"idle", "dropped", "created", "flushed"}
    /\ Whole(tables)
    /\ Whole(pending)

LEMMA SeedingKeepsOrgInv == ASSUME OrgInv, SeedNext PROVE OrgInv'
<1>1. CASE DropTables
  BY <1>1 DEF DropTables, OrgInv, Whole
<1>2. CASE CreateTables
  BY <1>2 DEF CreateTables, OrgInv, Whole
<1>3. CASE Flush
  <2>1. PICK s \in Seeds : IsInjective(s.deployments) /\ pending' = OrganizationOf(s)
    BY <1>3 DEF Flush
  <2>2. Whole(pending')
    BY <2>1 DEF Whole, Draws
  <2>3. seeding' = "flushed" /\ UNCHANGED tables
    BY <1>3 DEF Flush
  <2> QED
    BY <2>2, <2>3 DEF OrgInv, Whole
<1>4. CASE FlushRaises
  BY <1>4 DEF FlushRaises, OrgInv, Whole
<1>5. CASE CommitRowsOfSeed
  BY <1>5 DEF CommitRowsOfSeed, OrgInv, Whole
<1>6. CASE Abort
  BY <1>6 DEF Abort, OrgInv, Whole
<1> QED
  BY <1>1, <1>2, <1>3, <1>4, <1>5, <1>6 DEF SeedNext

LEMMA OrgInvariant == Spec => []OrgInv
<1>1. Init => OrgInv
  BY DEF Init, OrgInit, OrgInv, Whole
<1>2. OrgInv /\ [Next]_vars => OrgInv'
  <2> SUFFICES ASSUME OrgInv, [Next]_vars PROVE OrgInv'
    OBVIOUS
  <2>1. CASE Seeding
    BY <2>1, SeedingKeepsOrgInv DEF Seeding
  <2>2. CASE UNCHANGED orgVars
    BY <2>2 DEF OrgInv, Whole, orgVars
  <2> QED
    BY <2>1, <2>2 DEF Next, Tracing, Running, vars
<1> QED
  BY <1>1, <1>2, PTL DEF Spec

FetchedRows(q, t) == q = <<>> \/ \E s : Draws(s) /\ q = OrganizationOf(s)[t]

LEMMA WholeTables ==
    ASSUME NEW x, Whole(x), NEW t \in TableNames
    PROVE  FetchedRows(x[t], t)
<1>1. CASE x = NoRows
  BY <1>1 DEF NoRows, FetchedRows
<1>2. CASE x # NoRows
  BY <1>2 DEF Whole, FetchedRows
<1> QED
  BY <1>1, <1>2

FetchInv ==
    /\ read \in 0 .. 9
    /\ DOMAIN fetched = TableNames
    /\ fetched = [t \in TableNames |-> fetched[t]]
    /\ \A t \in TableNames : FetchedRows(fetched[t], t)

LEMMA FetchKeepsFetchInv == ASSUME OrgInv, FetchInv, FetchTable PROVE FetchInv'
<1> DEFINE n == GraphTables[read + 1]
<1>1. read' = read + 1 /\ read' \in 0 .. 9 /\ read + 1 \in GraphIndexes
  BY DEF FetchTable, FetchInv, GraphIndexes
<1>2. fetched' = [fetched EXCEPT ![n] = tables[n]]
  BY <1>1 DEF FetchTable
<1>3. n \in TableNames
  BY <1>1, GraphTableNames
<1> HIDE DEF n
<1>4. fetched' = [t \in TableNames |-> fetched'[t]] /\ DOMAIN fetched' = TableNames
  BY <1>2 DEF FetchInv
<1>5. FetchedRows(tables[n], n)
  BY <1>3, WholeTables DEF OrgInv
<1>6. ASSUME NEW t \in TableNames PROVE FetchedRows(fetched'[t], t)
  <2>1. CASE t = n
    <3>1. fetched'[t] = tables[n]
      BY <1>2, <1>3, <2>1 DEF FetchInv
    <3> QED
      BY <3>1, <1>5, <2>1
  <2>2. CASE t # n
    <3>1. fetched'[t] = fetched[t]
      BY <1>2, <2>2 DEF FetchInv
    <3> QED
      BY <3>1 DEF FetchInv
  <2> QED
    BY <2>1, <2>2
<1> QED
  BY <1>1, <1>4, <1>6 DEF FetchInv, FetchedRows

LEMMA FetchInvariant == Spec => []FetchInv
<1>1. Init => FetchInv
  BY DEF Init, GraphInit, FetchInv, FetchedRows, NoRows
<1>2. OrgInv /\ FetchInv /\ [Next]_vars => FetchInv'
  <2> SUFFICES ASSUME OrgInv, FetchInv, [Next]_vars PROVE FetchInv'
    OBVIOUS
  <2>1. CASE FetchTable
    BY <2>1, FetchKeepsFetchInv
  <2>2. CASE UNCHANGED <<read, fetched>>
    BY <2>2 DEF FetchInv, FetchedRows
  <2> QED
    BY <2>1, <2>2 DEF Next, Tracing, Running, Seeding, GraphNext, StartTrace, FetchRaises,
       Built, Walk, vars, graphVars
<1> QED
  BY <1>1, <1>2, OrgInvariant, PTL DEF Spec

LEMMA FetchedKeyed ==
    ASSUME FetchInv, NEW i \in GraphIndexes
    PROVE  Keyed(fetched[GraphTables[i]], GraphTables[i])
<1>1. FetchedRows(fetched[GraphTables[i]], GraphTables[i])
  BY GraphTableNames DEF FetchInv
<1>2. CASE fetched[GraphTables[i]] = <<>>
  BY <1>2 DEF Keyed
<1>3. CASE fetched[GraphTables[i]] # <<>>
  <2>1. PICK s : Draws(s) /\ fetched[GraphTables[i]] = OrganizationOf(s)[GraphTables[i]]
    BY <1>1, <1>3 DEF FetchedRows
  <2> QED
    BY <2>1, OrganizationKeyed
<1> QED
  BY <1>2, <1>3

--------------------------------------------------------------------------
(* The edges go down: to a thread, or to a row that was added before.      *)

IsThread(x)       == x[1] = "thread"
PlacedAt(x, i, k) == i \in GraphIndexes /\ k \in Places(i) /\ x = RowAt(i, k).id
Down(x, y) ==
    \/ IsThread(y)
    \/ \E i, j, k, l :
          PlacedAt(x, i, k) /\ PlacedAt(y, j, l) /\ (j < i \/ (j = i /\ l <= k))

LEMMA PlacedOnce ==
    ASSUME FetchInv, NEW x, NEW i, NEW k, PlacedAt(x, i, k)
    PROVE  /\ ~IsThread(x) /\ i \in Nat /\ k \in Nat
           /\ \A j, l : PlacedAt(x, j, l) => j = i /\ l = k
<1>1. i \in GraphIndexes /\ k \in DOMAIN fetched[GraphTables[i]]
      /\ x = fetched[GraphTables[i]][k].id
  BY DEF PlacedAt, Places, RowAt
<1>2. Keyed(fetched[GraphTables[i]], GraphTables[i])
  BY <1>1, FetchedKeyed
<1>3. x[1] = GraphTables[i] /\ k \in Nat /\ i \in Nat
  BY <1>1, <1>2 DEF Keyed, GraphIndexes
<1>4. \A n \in GraphIndexes : GraphTables[n] # "thread"
  BY GraphTableNames DEF TableNames
<1>5. ~IsThread(x)
  BY <1>1, <1>3, <1>4 DEF IsThread
<1>6. ASSUME NEW j, NEW l, PlacedAt(x, j, l) PROVE j = i /\ l = k
  <2>1. j \in GraphIndexes /\ l \in DOMAIN fetched[GraphTables[j]]
        /\ x = fetched[GraphTables[j]][l].id
    BY <1>6 DEF PlacedAt, Places, RowAt
  <2>2. Keyed(fetched[GraphTables[j]], GraphTables[j])
    BY <2>1, FetchedKeyed
  <2>3. x[1] = GraphTables[j]
    BY <2>1, <2>2 DEF Keyed
  <2>4. j = i
    BY <1>1, <1>3, <2>1, <2>3, GraphTablesDiffer
  <2> QED
    BY <1>1, <1>2, <2>1, <2>4 DEF Keyed
<1> QED
  BY <1>3, <1>5, <1>6

LEMMA EdgesGoDown ==
    ASSUME FetchInv, NEW e \in Edges
    PROVE  Down(e[1], e[2]) /\ ~IsThread(e[1])
<1>0. PICK i \in 1 .. 9 : \E k \in Places(i) : e \in EdgesOf(i, k)
  BY DEF Edges
<1>1. PICK k \in Places(i) : e \in EdgesOf(i, k)
  BY <1>0
<1> DEFINE row == RowAt(i, k)
<1>2. e[1] = row.id
      /\ e[2] \in (Range(row.refs) \cap Known(i, k)) \cup ({row.thread} \ {NoThread})
  BY <1>1 DEF EdgesOf
<1>3. PlacedAt(e[1], i, k)
  BY <1>1, <1>2 DEF PlacedAt, GraphIndexes
<1>4. CASE e[2] \in {row.thread} \ {NoThread}
  <2>1. Keyed(fetched[GraphTables[i]], GraphTables[i])
    BY FetchedKeyed DEF GraphIndexes
  <2>2. IsThread(e[2])
    BY <1>1, <1>4, <2>1 DEF Keyed, IsThread, Places, RowAt
  <2> QED
    BY <2>2, <1>3, PlacedOnce DEF Down
<1>5. CASE e[2] \in Known(i, k)
  <2>1. CASE e[2] \in UNION {{RowAt(j, l).id : l \in Places(j)} : j \in 1 .. i - 1}
    <3>0. PICK j \in 1 .. i - 1 : \E l \in Places(j) : e[2] = RowAt(j, l).id
      BY <2>1
    <3>1. PICK l \in Places(j) : e[2] = RowAt(j, l).id
      BY <3>0
    <3>2. PlacedAt(e[2], j, l) /\ j < i
      BY <3>1 DEF PlacedAt, GraphIndexes
    <3> QED
      BY <3>2, <1>3, PlacedOnce DEF Down
  <2>2. CASE e[2] \in {RowAt(i, l).id : l \in {l \in Places(i) : l <= k}}
    <3>1. PICK l \in Places(i) : l <= k /\ e[2] = RowAt(i, l).id
      BY <2>2
    <3>2. PlacedAt(e[2], i, l)
      BY <3>1 DEF PlacedAt, GraphIndexes
    <3> QED
      BY <3>1, <3>2, <1>3, PlacedOnce DEF Down
  <2> QED
    BY <1>5, <2>1, <2>2 DEF Known
<1> QED
  BY <1>2, <1>4, <1>5

LEMMA DownTransitive ==
    ASSUME FetchInv, NEW x, NEW y, NEW z, Down(x, y), Down(y, z)
    PROVE  Down(x, z)
<1>1. CASE IsThread(z)
  BY <1>1 DEF Down
<1>2. CASE ~IsThread(z)
  <2>1. PICK i, j, k, l :
           PlacedAt(y, i, k) /\ PlacedAt(z, j, l) /\ (j < i \/ (j = i /\ l <= k))
    BY <1>2 DEF Down
  <2>2. ~IsThread(y)
    BY <2>1, PlacedOnce
  <2>3. PICK m, n, p, q :
           PlacedAt(x, m, p) /\ PlacedAt(y, n, q) /\ (n < m \/ (n = m /\ q <= p))
    BY <2>2 DEF Down
  <2>4. n = i /\ q = k
    BY <2>1, <2>3, PlacedOnce
  <2>5. i \in Nat /\ j \in Nat /\ k \in Nat /\ l \in Nat /\ m \in Nat /\ p \in Nat
    BY <2>1, <2>3, PlacedOnce
  <2>6. j < m \/ (j = m /\ l <= p)
    BY <2>1, <2>3, <2>4, <2>5
  <2> QED
    BY <2>1, <2>3, <2>6 DEF Down
<1> QED
  BY <1>1, <1>2

LEMMA DownAntisymmetric ==
    ASSUME FetchInv, NEW x, NEW y, Down(x, y), Down(y, x), ~IsThread(y)
    PROVE  x = y
<1>1. PICK i, j, k, l :
         PlacedAt(x, i, k) /\ PlacedAt(y, j, l) /\ (j < i \/ (j = i /\ l <= k))
  BY DEF Down
<1>2. ~IsThread(x)
  BY <1>1, PlacedOnce
<1>3. PICK m, n, p, q :
         PlacedAt(y, m, p) /\ PlacedAt(x, n, q) /\ (n < m \/ (n = m /\ q <= p))
  BY <1>2 DEF Down
<1>4. m = j /\ p = l /\ n = i /\ q = k
  BY <1>1, <1>3, PlacedOnce
<1>5. i \in Nat /\ j \in Nat /\ k \in Nat /\ l \in Nat
  BY <1>1, PlacedOnce
<1>6. i = j /\ k = l
  BY <1>1, <1>3, <1>4, <1>5
<1> QED
  BY <1>1, <1>6 DEF PlacedAt

\* What a trace has seen lies on its side of the entity it started from.
SeenInv ==
    /\ gphase \in {"idle", "build"} => seen = {}
    /\ focus \notin seen
    /\ direction = "down" => \A y \in seen : Down(focus, y)
    /\ direction # "down" => \A y \in seen : Down(y, focus)

LEMMA WalkKeepsSeenInv == ASSUME FetchInv, SeenInv, Walk PROVE SeenInv'
<1>1. gphase' \notin {"idle", "build"} /\ seen' = (seen \cup NextOf(seen \cup {focus})) \ {focus}
  BY DEF Walk
<1>2. UNCHANGED <<focus, direction, fetched>>
  BY DEF Walk
<1>3. ASSUME direction = "down", NEW y \in NextOf(seen \cup {focus}) PROVE Down(focus, y)
  <2>1. PICK e \in Edges : e[1] \in seen \cup {focus} /\ y = e[2]
    BY <1>3 DEF NextOf, Successors
  <2>2. Down(e[1], y)
    BY <2>1, EdgesGoDown
  <2>3. e[1] = focus \/ Down(focus, e[1])
    BY <1>3, <2>1 DEF SeenInv
  <2> QED
    BY <2>2, <2>3, DownTransitive
<1>4. ASSUME direction # "down", NEW y \in NextOf(seen \cup {focus}) PROVE Down(y, focus)
  <2>1. PICK e \in Edges : e[2] \in seen \cup {focus} /\ y = e[1]
    BY <1>4 DEF NextOf, Predecessors
  <2>2. Down(y, e[2])
    BY <2>1, EdgesGoDown
  <2>3. e[2] = focus \/ Down(e[2], focus)
    BY <1>4, <2>1 DEF SeenInv
  <2> QED
    BY <2>2, <2>3, DownTransitive
<1>5. direction = "down" => \A y \in seen' : Down(focus, y)
  BY <1>1, <1>3 DEF SeenInv
<1>6. direction # "down" => \A y \in seen' : Down(y, focus)
  BY <1>1, <1>4 DEF SeenInv
<1>7. focus \notin seen'
  BY <1>1
<1> QED
  BY <1>1, <1>2, <1>5, <1>6, <1>7 DEF SeenInv, Down, PlacedAt, Places, RowAt

LEMMA SeenInvariant == Spec => []SeenInv
<1>1. Init => SeenInv
  BY DEF Init, GraphInit, SeenInv
<1>2. FetchInv /\ SeenInv /\ [Next]_vars => SeenInv'
  <2> SUFFICES ASSUME FetchInv, SeenInv, [Next]_vars PROVE SeenInv'
    OBVIOUS
  <2>1. CASE Walk
    BY <2>1, WalkKeepsSeenInv
  <2>2. CASE StartTrace \/ FetchTable
    <3>1. seen = {} /\ seen' = {}
      BY <2>2 DEF SeenInv, StartTrace, FetchTable
    <3> QED
      BY <3>1 DEF SeenInv
  <2>3. CASE FetchRaises \/ Built
    <3>1. UNCHANGED <<focus, direction, fetched, seen>> /\ gphase' \notin {"idle", "build"}
      BY <2>3 DEF FetchRaises, Built
    <3> QED
      BY <3>1 DEF SeenInv, Down, PlacedAt, Places, RowAt
  <2>4. CASE UNCHANGED graphVars
    <3>1. UNCHANGED <<gphase, focus, direction, fetched, seen>>
      BY <2>4 DEF graphVars
    <3> QED
      BY <3>1 DEF SeenInv, Down, PlacedAt, Places, RowAt
  <2> QED
    BY <2>1, <2>2, <2>3, <2>4 DEF Next, Tracing, Running, Seeding, GraphNext, vars
<1> QED
  BY <1>1, <1>2, FetchInvariant, PTL DEF Spec

LEMMA SeenIsAcyclic == FetchInv /\ SeenInv => TracesDoNotCycle
<1> SUFFICES ASSUME FetchInv, SeenInv, focus \in NextOf(seen) PROVE FALSE
  BY DEF TracesDoNotCycle
<1>1. CASE direction = "down"
  <2>1. PICK e \in Edges : e[1] \in seen /\ focus = e[2]
    BY <1>1 DEF NextOf, Successors
  <2>2. Down(e[1], focus) /\ ~IsThread(e[1]) /\ Down(focus, e[1])
    BY <1>1, <2>1, EdgesGoDown DEF SeenInv
  <2> QED
    BY <2>1, <2>2, DownAntisymmetric DEF SeenInv
<1>2. CASE direction # "down"
  <2>1. PICK e \in Edges : e[2] \in seen /\ focus = e[1]
    BY <1>2 DEF NextOf, Predecessors
  <2>2. Down(focus, e[2]) /\ ~IsThread(focus) /\ Down(e[2], focus)
    BY <1>2, <2>1, EdgesGoDown DEF SeenInv
  <2> QED
    BY <2>1, <2>2, DownAntisymmetric DEF SeenInv
<1> QED
  BY <1>1, <1>2

\* Nothing a trace has found leads back to where it started, whatever the rows
\* are and wherever the simulator interrupts it.
THEOREM TracesAreAcyclic == Spec => []TracesDoNotCycle
<1> QED
  BY FetchInvariant, SeenInvariant, SeenIsAcyclic, PTL

--------------------------------------------------------------------------
(* An undisturbed graph is that of the committed rows.                     *)

CurrentInv ==
    /\ gphase = "idle" => read = 0
    /\ gphase \in {"walk", "done"} => read = 9
    /\ gphase # "raised" /\ ~disturbed =>
           \A i \in 1 .. read : fetched[GraphTables[i]] = tables[GraphTables[i]]

LEMMA FetchKeepsCurrentInv == ASSUME FetchInv, CurrentInv, Tracing, FetchTable PROVE CurrentInv'
<1>1. read' = read + 1 /\ read + 1 \in GraphIndexes /\ gphase = "build" /\ gphase' = "build"
  BY DEF FetchTable, FetchInv, GraphIndexes
<1>2. fetched' = [fetched EXCEPT ![GraphTables[read + 1]] = tables[GraphTables[read + 1]]]
  BY <1>1 DEF FetchTable
<1>3. ASSUME NEW i \in 1 .. read + 1, ~disturbed
      PROVE  fetched'[GraphTables[i]] = tables[GraphTables[i]]
  <2>1. i \in GraphIndexes /\ GraphTables[i] \in TableNames
    BY <1>1, GraphTableNames DEF GraphIndexes
  <2>2. CASE i = read + 1
    <3>1. GraphTables[i] = GraphTables[read + 1]
      BY <2>2
    <3> QED
      BY <1>2, <2>1, <3>1 DEF FetchInv
  <2>3. CASE i # read + 1
    <3>1. GraphTables[i] # GraphTables[read + 1]
      BY <1>1, <2>1, <2>3, GraphTablesDiffer
    <3>2. i \in 1 .. read
      BY <1>3, <2>3 DEF FetchInv
    <3>3. fetched[GraphTables[i]] = tables[GraphTables[i]]
      BY <1>1, <1>3, <3>2 DEF CurrentInv
    <3> QED
      BY <1>2, <2>1, <3>1, <3>3 DEF FetchInv
  <2> QED
    BY <2>2, <2>3
<1>4. UNCHANGED <<tables, disturbed>>
  BY DEF Tracing, orgVars
<1> QED
  BY <1>1, <1>3, <1>4 DEF CurrentInv

LEMMA CurrentInvariant == Spec => []CurrentInv
<1>1. Init => CurrentInv
  BY DEF Init, GraphInit, CurrentInv
<1>2. FetchInv /\ CurrentInv /\ [Next]_vars => CurrentInv'
  <2> SUFFICES ASSUME FetchInv, CurrentInv, [Next]_vars PROVE CurrentInv'
    OBVIOUS
  <2>1. CASE Seeding
    <3>1. UNCHANGED <<gphase, read, fetched>>
      BY <2>1 DEF Seeding, graphVars
    <3>2. CASE tables' = tables
      BY <2>1, <3>1, <3>2 DEF Seeding, CurrentInv
    <3>3. CASE gphase = "idle"
      BY <3>1, <3>3 DEF CurrentInv
    <3>4. CASE tables' # tables /\ gphase \notin {"idle", "raised"}
      BY <2>1, <3>1, <3>4 DEF Seeding, UnderWay, CurrentInv
    <3> QED
      BY <3>1, <3>2, <3>3, <3>4 DEF CurrentInv
  <2>2. CASE Tracing /\ FetchTable
    BY <2>2, FetchKeepsCurrentInv
  <2>3. CASE Tracing /\ ~FetchTable
    <3>1. UNCHANGED <<tables, disturbed>>
      BY <2>3 DEF Tracing, orgVars
    <3>2. UNCHANGED <<read, fetched>>
      BY <2>3 DEF Tracing, GraphNext, StartTrace, FetchRaises, Built, Walk
    <3>3. \/ gphase' = "build" /\ gphase = "idle"
          \/ gphase' = "raised"
          \/ (gphase' \in {"walk", "done"} /\ read = 9 /\ gphase # "raised")
      BY <2>3 DEF Tracing, GraphNext, StartTrace, FetchRaises, Built, Walk, CurrentInv
    <3> QED
      BY <3>1, <3>2, <3>3 DEF CurrentInv
  <2>4. CASE Running \/ UNCHANGED vars
    <3>1. UNCHANGED <<gphase, read, fetched, tables, disturbed>>
      BY <2>4 DEF Running, vars, graphVars, orgVars
    <3> QED
      BY <3>1 DEF CurrentInv
  <2> QED
    BY <2>1, <2>2, <2>3, <2>4 DEF Next
<1> QED
  BY <1>1, <1>2, FetchInvariant, PTL DEF Spec

\* What the rows of a table refer to.
Refers(rows, kinds) ==
    \A k \in DOMAIN rows :
        /\ DOMAIN rows[k].refs \subseteq Nat
        /\ \A n \in DOMAIN rows[k].refs : rows[k].refs[n][1] \in kinds

LEMMA SimpleRefers ==
    /\ Refers(RepositoryRows, {})
    /\ Refers(CommitRows, {"Repository"})
    /\ Refers(DocumentRows, {"Repository", "PullRequest"})
    /\ Refers(WikiRows, {"Repository"})
<1>1. Refers(RepositoryRows, {})
  BY DEF Refers, RepositoryRows, Row
<1>2. \A n \in 1 .. 5 : RepoOfCommit[n][1] \in {"Repository"}
  BY DEF RepoOfCommit, Checkout, Payment, Notification
<1>3. Refers(CommitRows, {"Repository"})
  BY <1>2 DEF Refers, CommitRows, Row
<1>4. Refers(WikiRows, {"Repository"})
  BY DEF Refers, WikiRows, Row, Checkout
<1>5. Refers(DocumentRows, {"Repository", "PullRequest"})
  <2>1. /\ DOMAIN DocumentRows = 1 .. 4
        /\ DocumentRows[1].refs = RepoIds
        /\ DocumentRows[2].refs = <<Checkout>>
        /\ DocumentRows[3].refs = <<Payment, <<"PullRequest", 118>>>>
        /\ DocumentRows[4].refs = <<Notification>>
    BY DEF DocumentRows, Row
  <2>2. Checkout[1] = "Repository" /\ Payment[1] = "Repository" /\ Notification[1] = "Repository"
    BY DEF Checkout, Payment, Notification
  <2>3. ASSUME NEW k \in 1 .. 4
        PROVE  /\ DOMAIN DocumentRows[k].refs \subseteq Nat
               /\ \A n \in DOMAIN DocumentRows[k].refs :
                     DocumentRows[k].refs[n][1] \in {"Repository", "PullRequest"}
    <3>1. CASE k = 1
      BY <2>1, <2>2, <3>1 DEF RepoIds
    <3>2. CASE k = 2
      BY <2>1, <2>2, <3>2
    <3>3. CASE k = 3
      BY <2>1, <2>2, <3>3
    <3>4. CASE k = 4
      BY <2>1, <2>2, <3>4
    <3> QED
      BY <3>1, <3>2, <3>3, <3>4
  <2> QED
    BY <2>1, <2>3 DEF Refers
<1> QED
  BY <1>1, <1>3, <1>4, <1>5

LEMMA SeedRefers ==
    ASSUME NEW s
    PROVE  /\ Refers(PullRequestRows(s), {"Repository", "Commit"})
           /\ Refers(DeploymentRows(s), {"Repository", "PullRequest"})
           /\ Refers(IncidentRows(s), {"Repository", "Deployment"})
           /\ Refers(TicketRows(s), {"Incident"})
           /\ Refers(MessageRows(s), {"Repository", "PullRequest", "Incident"})
           /\ Refers(LogRows(s), {"Repository", "Deployment"})
<1>1. \A n \in 1 .. 5 : RepoOfCommit[n][1] = "Repository"
  BY DEF RepoOfCommit, Checkout, Payment, Notification
<1>2. Refers(PullRequestRows(s), {"Repository", "Commit"})
  BY <1>1 DEF Refers, PullRequestRows, Row, CommitId
<1>3. Refers(DeploymentRows(s), {"Repository", "PullRequest"})
  BY <1>1 DEF Refers, DeploymentRows, Row, PullRequestId
<1>4. Refers(IncidentRows(s), {"Repository", "Deployment"})
  BY DEF Refers, IncidentRows, Row, Checkout, Notification, DeploymentId
<1>5. Refers(TicketRows(s), {"Incident"})
  BY DEF Refers, TicketRows, Ticket, CheckoutIncident, NotificationIncident
<1>6. Refers(MessageRows(s), {"Repository", "PullRequest", "Incident"})
  <2> DEFINE kinds == {"Repository", "PullRequest", "Incident"}
  <2>1. /\ \A n : PullRequestId(s, n)[1] \in kinds
        /\ CheckoutIncident(s)[1] \in kinds /\ NotificationIncident(s)[1] \in kinds
        /\ Checkout[1] \in kinds /\ Payment[1] \in kinds /\ Notification[1] \in kinds
    BY DEF Checkout, Payment, Notification, PullRequestId, CheckoutIncident,
       NotificationIncident
  <2> HIDE DEF kinds
  <2>2. DOMAIN MessageRows(s) = 1 .. 6
    BY DEF MessageRows
  <2>3. \A k \in {1, 2, 4} : MessageRows(s)[k].refs = <<PullRequestId(s, Regression), Checkout>>
                            \/ MessageRows(s)[k].refs = <<PullRequestId(s, Regression)>>
    BY DEF MessageRows, Message
  <2>4. /\ MessageRows(s)[3].refs = <<CheckoutIncident(s), Checkout>>
        /\ MessageRows(s)[5].refs = <<PullRequestId(s, Fallback), Payment>>
        /\ MessageRows(s)[6].refs = <<NotificationIncident(s), Notification>>
    BY DEF MessageRows, Message
  <2>5. ASSUME NEW k \in 1 .. 6
        PROVE  /\ DOMAIN MessageRows(s)[k].refs \subseteq Nat
               /\ \A n \in DOMAIN MessageRows(s)[k].refs : MessageRows(s)[k].refs[n][1] \in kinds
    <3>1. CASE k \in {1, 2, 4}
      BY <2>1, <2>3, <3>1
    <3>2. CASE k \in {3, 5, 6}
      BY <2>1, <2>4, <3>2
    <3> QED
      BY <3>1, <3>2
  <2> QED
    BY <2>2, <2>5 DEF Refers, kinds
<1>7. Refers(LogRows(s), {"Repository", "Deployment"})
  BY DEF Refers, LogRows, Row, Checkout, DeploymentId
<1> QED
  BY <1>2, <1>3, <1>4, <1>5, <1>6, <1>7

\* The kinds of the tables that are added before the i-th.
KindsBefore(i) == {GraphTables[j] : j \in 1 .. i - 1}

LEMMA RefersToMore ==
    ASSUME NEW rows, NEW A, NEW B, A \subseteq B, Refers(rows, A)
    PROVE  Refers(rows, B)
BY DEF Refers

LEMMA RefersBack ==
    ASSUME NEW s, NEW i \in GraphIndexes
    PROVE  Refers(OrganizationOf(s)[GraphTables[i]], KindsBefore(i))
<1>1. i \in {1, 2, 3, 4, 5, 6, 7, 8, 9}
  BY DEF GraphIndexes
<1>2. CASE i = 1
  <2>1. {} \subseteq KindsBefore(i)
    OBVIOUS
  <2> QED
    BY <1>2, <2>1, GraphTableNumbers, TablesOf, SimpleRefers, RefersToMore
<1>3. CASE i = 2
  <2>1. {"Repository"} \subseteq KindsBefore(i)
    BY <1>3, GraphTableNumbers DEF KindsBefore
  <2> QED
    BY <1>3, <2>1, GraphTableNumbers, TablesOf, SimpleRefers, RefersToMore
<1>4. CASE i = 3
  <2>1. {"Repository", "Commit"} \subseteq KindsBefore(i)
    BY <1>4, GraphTableNumbers DEF KindsBefore
  <2> QED
    BY <1>4, <2>1, GraphTableNumbers, TablesOf, SeedRefers, RefersToMore
<1>5. CASE i = 4
  <2>1. {"Repository", "PullRequest"} \subseteq KindsBefore(i)
    BY <1>5, GraphTableNumbers DEF KindsBefore
  <2> QED
    BY <1>5, <2>1, GraphTableNumbers, TablesOf, SeedRefers, RefersToMore
<1>6. CASE i = 5
  <2>1. {"Repository", "Deployment"} \subseteq KindsBefore(i)
    BY <1>6, GraphTableNumbers DEF KindsBefore
  <2> QED
    BY <1>6, <2>1, GraphTableNumbers, TablesOf, SeedRefers, RefersToMore
<1>7. CASE i = 6
  <2>1. {"Incident"} \subseteq KindsBefore(i)
    BY <1>7, GraphTableNumbers DEF KindsBefore
  <2> QED
    BY <1>7, <2>1, GraphTableNumbers, TablesOf, SeedRefers, RefersToMore
<1>8. CASE i = 7
  <2>1. {"Repository", "PullRequest"} \subseteq KindsBefore(i)
    BY <1>8, GraphTableNumbers DEF KindsBefore
  <2> QED
    BY <1>8, <2>1, GraphTableNumbers, TablesOf, SimpleRefers, RefersToMore
<1>9. CASE i = 8
  <2>1. {"Repository"} \subseteq KindsBefore(i)
    BY <1>9, GraphTableNumbers DEF KindsBefore
  <2> QED
    BY <1>9, <2>1, GraphTableNumbers, TablesOf, SimpleRefers, RefersToMore
<1>10. CASE i = 9
  <2>1. {"Repository", "PullRequest", "Incident"} \subseteq KindsBefore(i)
    BY <1>10, GraphTableNumbers DEF KindsBefore
  <2> QED
    BY <1>10, <2>1, GraphTableNumbers, TablesOf, SeedRefers, RefersToMore
<1> QED
  BY <1>1, <1>2, <1>3, <1>4, <1>5, <1>6, <1>7, <1>8, <1>9, <1>10

LEMMA CurrentRows ==
    ASSUME FetchInv, CurrentInv, gphase \in {"walk", "done"}, ~disturbed,
           NEW i \in GraphIndexes
    PROVE  fetched[GraphTables[i]] = tables[GraphTables[i]]
BY DEF CurrentInv, GraphIndexes

\* Every id is of the kind of its table.
LEMMA IdsHaveKinds ==
    ASSUME OrgInv, NEW t \in TableNames \ {"SimEvent"}, NEW l \in DOMAIN tables[t]
    PROVE  tables[t][l].id[1] = t
<1>1. tables # NoRows
  BY DEF NoRows
<1>2. PICK s : Draws(s) /\ tables = OrganizationOf(s)
  BY <1>1 DEF OrgInv, Whole
<1>3. CASE t = "LogEntry"
  <2>1. tables[t] = LogRows(s)
    BY <1>2, <1>3, TablesOf
  <2>2. \A k \in DOMAIN LogRows(s) : LogRows(s)[k].id = <<"LogEntry", 1>>
    BY DEF LogRows, Row
  <2> QED
    BY <1>3, <2>1, <2>2
<1>4. CASE t # "LogEntry"
  <2>1. PICK i \in GraphIndexes : t = GraphTables[i]
    <3>1. t \in {GraphTables[1], GraphTables[2], GraphTables[3], GraphTables[4], GraphTables[5],
                 GraphTables[6], GraphTables[7], GraphTables[8], GraphTables[9]}
      BY <1>4, GraphTableNumbers DEF TableNames
    <3> QED
      BY <3>1 DEF GraphIndexes
  <2>2. Keyed(tables[t], t)
    BY <1>2, <2>1, OrganizationKeyed
  <2>3. tables[t][l].id = <<t, tables[t][l].id[2]>>
    BY <2>2 DEF Keyed
  <2> QED
    BY <2>3
<1> QED
  BY <1>3, <1>4

LEMMA EveryReferenceHasItsEdge == OrgInv /\ FetchInv /\ CurrentInv => NoReferenceLost
<1> SUFFICES ASSUME OrgInv, FetchInv, CurrentInv, gphase \in {"walk", "done"}, ~disturbed,
                    NEW i \in GraphIndexes, NEW row \in RowsOf(GraphTables[i]),
                    NEW x \in Range(row.refs),
                    NEW t \in TableNames \ {"SimEvent"}, x \in IdsOf(t)
             PROVE  <<row.id, x>> \in Edges
  BY DEF NoReferenceLost, GraphIndexes
<1>1. PICK k \in DOMAIN tables[GraphTables[i]] : row = tables[GraphTables[i]][k]
  BY DEF RowsOf
<1>2. tables # NoRows
  BY <1>1, GraphTableNames DEF NoRows
<1>3. PICK s : Draws(s) /\ tables = OrganizationOf(s)
  BY <1>2 DEF OrgInv, Whole
<1>4. x[1] \in KindsBefore(i)
  <2>1. PICK n \in DOMAIN row.refs : x = row.refs[n]
    BY DEF Range
  <2> QED
    BY <1>1, <1>3, <2>1, RefersBack DEF Refers
<1>5. PICK j \in 1 .. i - 1 : x[1] = GraphTables[j]
  BY <1>4 DEF KindsBefore
<1>6. PICK l \in DOMAIN tables[t] : x = tables[t][l].id
  BY DEF IdsOf, RowsOf
<1>7. t = GraphTables[j] /\ j \in GraphIndexes
  BY <1>5, <1>6, IdsHaveKinds DEF GraphIndexes
<1>8. l \in Places(j) /\ x = RowAt(j, l).id
  BY <1>6, <1>7, CurrentRows DEF Places, RowAt
<1>9. k \in Places(i) /\ row = RowAt(i, k)
  BY <1>1, CurrentRows DEF Places, RowAt
<1>10. x \in Known(i, k)
  BY <1>5, <1>8 DEF Known
<1>11. <<row.id, x>> \in EdgesOf(i, k)
  BY <1>9, <1>10 DEF EdgesOf
<1> QED
  BY <1>9, <1>11 DEF Edges, GraphIndexes

\* Every reference of a row to an entity that exists is an edge of a graph that
\* no run of the simulator came between, whatever the seed drew.
THEOREM ReferencesAreEdges == Spec => []NoReferenceLost
<1> QED
  BY OrgInvariant, FetchInvariant, CurrentInvariant, EveryReferenceHasItsEdge, PTL

--------------------------------------------------------------------------
(* A trace that is done has followed every edge.                           *)

ClosedInv ==
    gphase = "done" =>
        focus \notin Nodes \/ \A y \in NextOf(seen \cup {focus}) : y # focus => y \in seen

LEMMA GraphUnchanged ==
    ASSUME UNCHANGED <<direction, fetched>>
    PROVE  Edges' = Edges /\ Nodes' = Nodes /\ \A S : NextOf(S)' = NextOf(S)
<1>1. \A i, k : RowAt(i, k)' = RowAt(i, k)
  BY DEF RowAt
<1>2. \A i : Places(i)' = Places(i)
  BY DEF Places
<1>3. \A i, k : Known(i, k)' = Known(i, k)
  BY <1>1, <1>2 DEF Known
<1>4. \A i, k : EdgesOf(i, k)' = EdgesOf(i, k)
  BY <1>1, <1>3 DEF EdgesOf
<1>5. Edges' = Edges
  BY <1>2, <1>4 DEF Edges
<1>6. Nodes' = Nodes
  BY <1>1, <1>2, <1>5 DEF Nodes
<1> QED
  BY <1>5, <1>6 DEF NextOf, Successors, Predecessors

LEMMA NeighboursUnchanged ==
    ASSUME UNCHANGED <<direction, fetched, focus, seen>>
    PROVE  NextOf(seen \cup {focus})' = NextOf(seen \cup {focus})
<1>1. Edges' = Edges
  BY GraphUnchanged
<1>2. Successors(seen \cup {focus})' = Successors(seen \cup {focus})
  BY <1>1 DEF Successors
<1>3. Predecessors(seen \cup {focus})' = Predecessors(seen \cup {focus})
  BY <1>1 DEF Predecessors
<1> QED
  BY <1>2, <1>3 DEF NextOf

LEMMA ClosedInvariant == Spec => []ClosedInv
<1>1. Init => ClosedInv
  BY DEF Init, GraphInit, ClosedInv
<1>2. ClosedInv /\ [Next]_vars => ClosedInv'
  <2> SUFFICES ASSUME ClosedInv, [Next]_vars PROVE ClosedInv'
    OBVIOUS
  <2>1. CASE StartTrace \/ FetchTable \/ FetchRaises
    BY <2>1 DEF StartTrace, FetchTable, FetchRaises, ClosedInv
  <2>2. CASE Built
    <3>1. UNCHANGED <<focus, direction, fetched, seen>> /\ (focus \in Nodes => gphase' = "walk")
      BY <2>2 DEF Built
    <3>2. Nodes' = Nodes
      BY <3>1, GraphUnchanged
    <3> QED
      BY <3>1, <3>2 DEF ClosedInv
  <2>3. CASE Walk
    <3>1. /\ seen' = (seen \cup NextOf(seen \cup {focus})) \ {focus}
          /\ gphase' = "done" => seen' = seen
          /\ UNCHANGED <<focus, direction, fetched>>
      BY <2>3 DEF Walk
    <3>2. CASE gphase' = "done"
      <4>1. seen' = seen /\ \A y \in NextOf(seen \cup {focus}) : y # focus => y \in seen
        BY <3>1, <3>2
      <4>2. NextOf(seen \cup {focus})' = NextOf(seen \cup {focus})
        BY <3>1, <4>1, NeighboursUnchanged
      <4> QED
        BY <3>1, <4>1, <4>2 DEF ClosedInv
    <3> QED
      BY <3>2 DEF ClosedInv
  <2>4. CASE UNCHANGED graphVars
    <3>1. UNCHANGED <<gphase, focus, direction, fetched, seen>>
      BY <2>4 DEF graphVars
    <3>2. Nodes' = Nodes /\ NextOf(seen \cup {focus})' = NextOf(seen \cup {focus})
      BY <3>1, GraphUnchanged, NeighboursUnchanged
    <3> QED
      BY <3>1, <3>2 DEF ClosedInv
  <2> QED
    BY <2>1, <2>2, <2>3, <2>4 DEF Next, Tracing, Running, Seeding, GraphNext, vars
<1> QED
  BY <1>1, <1>2, PTL DEF Spec

\* The chain from the first incident: its deployment, the pull request of that,
\* and the commit.
LEMMA RegressionChain ==
    ASSUME OrgInv, NEW row \in RowsOf("Incident"), Checkout \in Range(row.refs)
    PROVE  \E s :
             /\ Draws(s) /\ tables = OrganizationOf(s)
             /\ row.id = CheckoutIncident(s)
             /\ DeploymentId(s, Regression) \in Range(row.refs)
             /\ \E d \in RowsOf("Deployment") :
                   /\ d.id = DeploymentId(s, Regression)
                   /\ PullRequestId(s, Regression) \in Range(d.refs)
             /\ \E p \in RowsOf("PullRequest") :
                   /\ p.id = PullRequestId(s, Regression)
                   /\ CommitId(Regression) \in Range(p.refs)
             /\ Checkout \in IdsOf("Repository") /\ CommitId(Regression) \in IdsOf("Commit")
             /\ \A r \in RowsOf("PullRequest") :
                   CommitId(Regression) \in Range(r.refs) => r.id = PullRequestId(s, Regression)
<1>1. PICK k \in DOMAIN tables["Incident"] : row = tables["Incident"][k]
  BY DEF RowsOf
<1>2. tables # NoRows
  BY <1>1 DEF NoRows, TableNames
<1>3. PICK s : Draws(s) /\ tables = OrganizationOf(s)
  BY <1>2 DEF OrgInv, Whole
<1>4. row = Row(CheckoutIncident(s), <<Checkout, DeploymentId(s, Regression)>>)
  <2>1. row = IncidentRows(s)[k] /\ k \in {1, 2}
    BY <1>1, <1>3, TablesOf DEF IncidentRows
  <2>2. IncidentRows(s)[2].refs = <<Notification>>
    BY DEF IncidentRows, Row
  <2>3. Checkout \notin Range(<<Notification>>)
    BY DEF Range, Checkout, Notification
  <2>4. k = 1
    BY <2>1, <2>2, <2>3
  <2> QED
    BY <2>1, <2>4 DEF IncidentRows
<1>5. row.id = CheckoutIncident(s) /\ DeploymentId(s, Regression) \in Range(row.refs)
  BY <1>4 DEF Row, Range
<1>6. \E d \in RowsOf("Deployment") :
         d.id = DeploymentId(s, Regression) /\ PullRequestId(s, Regression) \in Range(d.refs)
  <2>1. DeploymentRows(s)[Regression] \in RowsOf("Deployment")
    <3>1. tables["Deployment"] = DeploymentRows(s)
      BY <1>3, TablesOf
    <3>2. Regression \in DOMAIN DeploymentRows(s)
      BY DEF DeploymentRows, Regression
    <3> QED
      BY <3>1, <3>2 DEF RowsOf
  <2>2. DeploymentRows(s)[Regression].id = DeploymentId(s, Regression)
        /\ DeploymentRows(s)[Regression].refs
             = <<RepoOfCommit[Regression], PullRequestId(s, Regression)>>
    BY DEF DeploymentRows, Row, Regression
  <2>3. PullRequestId(s, Regression) \in Range(DeploymentRows(s)[Regression].refs)
    BY <2>2 DEF Range
  <2> QED
    BY <2>1, <2>2, <2>3
<1>7. \A n \in 1 .. 5 : PullRequestRows(s)[n].id = PullRequestId(s, n)
                     /\ PullRequestRows(s)[n].refs = <<RepoOfCommit[n], CommitId(n)>>
  BY DEF PullRequestRows, Row
<1>8. tables["PullRequest"] = PullRequestRows(s) /\ DOMAIN PullRequestRows(s) = 1 .. 5
  BY <1>3, TablesOf DEF PullRequestRows
<1>9. \E p \in RowsOf("PullRequest") :
         p.id = PullRequestId(s, Regression) /\ CommitId(Regression) \in Range(p.refs)
  <2>1. Regression \in 1 .. 5
    BY DEF Regression
  <2>2. PullRequestRows(s)[Regression] \in RowsOf("PullRequest")
    BY <1>8, <2>1 DEF RowsOf
  <2>3. CommitId(Regression) \in Range(PullRequestRows(s)[Regression].refs)
    BY <1>7, <2>1 DEF Range
  <2> QED
    BY <1>7, <2>1, <2>2, <2>3
<1>10. Checkout \in IdsOf("Repository")
  <2>1. RepositoryRows[1] \in RowsOf("Repository")
    <3>1. tables["Repository"] = RepositoryRows
      BY <1>3, TablesOf
    <3>2. 1 \in DOMAIN RepositoryRows
      BY DEF RepositoryRows
    <3> QED
      BY <3>1, <3>2 DEF RowsOf
  <2>2. RepositoryRows[1].id = Checkout
    BY DEF RepositoryRows, Row, RepoIds
  <2> QED
    BY <2>1, <2>2 DEF IdsOf
<1>11. CommitId(Regression) \in IdsOf("Commit")
  <2>1. CommitRows[Regression] \in RowsOf("Commit")
    <3>1. tables["Commit"] = CommitRows
      BY <1>3, TablesOf
    <3>2. Regression \in DOMAIN CommitRows
      BY DEF CommitRows, Regression
    <3> QED
      BY <3>1, <3>2 DEF RowsOf
  <2>2. CommitRows[Regression].id = CommitId(Regression)
    BY DEF CommitRows, Row, Regression
  <2> QED
    BY <2>1, <2>2 DEF IdsOf
<1>12. ASSUME NEW r \in RowsOf("PullRequest"), CommitId(Regression) \in Range(r.refs)
       PROVE  r.id = PullRequestId(s, Regression)
  <2>1. PICK n \in 1 .. 5 : r = PullRequestRows(s)[n]
    BY <1>8 DEF RowsOf
  <2>2. CommitId(Regression) \in {RepoOfCommit[n], CommitId(n)}
    BY <1>7, <1>12, <2>1 DEF Range
  <2>3. RepoOfCommit[n] # CommitId(Regression)
    BY DEF RepoOfCommit, CommitId, Checkout, Payment, Notification
  <2>4. n = Regression
    BY <2>2, <2>3 DEF CommitId
  <2> QED
    BY <1>7, <2>1, <2>4
<1> QED
  BY <1>3, <1>5, <1>6, <1>9, <1>10, <1>11, <1>12

LEMMA ChainIsSeen ==
    OrgInv /\ FetchInv /\ CurrentInv /\ ClosedInv /\ NoReferenceLost => IncidentLeadsToRegression
<1> SUFFICES ASSUME OrgInv, FetchInv, CurrentInv, ClosedInv, NoReferenceLost,
                    gphase = "done", direction = "down", ~disturbed,
                    NEW row \in RowsOf("Incident"), row.id = focus, Checkout \in Range(row.refs)
             PROVE  /\ {Checkout, CommitId(Regression)} \subseteq seen
                    /\ \A r \in RowsOf("PullRequest") :
                          CommitId(Regression) \in Range(r.refs) => r.id \in seen
  BY DEF IncidentLeadsToRegression
<1>1. PICK s :
         /\ Draws(s) /\ tables = OrganizationOf(s)
         /\ row.id = CheckoutIncident(s)
         /\ DeploymentId(s, Regression) \in Range(row.refs)
         /\ \E d \in RowsOf("Deployment") :
               d.id = DeploymentId(s, Regression) /\ PullRequestId(s, Regression) \in Range(d.refs)
         /\ \E p \in RowsOf("PullRequest") :
               p.id = PullRequestId(s, Regression) /\ CommitId(Regression) \in Range(p.refs)
         /\ Checkout \in IdsOf("Repository") /\ CommitId(Regression) \in IdsOf("Commit")
         /\ \A r \in RowsOf("PullRequest") :
               CommitId(Regression) \in Range(r.refs) => r.id = PullRequestId(s, Regression)
  BY RegressionChain
<1> DEFINE D == DeploymentId(s, Regression)
           P == PullRequestId(s, Regression)
           C == CommitId(Regression)
<1>2. PICK d \in RowsOf("Deployment") : d.id = D /\ P \in Range(d.refs)
  BY <1>1
<1>3. PICK p \in RowsOf("PullRequest") : p.id = P /\ C \in Range(p.refs)
  BY <1>1
<1>4. /\ D[1] = "Deployment" /\ P[1] = "PullRequest" /\ C[1] = "Commit"
      /\ focus[1] = "Incident" /\ Checkout[1] = "Repository"
  BY <1>1 DEF DeploymentId, PullRequestId, CommitId, CheckoutIncident, Checkout
<1> HIDE DEF D, P, C
<1>5. /\ D \in IdsOf("Deployment") /\ P \in IdsOf("PullRequest") /\ C \in IdsOf("Commit")
      /\ Checkout \in IdsOf("Repository")
  BY <1>1, <1>2, <1>3 DEF IdsOf, C
<1>6. {"Repository", "Commit", "PullRequest", "Deployment"} \subseteq TableNames \ {"SimEvent"}
  BY DEF TableNames
<1>7. ASSUME NEW i \in 1 .. 9, NEW r \in RowsOf(GraphTables[i]), NEW x \in Range(r.refs),
             NEW t \in {"Repository", "Commit", "PullRequest", "Deployment"}, x \in IdsOf(t)
      PROVE  <<r.id, x>> \in Edges
  BY <1>6, <1>7 DEF NoReferenceLost
<1>8. <<focus, Checkout>> \in Edges /\ <<focus, D>> \in Edges
  <2>1. D \in Range(row.refs) /\ row \in RowsOf(GraphTables[5])
    BY <1>1, GraphTableNumbers DEF D
  <2> QED
    BY <1>5, <1>7, <2>1
<1>9. <<D, P>> \in Edges
  BY <1>2, <1>5, <1>7, GraphTableNumbers
<1>10. <<P, C>> \in Edges
  BY <1>3, <1>5, <1>7, GraphTableNumbers
<1>11. focus \in Nodes
  <2>1. 5 \in GraphIndexes
    BY DEF GraphIndexes
  <2>2. fetched["Incident"] = tables["Incident"]
    BY <2>1, CurrentRows, GraphTableNumbers
  <2>3. PICK k \in DOMAIN tables["Incident"] : row = tables["Incident"][k]
    BY DEF RowsOf
  <2>4. k \in Places(5) /\ focus = RowAt(5, k).id
    BY <2>2, <2>3, GraphTableNumbers DEF Places, RowAt
  <2> QED
    BY <2>4 DEF Nodes
<1>12. ASSUME NEW x \in seen \cup {focus}, NEW y, <<x, y>> \in Edges, y # focus
       PROVE  y \in seen
  <2>1. y \in NextOf(seen \cup {focus})
    BY <1>12 DEF NextOf, Successors
  <2> QED
    BY <1>11, <1>12, <2>1 DEF ClosedInv
<1>13. Checkout \in seen /\ D \in seen
  BY <1>4, <1>8, <1>12
<1>14. P \in seen
  BY <1>4, <1>9, <1>12, <1>13
<1>15. C \in seen
  BY <1>4, <1>10, <1>12, <1>14
<1> QED
  BY <1>1, <1>13, <1>14, <1>15 DEF P, C

\* Whatever the seed drew, an undisturbed trace down from the incident of
\* checkout-service finds what brought its regression.
THEOREM IncidentFindsRegression == Spec => []IncidentLeadsToRegression
<1> QED
  BY OrgInvariant, FetchInvariant, CurrentInvariant, ClosedInvariant, ReferencesAreEdges,
     ChainIsSeen, PTL

---------------------------------------------------------------------------
(* A trace reaches what can be reached, and nothing else.                  *)

\* A set that holds the focus and all that its members lead to.
Closed(S) == focus \in S /\ NextOf(S) \subseteq S

LEMMA NextOfMonotone ==
    ASSUME NEW S, NEW T, S \subseteq T
    PROVE  NextOf(S) \subseteq NextOf(T)
BY DEF NextOf, Successors, Predecessors

ReachInv ==
    /\ \A S : Closed(S) => seen \subseteq S
    /\ gphase = "walk" => focus \in Nodes
    /\ seen # {} => focus \in Nodes

LEMMA ReachInvariant == Spec => []ReachInv
<1>1. Init => ReachInv
  BY DEF Init, GraphInit, ReachInv
<1>2. SeenInv /\ SeenInv' /\ ReachInv /\ [Next]_vars => ReachInv'
  <2> SUFFICES ASSUME SeenInv, SeenInv', ReachInv, [Next]_vars PROVE ReachInv'
    OBVIOUS
  <2>1. CASE StartTrace \/ FetchTable \/ FetchRaises
    <3>1. seen' = {} /\ gphase' # "walk"
      BY <2>1 DEF StartTrace, FetchTable, FetchRaises, SeenInv
    <3> QED
      BY <3>1 DEF ReachInv
  <2>2. CASE Built
    <3>1. /\ seen' = {} /\ UNCHANGED <<focus, direction, fetched>>
          /\ gphase' = "walk" => focus \in Nodes
      BY <2>2 DEF Built, SeenInv
    <3>2. Nodes' = Nodes
      BY <3>1, GraphUnchanged
    <3> QED
      BY <3>1, <3>2 DEF ReachInv
  <2>3. CASE Walk
    <3>1. /\ seen' = (seen \cup NextOf(seen \cup {focus})) \ {focus}
          /\ focus \in Nodes
          /\ UNCHANGED <<focus, direction, fetched>>
      BY <2>3 DEF Walk, ReachInv
    <3>2. Nodes' = Nodes /\ \A S : NextOf(S)' = NextOf(S)
      BY <3>1, GraphUnchanged
    <3>3. ASSUME NEW S, Closed(S)' PROVE seen' \subseteq S
      <4>1. focus \in S /\ NextOf(S) \subseteq S
        BY <3>1, <3>2, <3>3 DEF Closed
      <4>2. seen \cup {focus} \subseteq S
        BY <4>1 DEF ReachInv, Closed
      <4>3. NextOf(seen \cup {focus}) \subseteq S
        BY <4>1, <4>2, NextOfMonotone
      <4> QED
        BY <3>1, <4>2, <4>3
    <3> QED
      BY <3>1, <3>2, <3>3 DEF ReachInv
  <2>4. CASE UNCHANGED graphVars
    <3>1. UNCHANGED <<gphase, focus, direction, fetched, seen>>
      BY <2>4 DEF graphVars
    <3>2. Nodes' = Nodes /\ \A S : NextOf(S)' = NextOf(S)
      BY <3>1, GraphUnchanged
    <3> QED
      BY <3>1, <3>2 DEF ReachInv, Closed
  <2> QED
    BY <2>1, <2>2, <2>3, <2>4 DEF Next, Tracing, Running, Seeding, GraphNext, vars
<1> QED
  BY <1>1, <1>2, SeenInvariant, PTL DEF Spec

\* The answer of a trace is the least set that, with the focus, is closed under
\* the edges, and it is empty for an entity that the graph does not have.
TraceIsExact ==
    gphase = "done" =>
        IF focus \in Nodes
        THEN Closed(seen \cup {focus}) /\ \A S : Closed(S) => seen \subseteq S \ {focus}
        ELSE seen = {}

\* trace_upstream and trace_downstream (graph.py 80-91): the layers that a call
\* walks add up to all ancestors or all descendants of the entity and to
\* nothing else, of whatever tables its graph was built from.
THEOREM TracesAreExact == Spec => []TraceIsExact
<1>1. SeenInv /\ ClosedInv /\ ReachInv => TraceIsExact
  <2> SUFFICES ASSUME SeenInv, ClosedInv, ReachInv, gphase = "done", focus \in Nodes
               PROVE  /\ Closed(seen \cup {focus})
                      /\ \A S : Closed(S) => seen \subseteq S \ {focus}
    BY DEF TraceIsExact, ReachInv
  <2>1. Closed(seen \cup {focus})
    BY DEF Closed, ClosedInv
  <2> QED
    BY <2>1 DEF ReachInv, SeenInv
<1> QED
  BY <1>1, SeenInvariant, ClosedInvariant, ReachInvariant, PTL

--------------------------------------------------------------------------
(* A task about the ticket of an event keeps to the way that ends at the   *)
(* repository of the event.                                                *)

EventInv ==
    /\ phase = "idle" => objective.ticket = NoEntity
    /\ phase # "work" => targets = {}
    /\ ~disturbed => \A event \in RowsOf("SimEvent") : objective.ticket = event.objective =>
           /\ phase \in {"read", "search", "reread", "work", "closed", "raised"}
           /\ phase = "search" => task_type = "engineering" /\ multi = FALSE
           /\ phase = "work" => target = event.repo /\ targets = {}

LEMMA EventFacts ==
    ASSUME OrgInv, NEW event \in RowsOf("SimEvent")
    PROVE  \E s :
             /\ Draws(s) /\ tables = OrganizationOf(s)
             /\ event.objective = NotificationTicket(s) /\ event.objective # NoEntity
             /\ event.repo = Notification
             /\ \A t \in RowsOf("Ticket") :
                   t.id = event.objective => t.multi = FALSE /\ t.refs = <<NotificationIncident(s)>>
             /\ IncidentsOf(event.objective) # {}
             /\ \A i \in IncidentsOf(event.objective) : i.refs[1] = Notification
<1>1. PICK k \in DOMAIN tables["SimEvent"] : event = tables["SimEvent"][k]
  BY DEF RowsOf
<1>2. tables # NoRows
  BY <1>1 DEF NoRows, TableNames
<1>3. PICK s : Draws(s) /\ tables = OrganizationOf(s)
  BY <1>2 DEF OrgInv, Whole
<1>4. event = [objective |-> NotificationTicket(s), repo |-> Notification]
  <2>1. tables["SimEvent"] = EventRows(s)
    BY <1>3, TablesOf
  <2> QED
    BY <1>1, <2>1 DEF EventRows
<1>5. event.objective = NotificationTicket(s) /\ event.repo = Notification
  BY <1>4
<1>6. NotificationTicket(s) # NoEntity
  BY DEF NotificationTicket, NoEntity
<1>7. tables["Ticket"] = TicketRows(s) /\ tables["Incident"] = IncidentRows(s)
  BY <1>3, TablesOf
<1>8. s.offset \in Nat
  BY <1>3, SeedFacts
<1>9. ASSUME NEW t \in RowsOf("Ticket"), t.id = NotificationTicket(s)
      PROVE  t = TicketRows(s)[2] /\ t.multi = FALSE /\ t.refs = <<NotificationIncident(s)>>
  <2>1. PICK n \in DOMAIN TicketRows(s) : t = TicketRows(s)[n]
    BY <1>7 DEF RowsOf
  <2>2. n \in {1, 2, 3}
    BY <2>1 DEF TicketRows
  <2>3. TicketRows(s)[1].id[2] = 1000 + s.offset /\ TicketRows(s)[3].id[2] = 3000 + s.offset
        /\ NotificationTicket(s)[2] = 2000 + s.offset
    BY DEF TicketRows, Ticket, NotificationTicket
  <2>4. 1000 + s.offset # 2000 + s.offset /\ 3000 + s.offset # 2000 + s.offset
    BY <1>8
  <2>5. n = 2
    BY <1>9, <2>1, <2>2, <2>3, <2>4
  <2>6. TicketRows(s)[2].multi = FALSE /\ TicketRows(s)[2].refs = <<NotificationIncident(s)>>
    BY DEF TicketRows, Ticket
  <2> QED
    BY <2>1, <2>5, <2>6
<1>10. IncidentRows(s)[2].refs = <<Notification>>
       /\ IncidentRows(s)[2].id = NotificationIncident(s)
  BY DEF IncidentRows, Row
<1>11. IncidentRows(s)[2] \in IncidentsOf(NotificationTicket(s))
  <2>1. IncidentRows(s)[2] \in RowsOf("Incident")
    <3>1. 2 \in DOMAIN IncidentRows(s)
      BY DEF IncidentRows
    <3> QED
      BY <1>7, <3>1 DEF RowsOf
  <2>2. TicketRows(s)[2] \in RowsOf("Ticket")
    <3>1. 2 \in DOMAIN TicketRows(s)
      BY DEF TicketRows
    <3> QED
      BY <1>7, <3>1 DEF RowsOf
  <2>3. TicketRows(s)[2].id = NotificationTicket(s)
    BY DEF TicketRows, Ticket
  <2>4. NotificationIncident(s) \in Range(TicketRows(s)[2].refs)
    <3>1. TicketRows(s)[2].refs = <<NotificationIncident(s)>>
      BY <1>9, <2>2, <2>3
    <3>2. NotificationIncident(s) \in Range(<<NotificationIncident(s)>>)
      BY DEF Range
    <3> QED
      BY <3>1, <3>2
  <2> QED
    BY <1>10, <2>1, <2>2, <2>3, <2>4 DEF IncidentsOf
<1>12. ASSUME NEW i \in IncidentsOf(NotificationTicket(s)) PROVE i.refs[1] = Notification
  <2>1. PICK t \in RowsOf("Ticket") : t.id = NotificationTicket(s) /\ i.id \in Range(t.refs)
    BY DEF IncidentsOf
  <2>2. i.id = NotificationIncident(s)
    <3>1. t.refs = <<NotificationIncident(s)>>
      BY <1>9, <2>1
    <3>2. Range(<<NotificationIncident(s)>>) = {NotificationIncident(s)}
      BY DEF Range
    <3> QED
      BY <2>1, <3>1, <3>2
  <2>3. PICK n \in DOMAIN IncidentRows(s) : i = IncidentRows(s)[n]
    BY <1>7 DEF IncidentsOf, RowsOf
  <2>4. n \in {1, 2} /\ IncidentRows(s)[1].id = CheckoutIncident(s)
    BY <2>3 DEF IncidentRows, Row
  <2>5. CheckoutIncident(s) # NotificationIncident(s)
    BY <1>8 DEF CheckoutIncident, NotificationIncident
  <2>6. n = 2
    BY <2>2, <2>3, <2>4, <2>5
  <2> QED
    BY <1>10, <2>3, <2>6
<1> QED
  BY <1>3, <1>5, <1>6, <1>9, <1>11, <1>12

LEMMA EventObjectives ==
    OrgInv => \A event \in RowsOf("SimEvent") : event.objective # NoEntity
BY EventFacts

LEMMA SeedingKeepsEventInv == ASSUME OrgInv', EventInv, Seeding PROVE EventInv'
<1>1. UNCHANGED <<phase, objective, task_type, multi, target, targets>>
  BY DEF Seeding, taskVars
<1>2. disturbed' = (disturbed \/ (UnderWay /\ tables' # tables))
  BY DEF Seeding
<1>3. CASE tables' = tables
  BY <1>1, <1>2, <1>3 DEF EventInv, RowsOf
<1>4. CASE tables' # tables /\ UnderWay
  BY <1>1, <1>2, <1>4 DEF EventInv
<1>5. CASE tables' # tables /\ ~UnderWay
  <2>1. phase \in {"idle", "closed", "raised"}
    BY <1>5 DEF UnderWay
  <2>2. (\A event \in RowsOf("SimEvent") : event.objective # NoEntity)'
    BY EventObjectives, PTL
  <2> QED
    BY <1>1, <2>1, <2>2 DEF EventInv
<1> QED
  BY <1>3, <1>4, <1>5

LEMMA RunningKeepsEventInv == ASSUME OrgInv, EventInv, Running PROVE EventInv'
<1>1. UNCHANGED <<tables, disturbed>>
  BY DEF Running, orgVars
<1>2. CASE SubmitTicket
  <2>1. phase = "idle" /\ phase' = "read" /\ UNCHANGED targets
    BY <1>2 DEF SubmitTicket
  <2> QED
    BY <1>1, <2>1 DEF EventInv, RowsOf
<1>3. CASE SubmitText
  <2>1. objective'.ticket = NoEntity /\ phase' = "search" /\ phase = "idle" /\ UNCHANGED targets
    BY <1>3 DEF SubmitText, IsTicket
  <2> QED
    BY <1>1, <2>1, EventObjectives DEF EventInv, RowsOf
<1>4. CASE TaskRaises \/ NoSuchTicket \/ Answer \/ NoRepository
  <2>1. phase' \in {"raised", "closed"} /\ phase \notin {"idle", "work"}
        /\ UNCHANGED <<objective, targets>>
    BY <1>4 DEF TaskRaises, NoSuchTicket, Answer, NoRepository
  <2> QED
    BY <1>1, <2>1 DEF EventInv, RowsOf
<1>5. CASE ReadTicket
  <2>1. /\ phase = "read" /\ phase' = "search" /\ task_type' = "engineering"
        /\ UNCHANGED <<objective, targets>>
    BY <1>5 DEF ReadTicket
  <2>2. PICK ticket \in RowsOf("Ticket") : ticket.id = objective.ticket /\ multi' = ticket.multi
    BY <1>5 DEF ReadTicket
  <2>3. \A event \in RowsOf("SimEvent") : objective.ticket = event.objective => multi' = FALSE
    BY <2>2, EventFacts
  <2> QED
    BY <1>1, <2>1, <2>3 DEF EventInv, RowsOf
<1>6. CASE Search
  <2>1. phase = "search" /\ UNCHANGED <<objective, task_type, multi, target, targets>>
    BY <1>6 DEF Search
  <2>2. phase' \in {"answer", "identify_all", "reread", "identify"}
    BY <1>6 DEF Search
  <2>3. task_type = "engineering" /\ multi = FALSE /\ objective.ticket # NoEntity
           => phase' = "reread"
    BY <1>6 DEF Search, IsTicket
  <2> QED
    BY <1>1, <2>1, <2>2, <2>3, EventObjectives DEF EventInv, RowsOf
<1>7. CASE TicketHasNoIncident
  <2>1. /\ phase = "reread" /\ phase' = "identify" /\ IncidentsOf(objective.ticket) = {}
        /\ UNCHANGED <<objective, targets>>
    BY <1>7 DEF TicketHasNoIncident
  <2>2. \A event \in RowsOf("SimEvent") : objective.ticket # event.objective
    BY <2>1, EventFacts
  <2> QED
    BY <1>1, <2>1, <2>2 DEF EventInv, RowsOf
<1>8. CASE TicketHasIncident
  <2>1. phase = "reread" /\ phase' = "work" /\ UNCHANGED <<objective, targets>>
    BY <1>8 DEF TicketHasIncident
  <2>2. PICK incident \in IncidentsOf(objective.ticket) : target' = incident.refs[1]
    BY <1>8 DEF TicketHasIncident
  <2>3. \A event \in RowsOf("SimEvent") : objective.ticket = event.objective => target' = event.repo
    BY <2>2, EventFacts
  <2> QED
    BY <1>1, <2>1, <2>3 DEF EventInv, RowsOf
<1>9. CASE Identify \/ NotIdentified \/ SearchIncidents \/ IdentifyAll
  <2>1. /\ phase \in {"identify", "identify_again", "search_incidents", "identify_all"}
        /\ phase' \in {"work", "search_incidents", "identify_again"}
        /\ phase' # "work" => UNCHANGED targets
        /\ UNCHANGED objective
    BY <1>9 DEF Identify, NotIdentified, SearchIncidents, IdentifyAll
  <2> QED
    BY <1>1, <2>1 DEF EventInv, RowsOf
<1> QED
  BY <1>2, <1>3, <1>4, <1>5, <1>6, <1>7, <1>8, <1>9 DEF Running, TaskNext

LEMMA EventInvariant == Spec => []EventInv
<1>1. Init => EventInv
  <2> SUFFICES ASSUME Init PROVE EventInv
    OBVIOUS
  <2>1. phase = "idle" /\ objective.ticket = NoEntity /\ targets = {}
    BY DEF Init
  <2>2. RowsOf("SimEvent") = {}
    BY DEF Init, OrgInit, NoRows, RowsOf, TableNames
  <2> QED
    BY <2>1, <2>2 DEF EventInv
<1>2. OrgInv /\ OrgInv' /\ EventInv /\ [Next]_vars => EventInv'
  <2> SUFFICES ASSUME OrgInv, OrgInv', EventInv, [Next]_vars PROVE EventInv'
    OBVIOUS
  <2>1. CASE Seeding
    BY <2>1, SeedingKeepsEventInv
  <2>2. CASE Tracing \/ UNCHANGED vars
    <3>1. UNCHANGED <<phase, objective, task_type, multi, target, targets, tables, disturbed>>
      BY <2>2 DEF Tracing, vars, taskVars, orgVars
    <3> QED
      BY <3>1 DEF EventInv, RowsOf
  <2>3. CASE Running
    BY <2>3, RunningKeepsEventInv
  <2> QED
    BY <2>1, <2>2, <2>3 DEF Next
<1> QED
  BY <1>1, <1>2, OrgInvariant, PTL DEF Spec

\* A task about the ticket of an event works on the repository of the event,
\* whatever the searches rank first.
THEOREM TasksFollowTheirEvents == Spec => []EventsReachTheirRepository
<1>1. EventInv => EventsReachTheirRepository
  BY DEF EventInv, EventsReachTheirRepository
<1> QED
  BY <1>1, EventInvariant, PTL

--------------------------------------------------------------------------
(* Evidence and answers.                                                   *)

\* A sequence of items whose related entities are numbered.
Evidenced(q) ==
    /\ \E n \in Nat : DOMAIN q = 1 .. n /\ q = [m \in 1 .. n |-> q[m]]
    /\ \A m \in DOMAIN q : /\ q[m].source \in Range(SourceOf)
                           /\ DOMAIN q[m].related \subseteq Nat

LEMMA EntriesAreEvidence ==
    ASSUME OrgInv, NEW t \in DOMAIN SourceOf, NEW k \in DOMAIN tables[t]
    PROVE  DOMAIN tables[t][k].refs \subseteq Nat
<1>1. t \in TableNames
  BY DEF SourceOf, TableNames
<1>2. tables # NoRows
  BY <1>1 DEF NoRows
<1>3. PICK s : Draws(s) /\ tables = OrganizationOf(s)
  BY <1>2 DEF OrgInv, Whole
<1>4. t \in {"Message", "Document", "Ticket", "Incident", "PullRequest", "Commit", "WikiPage",
             "LogEntry"}
  BY DEF SourceOf
<1>5. \E kinds : Refers(tables[t], kinds)
  BY <1>3, <1>4, TablesOf, SimpleRefers, SeedRefers
<1> QED
  BY <1>5 DEF Refers

LEMMA ResultsAreEvidence ==
    ASSUME OrgInv, NEW names, names \subseteq DOMAIN SourceOf, NEW q \in Results(names)
    PROVE  Evidenced(q)
<1>1. PICK n \in 0 .. TopK : \E top \in Injection(1 .. n, Corpus(names)) :
         q = [m \in DOMAIN top |-> Entry(top[m])]
  BY DEF Results
<1>2. PICK top \in [1 .. n -> Corpus(names)] : q = [m \in 1 .. n |-> Entry(top[m])]
  BY <1>1 DEF Injection, IsInjective
<1>3. n \in Nat
  BY <1>1, AgentTaskAssumption
<1>4. ASSUME NEW m \in 1 .. n
      PROVE  q[m].source \in Range(SourceOf) /\ DOMAIN q[m].related \subseteq Nat
  <2>1. top[m] \in Corpus(names)
    BY <1>2
  <2>0. PICK t \in names : \E k \in DOMAIN tables[t] : top[m] = <<t, k>>
    BY <2>1 DEF Corpus
  <2>2. PICK k \in DOMAIN tables[t] : top[m] = <<t, k>>
    BY <2>0
  <2>3. q[m].source = SourceOf[t] /\ q[m].related = tables[t][k].refs
    BY <1>2, <2>2 DEF Entry
  <2>4. t \in DOMAIN SourceOf
    BY <2>2
  <2> QED
    BY <2>2, <2>3, <2>4, EntriesAreEvidence DEF Range
<1> QED
  BY <1>2, <1>3, <1>4 DEF Evidenced

LEMMA ConcatenatedEvidence ==
    ASSUME NEW p, NEW q, Evidenced(p), Evidenced(q)
    PROVE  Evidenced(p \o q)
<1> DEFINE S == {p[m] : m \in DOMAIN p} \cup {q[m] : m \in DOMAIN q}
<1>1. p \in Seq(S) /\ q \in Seq(S)
  <2>1. PICK n \in Nat : DOMAIN p = 1 .. n /\ p = [m \in 1 .. n |-> p[m]]
    BY DEF Evidenced
  <2>2. PICK k \in Nat : DOMAIN q = 1 .. k /\ q = [m \in 1 .. k |-> q[m]]
    BY DEF Evidenced
  <2>3. p \in [1 .. n -> S] /\ q \in [1 .. k -> S]
    BY <2>1, <2>2
  <2> HIDE DEF S
  <2> QED
    BY <2>3
<1>2. \A x \in S : x.source \in Range(SourceOf) /\ DOMAIN x.related \subseteq Nat
  BY DEF Evidenced
<1> HIDE DEF S
<1>3. p \o q \in Seq(S)
  BY <1>1, ConcatProperties
<1>4. Len(p \o q) \in Nat /\ p \o q \in [1 .. Len(p \o q) -> S]
  <2> DEFINE r == p \o q
  <2>1. r \in Seq(S)
    BY <1>3
  <2> HIDE DEF r
  <2>2. Len(r) \in Nat /\ r \in [1 .. Len(r) -> S]
    BY <2>1
  <2> QED
    BY <2>2 DEF r
<1> QED
  BY <1>2, <1>4 DEF Evidenced

AnswerInv ==
    /\ Evidenced(evidence)
    /\ phase # "closed" => status = "RUNNING" /\ answer = {}
    /\ answer \subseteq DOMAIN evidence
    /\ phase = "closed" /\ status = "VERIFIED_COMPLETE" /\ ~rewritten => answer = Cited

LEMMA EmptyIsEvidence == Evidenced(<<>>)
<1>1. 0 \in Nat /\ DOMAIN <<>> = 1 .. 0 /\ <<>> = [m \in 1 .. 0 |-> <<>>[m]]
  OBVIOUS
<1> QED
  BY <1>1 DEF Evidenced

LEMMA RunningKeepsAnswerInv == ASSUME OrgInv, AnswerInv, Running PROVE AnswerInv'
<1>1. CASE Answer
  <2>1. /\ phase' = "closed" /\ UNCHANGED evidence /\ status' = VerifyKnowledgeTask
        /\ (answer' = Cited \/ (answer' \in SUBSET Cited /\ rewritten' = TRUE))
    BY <1>1 DEF Answer
  <2>2. Cited \subseteq DOMAIN evidence
    BY DEF Cited
  <2>3. Cited' = Cited
    BY <2>1 DEF Cited, Earlier
  <2> QED
    BY <2>1, <2>2, <2>3 DEF AnswerInv, Evidenced
<1>2. CASE NoSuchTicket \/ NoRepository
  <2>1. /\ phase' = "closed" /\ phase # "closed" /\ status' = "INSUFFICIENT_EVIDENCE"
        /\ UNCHANGED <<evidence, answer>>
    BY <1>2 DEF NoSuchTicket, NoRepository
  <2> QED
    BY <2>1 DEF AnswerInv, Evidenced
<1>3. CASE Search
  <2>1. /\ phase' # "closed" /\ phase # "closed" /\ UNCHANGED <<answer, status>>
        /\ evidence' \in Results(DOMAIN SourceOf)
    BY <1>3 DEF Search
  <2>2. Evidenced(evidence')
    BY <2>1, ResultsAreEvidence
  <2> QED
    BY <2>1, <2>2 DEF AnswerInv, Evidenced
<1>4. CASE SearchIncidents
  <2>1. phase' # "closed" /\ phase # "closed" /\ UNCHANGED <<answer, status>>
    BY <1>4 DEF SearchIncidents
  <2>2. PICK more \in Results({"Incident"}) : evidence' = evidence \o more
    BY <1>4 DEF SearchIncidents
  <2>3. {"Incident"} \subseteq DOMAIN SourceOf
    BY DEF SourceOf
  <2>4. Evidenced(more)
    BY <2>3, ResultsAreEvidence
  <2>5. Evidenced(evidence')
    BY <2>2, <2>4, ConcatenatedEvidence DEF AnswerInv
  <2> QED
    BY <2>1, <2>5 DEF AnswerInv, Evidenced
<1>5. CASE SubmitTicket \/ SubmitText \/ TaskRaises \/ ReadTicket \/ TicketHasNoIncident
           \/ TicketHasIncident \/ Identify \/ NotIdentified \/ IdentifyAll
  <2>1. phase' # "closed" /\ phase # "closed" /\ UNCHANGED <<evidence, answer, status>>
    BY <1>5 DEF SubmitTicket, SubmitText, TaskRaises, ReadTicket, TicketHasNoIncident,
       TicketHasIncident, Identify, NotIdentified, IdentifyAll
  <2> QED
    BY <2>1 DEF AnswerInv, Evidenced
<1> QED
  BY <1>1, <1>2, <1>3, <1>4, <1>5 DEF Running, TaskNext

LEMMA AnswerInvariant == Spec => []AnswerInv
<1>1. Init => AnswerInv
  BY EmptyIsEvidence DEF Init, AnswerInv
<1>2. OrgInv /\ AnswerInv /\ [Next]_vars => AnswerInv'
  <2> SUFFICES ASSUME OrgInv, AnswerInv, [Next]_vars PROVE AnswerInv'
    OBVIOUS
  <2>1. CASE Seeding \/ Tracing \/ UNCHANGED vars
    <3>1. UNCHANGED <<phase, evidence, answer, rewritten, status>>
      BY <2>1 DEF Seeding, Tracing, vars, taskVars
    <3>2. Cited' = Cited
      BY <3>1 DEF Cited, Earlier
    <3> QED
      BY <3>1, <3>2 DEF AnswerInv, Evidenced
  <2>2. CASE Running
    BY <2>2, RunningKeepsAnswerInv
  <2> QED
    BY <2>1, <2>2 DEF Next
<1> QED
  BY <1>1, <1>2, OrgInvariant, PTL DEF Spec

\* The first item of each source that an answer looks for is cited.
LEMMA FirstOfEachIsCited ==
    ASSUME Evidenced(evidence), NEW e \in Range(evidence), e.source \notin {"drive", "wiki"}
    PROVE  \E n \in Cited : evidence[n].source = e.source
<1> DEFINE S == {m \in DOMAIN evidence : evidence[m].source = e.source}
<1>1. PICK k \in DOMAIN evidence : e = evidence[k]
  BY DEF Range
<1>2. S # {} /\ S \subseteq Nat
  BY <1>1 DEF Evidenced
<1>3. Min(S) \in S /\ \A y \in S : Min(S) <= y
  <2> HIDE DEF S
  <2> QED
    BY <1>2, MinMember
<1>4. PICK n : n = Min(S)
  OBVIOUS
<1>5. n \in DOMAIN evidence /\ evidence[n].source = e.source /\ n \in Nat
  BY <1>2, <1>3, <1>4
<1>6. Earlier(n) = {}
  <2> SUFFICES ASSUME NEW m \in Earlier(n) PROVE FALSE
    OBVIOUS
  <2>1. m \in S /\ m < n
    BY <1>5 DEF Earlier
  <2>2. n <= m /\ m \in Nat
    BY <1>2, <1>3, <1>4, <2>1
  <2> QED
    BY <1>5, <2>1, <2>2
<1>7. Cardinality(Earlier(n)) < 2
  BY <1>6, FS_EmptySet
<1>8. e.source \in CitedSources
  <2>1. e.source \in Range(SourceOf)
    BY <1>1 DEF Evidenced
  <2>2. Range(SourceOf) \subseteq CitedSources \cup {"drive", "wiki"}
    BY DEF Range, SourceOf, CitedSources
  <2> QED
    BY <2>1, <2>2
<1>9. n \in Cited
  BY <1>5, <1>7, <1>8 DEF Cited
<1> QED
  BY <1>5, <1>9

\* A verified answer that no model rewrote cites each kind of source it rests
\* on, but for documents and wiki pages, for any number of results.
THEOREM VerifiedAnswersCite == Spec => []VerifiedAnswersCiteTheirSources
<1>1. AnswerInv => VerifiedAnswersCiteTheirSources
  BY FirstOfEachIsCited DEF AnswerInv, VerifiedAnswersCiteTheirSources
<1> QED
  BY <1>1, AnswerInvariant, PTL

--------------------------------------------------------------------------
(* Types.                                                                  *)

RunInv ==
    /\ schema \in BOOLEAN
    /\ seedings \in 0 .. MaxSeedings
    /\ phase \in {"idle", "read", "search", "answer", "reread", "identify", "search_incidents",
                  "identify_again", "identify_all", "work", "closed", "raised"}
    /\ target \in Range(RepoIds) \cup {NoEntity}
    /\ targets \subseteq Range(RepoIds)
    /\ status \in {"RUNNING", "VERIFIED_COMPLETE", "INSUFFICIENT_EVIDENCE"}

GraphTypeInv ==
    /\ gphase \in {"idle", "build", "walk", "done", "raised"}
    /\ seen \subseteq Nodes

LEMMA RepositoryIds == ASSUME OrgInv PROVE IdsOf("Repository") \subseteq Range(RepoIds)
<1> SUFFICES ASSUME NEW k \in DOMAIN tables["Repository"]
             PROVE  tables["Repository"][k].id \in Range(RepoIds)
  BY DEF IdsOf, RowsOf
<1>1. tables # NoRows
  BY DEF NoRows, TableNames
<1>2. PICK s : Draws(s) /\ tables = OrganizationOf(s)
  BY <1>1 DEF OrgInv, Whole
<1>3. tables["Repository"] = RepositoryRows
  BY <1>2, TablesOf
<1>4. \A n \in 1 .. 3 : RepositoryRows[n].id = RepoIds[n] /\ n \in DOMAIN RepoIds
  BY DEF RepositoryRows, Row, RepoIds
<1>5. DOMAIN RepositoryRows = 1 .. 3
  BY DEF RepositoryRows
<1> QED
  BY <1>3, <1>4, <1>5 DEF Range

LEMMA IncidentRepositories ==
    ASSUME OrgInv, NEW i \in RowsOf("Incident")
    PROVE  i.refs[1] \in Range(RepoIds)
<1>1. PICK k \in DOMAIN tables["Incident"] : i = tables["Incident"][k]
  BY DEF RowsOf
<1>2. tables # NoRows
  BY <1>1 DEF NoRows, TableNames
<1>3. PICK s : Draws(s) /\ tables = OrganizationOf(s)
  BY <1>2 DEF OrgInv, Whole
<1>4. i = IncidentRows(s)[k] /\ k \in {1, 2}
  BY <1>1, <1>3, TablesOf DEF IncidentRows
<1>5. IncidentRows(s)[1].refs[1] = Checkout /\ IncidentRows(s)[2].refs[1] = Notification
  BY DEF IncidentRows, Row
<1>6. Checkout \in Range(RepoIds) /\ Notification \in Range(RepoIds)
  BY DEF Range, RepoIds
<1> QED
  BY <1>4, <1>5, <1>6

LEMMA IdentifiedIsRepository ==
    ASSUME OrgInv, Evidenced(evidence) PROVE Identified \subseteq IdsOf("Repository")
<1> DEFINE known == IdsOf("Repository")
           In(e) == {k \in DOMAIN e.related : e.related[k] \in known}
           hits  == {n \in DOMAIN evidence : In(evidence[n]) # {}}
           first == evidence[Min(hits)]
<1>1. CASE hits # {}
  <2>1. hits \subseteq Nat
    BY DEF Evidenced
  <2>2. Min(hits) \in hits
    <3> HIDE DEF hits
    <3> QED
      BY <1>1, <2>1, MinMember
  <2>3. In(first) # {} /\ In(first) \subseteq Nat
    BY <2>2 DEF Evidenced
  <2>4. Min(In(first)) \in In(first)
    <3> HIDE DEF In, first
    <3> QED
      BY <2>3, MinMember
  <2>5. first.related[Min(In(first))] \in known
    BY <2>4
  <2>6. Identified = {first.related[Min(In(first))]}
    BY <1>1 DEF Identified
  <2> QED
    BY <2>5, <2>6
<1>2. CASE hits = {}
  BY <1>2 DEF Identified
<1> QED
  BY <1>1, <1>2

LEMMA RunInvariant == Spec => []RunInv
<1>1. Init => RunInv
  BY OrganizationAssumption DEF Init, OrgInit, RunInv
<1>2. OrgInv /\ AnswerInv /\ RunInv /\ [Next]_vars => RunInv'
  <2> SUFFICES ASSUME OrgInv, AnswerInv, RunInv, [Next]_vars PROVE RunInv'
    OBVIOUS
  <2>1. CASE Seeding
    <3>1. UNCHANGED <<phase, target, targets, status>>
      BY <2>1 DEF Seeding, taskVars
    <3>2. schema' \in BOOLEAN
      BY <2>1 DEF Seeding, SeedNext, DropTables, CreateTables, Flush, FlushRaises,
         CommitRowsOfSeed, Abort, RunInv
    <3>3. seedings' = seedings \/ (seedings < MaxSeedings /\ seedings' = seedings + 1)
      BY <2>1 DEF Seeding, SeedNext, DropTables, CreateTables, Flush, FlushRaises,
         CommitRowsOfSeed, Abort
    <3>4. seedings' \in 0 .. MaxSeedings
      BY <3>3, OrganizationAssumption DEF RunInv
    <3> QED
      BY <3>1, <3>2, <3>4 DEF RunInv
  <2>2. CASE Tracing \/ UNCHANGED vars
    BY <2>2 DEF Tracing, vars, orgVars, taskVars, RunInv
  <2>3. CASE Running
    <3>1. UNCHANGED <<schema, seedings>>
      BY <2>3 DEF Running, orgVars
    <3>2. status' \in {"RUNNING", "VERIFIED_COMPLETE", "INSUFFICIENT_EVIDENCE"}
      BY <2>3 DEF Running, TaskNext, SubmitTicket, SubmitText, TaskRaises, NoSuchTicket, ReadTicket,
         Search, Answer, VerifyKnowledgeTask, TicketHasNoIncident, TicketHasIncident, Identify,
         NotIdentified, SearchIncidents, NoRepository, IdentifyAll, RunInv
    <3>3. phase' \in {"read", "search", "answer", "reread", "identify", "search_incidents",
                      "identify_again", "identify_all", "work", "closed", "raised"}
      BY <2>3 DEF Running, TaskNext, SubmitTicket, SubmitText, TaskRaises, NoSuchTicket, ReadTicket,
         Search, Answer, TicketHasNoIncident, TicketHasIncident, Identify, NotIdentified,
         SearchIncidents, NoRepository, IdentifyAll
    <3>4. target' \in Range(RepoIds) \cup {NoEntity}
      <4>1. CASE TicketHasIncident
        <5>1. PICK i \in IncidentsOf(objective.ticket) : target' = i.refs[1]
          BY <4>1 DEF TicketHasIncident
        <5> QED
          BY <5>1, IncidentRepositories DEF IncidentsOf
      <4>2. CASE Identify
        BY <4>2, IdentifiedIsRepository, RepositoryIds DEF Identify, AnswerInv
      <4>3. CASE UNCHANGED target
        BY <4>3 DEF RunInv
      <4> QED
        BY <2>3, <4>1, <4>2, <4>3 DEF Running, TaskNext, SubmitTicket, SubmitText, TaskRaises,
           NoSuchTicket, ReadTicket, Search, Answer, TicketHasNoIncident, NotIdentified,
           SearchIncidents, NoRepository, IdentifyAll
    <3>5. targets' \subseteq Range(RepoIds)
      <4>1. CASE IdentifyAll
        <5>1. targets' \subseteq IdsOf("Repository")
          BY <4>1 DEF IdentifyAll
        <5> QED
          BY <5>1, RepositoryIds
      <4>2. CASE UNCHANGED targets
        BY <4>2 DEF RunInv
      <4> QED
        BY <2>3, <4>1, <4>2 DEF Running, TaskNext, SubmitTicket, SubmitText, TaskRaises,
           NoSuchTicket, ReadTicket, Search, Answer, TicketHasNoIncident, TicketHasIncident,
           Identify, NotIdentified, SearchIncidents, NoRepository
    <3> QED
      BY <3>1, <3>2, <3>3, <3>4, <3>5 DEF RunInv
  <2> QED
    BY <2>1, <2>2, <2>3 DEF Next
<1> QED
  BY <1>1, <1>2, OrgInvariant, AnswerInvariant, PTL DEF Spec

LEMMA NextOfIsNodes == \A S : NextOf(S) \subseteq Nodes
<1> SUFFICES ASSUME NEW e \in Edges PROVE e[1] \in Nodes /\ e[2] \in Nodes
  BY DEF NextOf, Successors, Predecessors
<1>1. PICK i \in 1 .. 9 : \E k \in Places(i) : e \in EdgesOf(i, k)
  BY DEF Edges
<1>2. PICK k \in Places(i) : e \in EdgesOf(i, k)
  BY <1>1
<1>3. e[1] = RowAt(i, k).id
  BY <1>2 DEF EdgesOf
<1> QED
  BY <1>2, <1>3 DEF Nodes

LEMMA GraphTypeInvariant == Spec => []GraphTypeInv
<1>1. Init => GraphTypeInv
  BY DEF Init, GraphInit, GraphTypeInv
<1>2. SeenInv /\ GraphTypeInv /\ [Next]_vars => GraphTypeInv'
  <2> SUFFICES ASSUME SeenInv, GraphTypeInv, [Next]_vars PROVE GraphTypeInv'
    OBVIOUS
  <2>1. CASE StartTrace \/ FetchTable
    BY <2>1 DEF StartTrace, FetchTable, SeenInv, GraphTypeInv
  <2>2. CASE FetchRaises \/ Built \/ Walk
    <3>1. UNCHANGED <<direction, fetched>> /\ gphase' \in {"walk", "done", "raised"}
      BY <2>2 DEF FetchRaises, Built, Walk
    <3>2. Nodes' = Nodes
      BY <3>1, GraphUnchanged
    <3>3. seen' \subseteq seen \cup NextOf(seen \cup {focus})
      BY <2>2 DEF FetchRaises, Built, Walk
    <3> QED
      BY <3>1, <3>2, <3>3, NextOfIsNodes DEF GraphTypeInv
  <2>3. CASE UNCHANGED graphVars
    <3>1. UNCHANGED <<gphase, direction, fetched, seen>>
      BY <2>3 DEF graphVars
    <3>2. Nodes' = Nodes
      BY <3>1, GraphUnchanged
    <3> QED
      BY <3>1, <3>2 DEF GraphTypeInv
  <2> QED
    BY <2>1, <2>2, <2>3 DEF Next, Tracing, Running, Seeding, GraphNext, vars
<1> QED
  BY <1>1, <1>2, SeenInvariant, PTL DEF Spec

LEMMA TablesAreOfSeeds ==
    ASSUME OrgInv, NEW t \in TableNames
    PROVE  tables[t] = <<>> \/ \E s \in Seeds : tables[t] = OrganizationOf(s)[t]
BY WholeTables DEF OrgInv, FetchedRows, Draws

\* Every variable stays in its range: whatever the simulator does, each table is
\* empty or that of one seed, and a task works on a repository that exists.
THEOREM TypeCorrect == Spec => []TypeOK
<1>1. OrgInv /\ FetchInv /\ AnswerInv /\ RunInv /\ GraphTypeInv => TypeOK
  BY TablesAreOfSeeds DEF OrgInv, FetchInv, AnswerInv, RunInv, GraphTypeInv, TypeOK
<1> QED
  BY <1>1, OrgInvariant, FetchInvariant, AnswerInvariant, RunInvariant, GraphTypeInvariant, PTL

==========================================================================
