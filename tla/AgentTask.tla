---------------------------- MODULE AgentTask ----------------------------
(***************************************************************************)
(* CompleteAgent.run of agent/runtime.py up to the point where it works on *)
(* a repository: read the ticket, search the organization, route the task, *)
(* and answer the question or identify the repository. Each action is one  *)
(* visit to the database with what is computed from it. What follows an    *)
(* identified repository is EngineeringTask or MultiRepoTask.              *)
(***************************************************************************)
EXTENDS EntityGraph, FiniteSetsExt

CONSTANTS
    Objectives,   \* what is asked of the agent
    TopK          \* how many results a search returns at most

\* An objective is the id of a ticket, or a text with some markers in it that
\* names some repositories.
TextObjectives == [ticket : {NoEntity}, question : BOOLEAN, action : BOOLEAN,
                   multi : BOOLEAN, names : SUBSET Range(RepoIds)]
TicketObjectives == [ticket : {<<"Ticket", n>> : n \in 1000 .. 3999}]
IsTicket(o) == o.ticket # NoEntity

ASSUME AgentTaskAssumption ==
    Objectives \subseteq TextObjectives \cup TicketObjectives /\ TopK \in Nat

VARIABLES
    phase,       \* where the run is
    objective,
    task_type,
    multi,       \* whether the text searched for has a marker of several repositories
    evidence,    \* what the searches returned, ranked: the source and its related entities
    target,      \* repo_id
    targets,     \* repo_ids, of a multi-repository task
    answer,      \* the evidence that final_answer cites
    rewritten,   \* whether a language model wrote it
    status

taskVars == <<phase, objective, task_type, multi, evidence, target, targets, answer,
              rewritten, status>>
vars == <<orgVars, graphVars, disturbed, taskVars>>

--------------------------------------------------------------------------
(* Searching (knowledge/retrieval.py). The ranking is any.                 *)

SourceOf == [Message |-> "slack", Document |-> "drive", Ticket |-> "ticket",
             Incident |-> "incident", PullRequest |-> "pull_request", Commit |-> "commit",
             WikiPage |-> "wiki", LogEntry |-> "log"]

\* Every row is an entry of its own, also where two are alike.
Corpus(names) == UNION {{<<t, k>> : k \in DOMAIN tables[t]} : t \in names}
Entry(at) == [source |-> SourceOf[at[1]], related |-> tables[at[1]][at[2]].refs]
Results(names) ==
    {[n \in DOMAIN top |-> Entry(top[n])] :
        top \in UNION {Injection(1 .. n, Corpus(names)) : n \in 0 .. TopK}}

--------------------------------------------------------------------------
(* Routing (agent/reasoning.py) and the knowledge task.                    *)

ClassifyTaskType(o) ==
    IF o.question /\ ~o.action THEN "knowledge_only" ELSE "engineering"

\* Two items of each source, in evidence's order. What comes from documents and
\* wiki pages is called drive and wiki, which the answer does not look for.
CitedSources == {"document", "pull_request", "commit", "slack", "incident", "ticket", "log"}
Earlier(n) == {m \in DOMAIN evidence : m < n /\ evidence[m].source = evidence[n].source}

\* A mutant: the items after the first two.
CitedPastTwo ==
    {n \in DOMAIN evidence : evidence[n].source \in CitedSources /\ Cardinality(Earlier(n)) >= 2}

Cited ==
    {n \in DOMAIN evidence : evidence[n].source \in CitedSources /\ Cardinality(Earlier(n)) < 2}

VerifyKnowledgeTask ==
    IF Len(evidence) >= 2 /\ Cardinality({e.source : e \in Range(evidence)}) >= 2
    THEN "VERIFIED_COMPLETE" ELSE "INSUFFICIENT_EVIDENCE"

--------------------------------------------------------------------------
(* The repository a task is about.                                         *)

\* A mutant: the first related entity, whatever it is.
IdentifiedUnfiltered ==
    {evidence[n].related[1] : n \in {n \in DOMAIN evidence : evidence[n].related # <<>>}}

\* The first related entity that is a repository, of the first evidence that
\* has one; without any, a repository that the objective names, in the order of
\* a set.
Identified ==
    LET known  == IdsOf("Repository")
        In(e)  == {k \in DOMAIN e.related : e.related[k] \in known}
        hits   == {n \in DOMAIN evidence : In(evidence[n]) # {}}
        first  == evidence[Min(hits)]
    IN IF hits # {} THEN {first.related[Min(In(first))]}
       ELSE IF IsTicket(objective) THEN {} ELSE objective.names \cap known

--------------------------------------------------------------------------
(* The run. Init starts from a server without a request; a behaviour has   *)
(* one task or one trace.                                                  *)

Init ==
    /\ OrgInit
    /\ GraphInit
    /\ phase = "idle"
    /\ objective = [ticket |-> NoEntity]
    /\ task_type = "none"
    /\ multi = FALSE
    /\ evidence = <<>>
    /\ target = NoEntity
    /\ targets = {}
    /\ answer = {}
    /\ rewritten = FALSE
    /\ status = "RUNNING"

SubmitTicket ==
    /\ phase = "idle" /\ gphase = "idle"
    /\ objective' \in {o \in Objectives : IsTicket(o)}
    /\ phase' = "read"
    /\ UNCHANGED <<task_type, multi, evidence, target, targets, answer, rewritten, status>>

SubmitText ==
    /\ phase = "idle" /\ gphase = "idle"
    /\ objective' \in {o \in Objectives : ~IsTicket(o)}
    /\ phase' = "search"
    /\ task_type' = ClassifyTaskType(objective')
    /\ multi' = objective'.multi
    /\ UNCHANGED <<evidence, target, targets, answer, rewritten, status>>

\* A read of a table that was dropped: the endpoint answers 500 and keeps nothing.
TaskRaises ==
    /\ phase \in {"read", "search", "reread", "identify", "search_incidents",
                  "identify_again", "identify_all"}
    /\ ~schema
    /\ phase' = "raised"
    /\ UNCHANGED <<objective, task_type, multi, evidence, target, targets, answer,
                   rewritten, status>>

NoSuchTicket ==
    /\ phase = "read"
    /\ schema
    /\ objective.ticket \notin IdsOf("Ticket")
    /\ phase' = "closed"
    /\ status' = "INSUFFICIENT_EVIDENCE"
    /\ UNCHANGED <<objective, task_type, multi, evidence, target, targets, answer, rewritten>>

ReadTicket ==
    /\ phase = "read"
    /\ schema
    /\ \E ticket \in RowsOf("Ticket") :
          /\ ticket.id = objective.ticket
          /\ multi' = ticket.multi
    /\ phase' = "search"
    /\ task_type' = "engineering"
    /\ UNCHANGED <<objective, evidence, target, targets, answer, rewritten, status>>

\* The eight queries of one search are one step: its results are any entries.
Search ==
    /\ phase = "search"
    /\ schema
    /\ evidence' \in Results(DOMAIN SourceOf)
    /\ phase' = IF task_type = "knowledge_only" THEN "answer"
                ELSE IF multi THEN "identify_all"
                ELSE IF IsTicket(objective) THEN "reread" ELSE "identify"
    /\ UNCHANGED <<objective, task_type, multi, target, targets, answer, rewritten, status>>

\* The verdict looks at the evidence and not at the answer. A language model may
\* rewrite the answer; if it fails or returns nothing, the answer stays.
Answer ==
    /\ phase = "answer"
    /\ \/ answer' = Cited /\ rewritten' = FALSE
       \/ answer' \in SUBSET Cited /\ rewritten' = TRUE
    /\ status' = VerifyKnowledgeTask
    /\ phase' = "closed"
    /\ UNCHANGED <<objective, task_type, multi, evidence, target, targets>>

\* The ticket is read a second time, for the service of its incident.
IncidentsOf(ticketId) ==
    {i \in RowsOf("Incident") :
        \E t \in RowsOf("Ticket") : t.id = ticketId /\ i.id \in Range(t.refs)}

TicketHasNoIncident ==
    /\ phase = "reread"
    /\ schema
    /\ IncidentsOf(objective.ticket) = {}
    /\ phase' = "identify"
    /\ UNCHANGED <<objective, task_type, multi, evidence, target, targets, answer,
                   rewritten, status>>

\* A mutant: the evidence decides.
TicketHasIncidentByEvidence ==
    /\ phase = "reread"
    /\ schema
    /\ phase' = "work"
    /\ target' \in Identified
    /\ UNCHANGED <<objective, task_type, multi, evidence, targets, answer, rewritten, status>>

TicketHasIncident ==
    /\ phase = "reread"
    /\ schema
    /\ phase' = "work"
    /\ \E incident \in IncidentsOf(objective.ticket) : target' = incident.refs[1]
    /\ UNCHANGED <<objective, task_type, multi, evidence, targets, answer, rewritten, status>>

Identify ==
    /\ phase \in {"identify", "identify_again"}
    /\ schema
    /\ target' \in Identified
    /\ phase' = "work"
    /\ UNCHANGED <<objective, task_type, multi, evidence, targets, answer, rewritten, status>>

NotIdentified ==
    /\ phase = "identify"
    /\ schema
    /\ Identified = {}
    /\ phase' = "search_incidents"
    /\ UNCHANGED <<objective, task_type, multi, evidence, target, targets, answer,
                   rewritten, status>>

SearchIncidents ==
    /\ phase = "search_incidents"
    /\ schema
    /\ \E more \in Results({"Incident"}) : evidence' = evidence \o more
    /\ phase' = "identify_again"
    /\ UNCHANGED <<objective, task_type, multi, target, targets, answer, rewritten, status>>

NoRepository ==
    /\ phase = "identify_again"
    /\ schema
    /\ Identified = {}
    /\ phase' = "closed"
    /\ status' = "INSUFFICIENT_EVIDENCE"
    /\ UNCHANGED <<objective, task_type, multi, evidence, target, targets, answer, rewritten>>

\* The repositories that the evidence names, or all of them when it names fewer
\* than two.
IdentifyAll ==
    /\ phase = "identify_all"
    /\ schema
    /\ LET named == (UNION {Range(e.related) : e \in Range(evidence)}) \cap IdsOf("Repository")
       IN targets' = IF Cardinality(named) < 2 THEN IdsOf("Repository") ELSE named
    /\ phase' = "work"
    /\ UNCHANGED <<objective, task_type, multi, evidence, target, answer, rewritten, status>>

TaskNext ==
    \/ SubmitTicket
    \/ SubmitText
    \/ TaskRaises
    \/ NoSuchTicket
    \/ ReadTicket
    \/ Search
    \/ Answer
    \/ TicketHasNoIncident
    \/ TicketHasIncident
    \/ Identify
    \/ NotIdentified
    \/ SearchIncidents
    \/ NoRepository
    \/ IdentifyAll

UnderWay == phase \notin {"idle", "closed", "raised"} \/ gphase \notin {"idle", "raised"}

Seeding ==
    /\ SeedNext
    /\ disturbed' = (disturbed \/ (UnderWay /\ tables' # tables))
    /\ UNCHANGED <<graphVars, taskVars>>

Tracing ==
    /\ phase = "idle"
    /\ GraphNext
    /\ UNCHANGED <<orgVars, disturbed, taskVars>>

Running ==
    /\ TaskNext
    /\ UNCHANGED <<orgVars, graphVars, disturbed>>

Next == Seeding \/ Tracing \/ Running

Spec == Init /\ [][Next]_vars

--------------------------------------------------------------------------
(* Properties.                                                             *)

TypeOK ==
    /\ schema \in BOOLEAN
    /\ seeding \in {"idle", "dropped", "created", "flushed"}
    /\ seedings \in 0 .. MaxSeedings
    /\ \A t \in TableNames : tables[t] = <<>> \/ \E s \in Seeds : tables[t] = OrganizationOf(s)[t]
    /\ gphase \in {"idle", "build", "walk", "done", "raised"}
    /\ read \in 0 .. 9
    /\ seen \subseteq Nodes
    /\ phase \in {"idle", "read", "search", "answer", "reread", "identify", "search_incidents",
                  "identify_again", "identify_all", "work", "closed", "raised"}
    /\ target \in Range(RepoIds) \cup {NoEntity}
    /\ targets \subseteq Range(RepoIds)
    /\ answer \subseteq DOMAIN evidence
    /\ status \in {"RUNNING", "VERIFIED_COMPLETE", "INSUFFICIENT_EVIDENCE"}

\* The task of an event about a ticket works on the repository that the event
\* names, whatever the search ranks first, unless the organization was replaced
\* under it (runtime.py:159-168, communications.py:345-359).
EventsReachTheirRepository ==
    phase = "work" /\ ~disturbed =>
        \A event \in RowsOf("SimEvent") : objective.ticket = event.objective =>
            target = event.repo /\ targets = {}

\* A verified answer cites every kind of source that the search found, but for
\* documents and wiki pages, unless a model rewrote it (reasoning.py:84-101,
\* verifier.py:152-175).
VerifiedAnswersCiteTheirSources ==
    phase = "closed" /\ status = "VERIFIED_COMPLETE" /\ ~rewritten =>
        \A e \in Range(evidence) :
            e.source \notin {"drive", "wiki"} => \E n \in answer : evidence[n].source = e.source

==========================================================================
