# A formal model of the Autonomous Risk Detection, Repair and Verification Engine

This directory holds TLA+ specifications of the engine in `src/`, the TLC
configurations that model-check them, and TLAPS proofs about them. The engine
takes an objective (a sentence, a ticket id or a simulated event), finds the
repository it is about, repairs that repository in a sandbox, verifies and
reviews the repair, and writes to the outside world, a pull request and a
ticket comment, either by itself or after a human approved. It is a small
program; what is hard in it is who may act between two of its steps, what a
command that was cut off looks like to the step that reads its result, and
whether "verified", "approved" and "dispatched" mean what the documents say.

All paths below are relative to `src/`.

## 1. The system

### 1.1 Components, their state and their operations

| Component | State it keeps | Operations | Modelled in |
|---|---|---|---|
| Approval endpoint, `api/main.py:242-323` | rows of `task_records` (a status column and `state_json`, one JSON blob), rows of `tickets` | `resolve_approval` | `ApprovalApi`, `ApprovalLedger` |
| Task and dispatch endpoints, `api/main.py:84-106, 169-210` | `task_records`, `sim_events`, `tickets` | `run_task`, `dispatch_event` | `TaskApi` |
| Browser, `frontend/index.html` | the click under way, its attempt and its timer | `fetchJsonWithRetry`, `runTask`, `dispatchEvent`, the approval buttons | `TaskApi` (requests), clients of `ApprovalApi` |
| Read-only endpoints, `api/main.py` | none | listings, graph, `merge_rate_stats` | not modelled |
| Repair loop, `agent/general_loop.py:267-551` | target, last result, attempt, hypotheses, changes | `run_general_loop` | `RepairLoop` |
| Strategies and failure analysis, `agent/general_loop.py:50-245`, `agent/failure_analysis.py` | none | propose an edit from a failing test | `FixStrategies`, `GuidedRepair` |
| Engineering task, `agent/runtime.py:155-367` | `TaskState`: status, verdict, artifacts, approvals | `_run_engineering_task` | `EngineeringTask` |
| Multi-repository task, `agent/runtime.py:371-590` | the same, with one result per repository | `_run_multi_repo_engineering_task` | `MultiRepoTask` |
| Agent entry, `agent/runtime.py:43-184`, `agent/reasoning.py` | `TaskState`: task type, evidence, the repository, the answer | route an objective, answer a question, identify the repository | `AgentTask` |
| Verifier, `agent/verifier.py` | none | `verify_scoped_fix`, `verify_knowledge_task` | `Verification`, `AgentTask` |
| Reviewer and merge policy, `tools/review.py` | none | review a diff, decide whether it may merge | `Review` |
| Safety gate, `agent/safety_gate.py` | none | tier of a tool, verdict on an action | `SafetyGate` |
| Sandbox, editing and git tools, `sandbox/workspace.py`, `tools/engineering.py`, `tools/git_tools.py` | a directory with a copy of a repository | provision, run, edit, commit, diff, clean up | `RepairLoop`, `Verification`, `EngineeringTask`, `MultiRepoTask` |
| Ticket tools, `tools/workflows.py`, `tools/tickets.py` | `tickets.comments`, a list in one column | `update_ticket`, `read_ticket` | `ApprovalApi`, `TaskApi`, `AgentTask` |
| Database, `db.py`, `models.py` | SQLite, one session per request | flush, commit, roll back; drop and create the tables | `ApprovalApi`, `TaskApi`, `Organization` |
| Retrieval and search, `knowledge/retrieval.py`, `tools/search.py` | an index built at each call | search all sources, or incidents | `AgentTask` |
| Entity graph, `knowledge/graph.py` | a graph built at each call | trace up and down | `EntityGraph` |
| Simulator, `simulator/` | the rows of the organization | generate one from a seed and replace the old one | `Organization` |
| Evaluation, logging, project inspector, registry | none that other parts write | scores, heuristics | not modelled |

### 1.2 How they interact

- The browser calls the endpoints over HTTP. It repeats a request that fails
  or takes too long, and aborting the request does not stop the handler.
- The endpoints are plain `def` functions: FastAPI runs each request in a
  thread of a pool, with a database session of its own. Nothing is locked
  between a read and the write that depends on it, except by SQLite, which has
  one writer at a time and fails a second one after five seconds.
- `run_task` and `dispatch_event` call the agent in that thread and commit
  everything it wrote, with the task's record, in one transaction at the end.
- The agent calls the repair loop, the verifier, the reviewer and the gate one
  after the other. The repair loop and the verifier start commands in the
  sandbox, each of which is cut off after thirty seconds.
- A run that the gate stopped leaves unresolved approvals in the record.
  `resolve_approval` is what performs them later; the record is all that the
  two have in common.
- The agent starts from the organization: it reads tickets and incidents,
  searches every table, and follows references from one row to another. The
  simulator writes these tables. It is a program of its own, which drops them,
  creates them and fills them, and nothing keeps it from running while a
  request is served.

### 1.3 What is hard, and what makes each component correct

- *Approval endpoint.* It reads the blob, edits its copy and writes it back
  whole, and it commits the ticket before the record. Correct means: a
  decision once answered stays; an external write is performed once, and only
  if somebody approved it; the status moves past `APPROVAL_REQUIRED` with the
  last decision and never back; the two copies of the status agree.
- *Task and dispatch endpoints.* The event is checked before a run of minutes
  and marked after it; replies are lost and requests repeated. Correct means:
  an event is marked exactly when a run of it is recorded, it is run once, a
  comment on a ticket has a recorded run behind it, and what the browser is
  told is so.
- *Repair loop.* An attempt is left in seven ways, and a run that was cut off
  looks like a failing run without failing tests. Correct means: "done" is
  said of files that pass, what is committed is a fix, every edit is logged,
  and the loop ends.
- *Strategies.* The first that matches wins, whatever the failure is about, and
  a bound is remembered apart from the edit it came with. Correct means: what
  they are made for is repaired within the attempts, and the regression test
  that is left behind passes.
- *Engineering task.* Every exit has to clean up and to set a status that
  agrees with the verdict and the approvals. Correct means: nothing is
  proposed that does not pass, no regression gets through verification, a diff
  with a risk waits for a human, and the external writes are all made or all
  waiting.
- *Multi-repository task.* Each repository has its own outcome and the gate
  may answer differently for each. Correct means: no repository is dropped, the
  change is proposed for all of them, passing and in agreement, or for none,
  and the final status says what is so.
- *Agent entry, retrieval and graph.* A task visits the database several times
  and a graph is built by nine queries, between any two of which the rows may
  become others. What a search ranks first is any. Correct means: a task about
  an event's ticket works on the repository of the event, a verified answer
  cites what it was verified on, the graph has every reference that the rows
  have, and a trace is acyclic and complete.
- *Simulator.* Ids are drawn at random and rows refer to each other by them;
  the tables are dropped outside of the transaction that fills them. Correct
  means: a reader finds one whole organization or none, and in it the way from
  the incident to the regression, whatever was drawn.

The hazards that follow from this are listed, each at its line, in
`PROJECT.json`; the properties of section 4 are aimed at them.

## 2. Modules

    ApprovalLedger      what the approval gate promises (abstract)
    ApprovalApi         resolve_approval over its two tables; implements it
    ApprovalApi_proofs  theorems about ApprovalApi
    MCApprovalApi       its instances for TLC
    TaskApi             run_task and dispatch_event with the browser's retries
    TaskApi_proofs      theorems about TaskApi
    MCTaskApi           its instances for TLC
    SafetyGate          tiers of the tools, verdicts of the gate (operators)
    Review              the reviewer's dimensions, filter, verdict and merge
                        policy (operators)
    RepairLoop          the diagnose-edit-test loop
    RepairLoop_proofs   what every step of the loop keeps
    FixStrategies       the four strategies, from what is found out about a
                        failing test (operators)
    GuidedRepair        the loop with the edits that they make; implements it
    GuidedRepair_proofs theorems about GuidedRepair and FixStrategies
    StraightforwardRepair_proofs   the loop finishes what it is made for
    MCGuidedRepair      small repositories for TLC
    Verification        what follows the loop in one repository: the fresh
                        verification, the diff, the review of both (operators)
    EngineeringTask     a whole task: the loop, verification, approvals, gate
                        and clean-up
    EngineeringTask_proofs   theorems about EngineeringTask and its loop
    MultiRepoTask       the same for several repositories
    MultiRepoTask_proofs     theorems about MultiRepoTask
    Organization        what the simulator writes, and how it replaces it
    EntityGraph         the graph over these rows and its two traces
    AgentTask           an objective on its way to an answer or a repository,
                        with EntityGraph and Organization beside it
    AgentTask_proofs    theorems about the three
    MCAgentTask         three seeds and a few objectives for TLC

`GuidedRepair` extends `RepairLoop` and `FixStrategies`: each of its actions is one
of the loop's. `Verification` extends `RepairLoop` and `Review`; `EngineeringTask` and
`MultiRepoTask` each extend `Verification` and `SafetyGate`, and the loop's
`LoopNext` is their step `Investigate`. `ApprovalApi` starts from what a run leaves in
the record: that every write was let through or every one waits, which
`AllOrNothing` of `EngineeringTask` establishes for one repository. `TaskApi`
sees a run from outside, as a job. `AgentTask` extends `EntityGraph`, which extends
`Organization`; it ends at `work`, with the repository or repositories from which
`EngineeringTask` and `MultiRepoTask` start.

### 2.1 ApprovalApi

One action is one access to the database with the computation before it, so
that another thread may act between any two.

| Code, `api/main.py` | Model |
|---|---|
| `session.get(TaskRecord)`, the search for the action, 409 if resolved (254-264) | `RefuseResolved`, or the first half of `LoadRecord` |
| the resolution and the draft in the loaded copy (266-291) | `Resolve`, in `LoadRecord` |
| `update_ticket`: `session.get(Ticket)`, the list of comments plus one (`tools/workflows.py:18-25`) | `ReadTicket` |
| its flush, and the handler's commit (280) | `CommitTicket` |
| `record.status` read again, because the commit expired it (298-302) | `ReloadRecord` |
| `flag_modified`, the status, the commit, the answer (293-312) | `CommitRecord`, with `Updated` |
| the exception handler, 500 (313-323), or the end of the process | `FailRequest` |

`tasks` are the rows (`status`, the column, and `state`, the blob), `comments`
the tickets' lists as a count per action, `work` the thread's local variables.
`Updated` models what SQLAlchemy puts in the UPDATE: the blob always, the
status only if the attribute was changed from the value that was loaded, or
was assigned while expired. The variables `asked`, `acked`, `posted`, `raced`,
`racedTickets` and `faulted` are history; no action's guard reads them.

`ApprovalLedger` is what the gate promises about one task: a decision per
approval, a write with the approval of it and never again, a status that
closes with the last decision. `LedgerOf(t)` is the ledger of the task t, and
`UndisturbedTasksImplementLedger` says that whatever any thread does is one of
its steps, or none, as long as no two requests overlapped on the task or on a
ticket of its approvals, and none of its requests failed after the ticket's
commit. The properties with `Unraced` in their name are about such tasks too.

### 2.2 TaskApi

`click` and `attempt` are the state of `fetchJsonWithRetry`; `job[<<c, n>>]` is
what became of the n-th attempt of click c on its way to, in and from the
server. `Post`, `Receive` and `NoReply` are the browser (`index.html:315-334`);
a reply ends the click whatever its code, and only the lack of one is retried.
`Refuse` and `Accept` are the check of the event (`main.py:175-180`),
`ReadTicket` and `FlushTicket` the `update_ticket` that the gate let through
(`tools/workflows.py:18-35`), `Commit` the single transaction
(`main.py:185-199`), `AgentRaises` and `LockTimeout` the two ways into the
exception handler, `Restart` the end of the process. `writer` is SQLite's write
lock, taken by the first flush and held until the transaction ends.

### 2.3 RepairLoop

What the repository's code says is abstracted to `suite`, what its test suite
does with it: passes, fails some tests, or cannot be collected. An edit changes
`suite` to anything. A run of the suite returns `suite`, or when it is cut off
a failure that names no test; `Timeouts` says whether that happens. The control
of the function is kept whole: the five ways out of diagnosis and editing, the
retest, the redirection to another failing test, the revision within the
attempt and its own retest, the regression test whose result is only logged,
the quality checks, the commit whose result nobody reads, and the places that
index an empty list of failing tests or read a file that is not there and so
raise.

### 2.4 EngineeringTask, Verification, Review and SafetyGate

`phase` is the place in `_run_engineering_task`; its actions follow it
statement by statement (`NoRepository` 182-184, `Provision` 186-204,
`Investigate` 206, `NotDone` 209-217, `Verify` 219-234, `Review` 236-261,
`PreparePullRequest` 263-314, `UpdateTicket` 316-359, `Close` 361-367). The
verdict of `verify_scoped_fix` is computed from runs of the suite in its
present state, the diff from the state of the working tree (`InspectDiff`,
`tools/git_tools.py:88-99`), the gate's answer from `SafetyGate`.

`Review` has an operator for each of the five dimensions, with the severity and
the confidence of what it finds, the filter, the verdict and the policy. A diff
is the set `lines` of kinds of added lines that some pattern matches (any set of
kinds, or none for an empty diff); the patterns themselves, and the number of
changed lines, are a choice.

### 2.5 MultiRepoTask

The loop's variables are those of the repository under way: they start afresh
(`LoopStart`) when its turn ends, since each turn is a new call on a new
working copy. `Identify` is `runtime.py:380-395`, `Provision` 397-402,
`NotDone` 405-413 (the `continue`), `Verify` 415-448, `Probe` 450-500, and the
three ways to close are `AutoMerge` 529-557, `RequestApprovals` 558-577 and
`Incomplete` 578-590, each after the clean-up of all sandboxes (512-513).
`results`, `schemas` and `approvals` are `multi_repo_results`, the probes'
answers and the approvals. `green` and `shape` are history: what the files of a
repository really do when its turn ends, and the keys its error responses
really have, neither of which the task can see.

### 2.6 FixStrategies and GuidedRepair

A module of a repository is one number, a function with some adjustments
(` - 1`, ` + 1`), the keys of the dictionary the function returns, and whether
it is guarded against a repeated call; `once` says whether the text that an edit
replaces occurs once, as `edit_file` demands. A test asserts one of these, uses
some of the names it imports, and says its bounds when it fails or does not:
that is all that `analyze_failure` and the regular expressions extract. What the
strategies do to a module follows the code, including what they do when they are
wrong: `numeric_bound` comes first and needs no bound, `off_by_one` takes away an
adjustment whatever the failure, `shape_mismatch` rewrites the first dictionary
that is returned, which in a guarded function is the guard's.

In `GuidedRepair` the suite is no longer a choice but follows from code and tests
(`FailingTests`, `SuiteOf`), and so does what happens at each step of the loop. The files a test
uses are tried in the order of a Python set: any, and the same at each attempt.
The evidence that the self-correction searches for (`general_loop.py:401`) is
recorded and plays no part in the edit, so it is not modelled.

### 2.7 Organization, EntityGraph and AgentTask

`tables` are the committed rows: of each its id, the ids it refers to in the
order in which the code lists them (the search's `related_entities` and the
graph's edges both follow it), and the thread of a message. `OrganizationOf(s)` is
what `generate_organization` makes of the numbers that the random generator draws
with seed s: five deployments out of ninety, each by itself, five growing pull
requests, and one offset for the ids of incidents and tickets. Who wrote
what, when, and the text are left out, and the sixty log lines of one incident,
which all refer to the same two entities, are one row.

| Code | Model |
|---|---|
| `drop_all` and `create_all` (`db.py:36-39`) | `DropTables`, `CreateTables` |
| the merges of `persist` and the flush (`organization.py:83-219`) | `Flush`, or `FlushRaises` when two deployments drew one id |
| `session_scope`'s commit, its rollback, the end of the process (`db.py:43-52`) | `CommitRowsOfSeed`, `Abort` |
| `build_graph`, query by query (`knowledge/graph.py:16-77`) | `FetchTable`, `EdgesOf`; `FetchRaises` if the tables are gone |
| `trace_upstream`, `trace_downstream` (80-91) | `Built`, and `Walk` layer by layer |
| `CompleteAgent.run` to its search (`runtime.py:43-101`) | `SubmitTicket`, `SubmitText`, `NoSuchTicket`, `ReadTicket`, `Search` |
| the knowledge task (127-140, `reasoning.py:77-101, 146-196`, `verifier.py:152-175`) | `Answer`, with `Cited` and `VerifyKnowledgeTask` |
| the ticket read again for the service of its incident (159-168) | `TicketHasIncident`, `TicketHasNoIncident` |
| `_identify_target_repo`, the search for incidents (144-153, 170-184) | `Identified`, `Identify`, `NotIdentified`, `SearchIncidents`, `NoRepository` |
| the repositories of a multi-repository task (380-395) | `IdentifyAll` |
| a read of a table that is not there, 500 (`main.py:99-104`) | `TaskRaises` |

An edge is added only to an entity that is a node by then, so the order of
`GraphTables` is part of what `EdgesOf` says (`Known`). A search returns any
distinct rows of the tables, at most `TopK`, in any order: the ranking is left
open, so that nothing shown of a task depends on it. `disturbed` is history:
the committed rows changed while a task or a trace was under way.

## 3. Order and later work

1. Approval endpoint, abstract ledger, first proofs (done).
2. Task and dispatch endpoints with the browser (done).
3. Repair loop, safety gate, engineering task (done).
4. Review by dimensions; multi-repository task on the same loop and
   verification (done).
5. Fix strategies, as a detailed loop that implements `RepairLoop` (done).
6. Organization, entity graph, agent entry and knowledge task (done).
7. `ApprovalApi` implements `ApprovalLedger`, checked and proved with any number
   of threads (done).
8. Types of the guided loop, for any suites and repositories (done).
9. The safety halves of the liveness properties, and the exact causes of the
   disagreements that the runs show, as theorems (done).

What could follow: a task from its objective to its record in one module
(`AgentTask`, `EngineeringTask` and `TaskApi` agree on what passes between them;
their product is beyond these bounds), and the project inspector's rules as
operators.

## 4. Runs

Deadlock is not checked, because every one of these systems does stop: a
server has no requests left to serve, a task has closed. That none stops before
that is what the liveness properties say (`ClicksEnd`, `JobsEnd`, `TaskEnds`).

### 4.1 Runs that pass

- `approvals_overlap`. Two threads; two single-repository tasks about the same
  ticket, each with a pull request and a ticket update, and a multi-repository
  task; three requests; failures before and after the ticket's commit. Shows
  what survives every interleaving: writes only by approval
  (`EffectsApproved`), decisions and single writes on tasks without overlap
  (`UnracedDecisionsStick`, `UnracedWritesOnce`), acknowledged comments
  (`AckedWritesStay`), that the two copies of the status agree on such tasks
  (`UnracedStatusesAgree`), that each of them implements its ledger while
  others race (`UndisturbedTasksImplementLedger`), and, with no exception at
  all, that a status never reopens (`StatusNeverReopens`). Bounds: a race needs
  two requests, and a third to observe or repeat; two tasks are needed to race
  on a ticket and not on a task, and to leave one undisturbed. Three requests
  decide both approvals of a task and repeat one. Threads are symmetric; the
  only temporal properties are about single steps, for which the reduction is
  sound.
- `events_retried`. A click on DISPATCH and a click on RUN for one ticket, one
  retry each, one restart. `MarkedIffRecorded`, `CommentsRecorded`,
  `RepliesTrue`, `UnracedDispatchedOnce` and the two liveness properties. Two
  attempts of two clicks are up to four jobs at once, three of which may wait
  for the fourth's lock.
- `engineering_task`. Two tests, three attempts, any run cut off. Two tests are
  enough for a target that is fixed while another test breaks, the case that
  redirects and revises. Three attempts have a first, one in between and a
  last; the code's four give the same result on twice as many states, and the
  proofs hold for any number. What is done, committed, logged, verified,
  reviewed, proposed and left behind, and that every task ends.
  `RegressionsCaught` relates the verdict to the files: the loop commits its
  regression test even when that fails, and only the verifier is left to stop it.
  `VerifiedForAReason` relates it to the diff: which commit was looked at, and
  why it was that one.
- `multi_repo`. Three repositories, so that the evidence may name two of them
  or too few; two shapes of error response and none; one test and two attempts
  for each loop, whose own behaviour is the other run's subject. Mixed results,
  mixed answers of the gate, failed probes and cut-off runs all occur.
  `ProposedTogether` and `OpenedTogether` are the all-or-none promise of a
  coordinated change, `NoneForgotten` and `StatusTrue` what closing leaves.
- `strategies`. Two tests of any kind on two modules, one of which has up to
  four things wrong, four attempts as in the code; runs of the suite end in
  time. `StraightforwardIsFixed` says which repositories the loop is made for,
  and that it is done with each of them, in whatever order files are tried:
  those that are `Repairable` (each test uses just what it asserts, the tests of
  a module are about one range, no function with the wrong keys is guarded, the
  text to replace occurs once) and have no more to repair (`Work`: the tests
  that fail, and the adjustments) than attempts.
  Ranges are wide enough for the cut of fifty, as narrow as one, empty, and
  open; all other suites (shared names, wanted adjustments, text that occurs
  twice) are in the same run for `RegressionTestPasses`. The types of this loop
  (`GuidedTypeOK`) need no run of their own: those it shares with `RepairLoop`
  are checked by `engineering_task`, and all are proved (`GuidedTypeCorrect`).
- `agent_and_graph`. One task or one trace, while the simulator runs up to
  twice: so that a reader may see the first organization, none, an empty one
  and the second, and the nine queries of a graph may be divided between them.
  Three seeds: one whose pull requests include the PR-118 that a document
  mentions, one that draws the id of two deployments twice and so cannot be
  written, one that shares ids with each of the others and has no PR-118. The
  ids traced are an incident of each seed, a repository, a message and a thread;
  the objectives tickets with and without an incident, of one seed and of the
  other, a question, a task that names two repositories and one with the
  markers of several. Two results of a search can agree or disagree in source
  and in repository. `TracesDoNotCycle`, `NoReferenceLost` and
  `IncidentLeadsToRegression` are about the graph, `EventsReachTheirRepository`
  and `VerifiedAnswersCiteTheirSources` about the task.

### 4.2 Runs that find a disagreement

Each checks one statement of the repository about itself, and TLC shows how
the code departs from it.

| Run | The statement | What happens |
|---|---|---|
| `approvals_lost_decision` | a second decision on an approval is refused, 409 "was already" (`main.py:263-264`) | two decisions on one task overlap, both are answered 200, the later commit writes back a blob without the earlier one |
| `approvals_written_twice` | "double-approval correctly rejected" (`CLAIMS.md:46`) | the request fails after the ticket's commit and before the record's; approving again comments again |
| `approvals_multi_stuck` | "if every approval is now resolved, the task's overall status can move past APPROVAL_REQUIRED" (`main.py:294`) | a multi-repository task has no `final_verdict`, so it stays |
| `events_dispatched_twice` | "cannot be dispatched twice" (`README.md:175-176`) | the browser gives up waiting after 60 s and posts again; both runs see the event pending |
| `task_partial_merged` | "review before merging" (`runtime.py:626-627`) | the verifier's full run is cut off, names no failure, and so shows no regression: the verdict is partial, the review is told the suite passed, the gate lets it through |
| `task_unchanged_verified` | a fix without a change fails (`verifier.py:126`) | a green repository is not edited, but the diff falls back to the last commit of its history, which is then verified, reviewed and proposed |

What causes each is proved too, in the sense that nothing else does, for every
value of the constants:

| Run | It takes |
|---|---|
| `approvals_lost_decision` | two requests in flight at once (`SerialDecisionsStick`) |
| `approvals_written_twice` | that, or a failure between the two commits (`SerialWritesOnce`) |
| `approvals_multi_stuck` | a task of several repositories: there it is always so (`ApprovedMultiReposStay`), on the others never without an overlap (`StatusesFollowApprovals`) |
| `events_dispatched_twice` | a retry, or a second click for the event (`SinglePostsDispatchOnce`) |
| `task_partial_merged` | a run of the suite that is cut off (`PartialIsReviewedInTime`, `PartialVerdictsAreCutOff`) |
| `task_unchanged_verified` | a green suite at the start, or else a commit that failed (`OnlyTwoWaysToVerifyAnOldCommit`) |

More disagreements need no run to be seen. A loop that edited something and
did not converge closes `FAILED_VERIFICATION` (`runtime.py:210-213`, the action
`NotDone`), where `README.md:127-128` says `INSUFFICIENT_EVIDENCE`. And findings
of severity LOW, a failed format check among them, are actionable and leave the
review APPROVED (`review.py:263-268`, `ReviewVerdict`), so that the pull request is
opened with the reason "no actionable findings" (`review.py:291-292`).

About the organization: a question is verified on any two sources
(`verifier.py:152-175`), but the answer lists documents under the name
"document" and wiki pages not at all (`reasoning.py:84`), where the search calls them
"drive" and "wiki" (`knowledge/retrieval.py`). An answer verified on these two
alone cites nothing, where `README.md:50` says "cited answer"; the property
`VerifiedAnswersCiteTheirSources` makes the exception. A document mentions PR-118
(`communications.py:545`) whatever numbers the seed drew, where
`communications.py:4-5` says that each id corresponds to a real row. And five
deployments draw their ids from ninety numbers (`communications.py:81`): with
about one seed in ten two are equal, the flush raises, and the organization that
was there before has been dropped; `README.md:25-26` generates one from a seed.

### 4.3 Bounds

`MaxRequests` (requests that clients send), `Retries` (the browser's argument:
2 in the code for dispatching, 1 in the passing run, 2 in the violation),
`MaxCrashes`, `MaxAttempts` (4 in the code and in the violations, 3 and 2 in the
passing runs of whole tasks), `MaxValue`
(numbers of a module: larger ones are taken for it), `NumTests`, `NumRepos`, `Shapes`,
`Seeds`, `MaxSeedings` (runs of the simulator), `TopK` (results of a search: 8 in
the code, 6 of incidents), `Focuses` and `Objectives`. Each is a constant read in a guard or a
domain, and the proofs hold for every value.

`TopK` is 2 in the run: two results agree or differ in source and repository,
which is what the control of a task looks at. The cut to two cited results of a
source (`reasoning.py:84`) can leave out one that a verified answer rests on only
with four results, too many for TLC here; `VerifiedAnswersCite` proves the property
for any `TopK`.

A behaviour of `AgentTask` has one request, because a task and a trace share
nothing but the tables, and neither writes these. The eight queries of one search
are one step: its results are any rows in any case, and only rows of two
organizations in one result are left out. Dropping all tables is one step
too: a reader between two of them finds the one it reads or does not.

### 4.4 Fairness

- `TaskApi`: weak fairness on the progress of each job (the server runs its
  threads; the agent's tools end, since every command has a timeout,
  `sandbox/workspace.py:125-153`; a wait for the database ends with the lock or
  with the timeout), on the browser's timer and on its pause before a retry.
  None on the network, on clicks, on exceptions or on restarts.
- `EngineeringTask`, `MultiRepoTask`: weak fairness on `Next`. A run is one
  thread, and each of its steps ends by itself or is cut off. Which way a step
  goes is not assumed.
- `GuidedRepair`: weak fairness on `GuidedNext`, for the same reason.
- `ApprovalApi` has no liveness property and no fairness.

### 4.5 Mutants

For every property of a passing run `PROJECT.json` names a plausible bug, as an
operator next to the definition it replaces (`LoadRecordUnchecked`: no 409;
`CommitTicketAlone`: a stale list; `AcceptMarking`: the event marked before the
run; `VerifyScopedFixByCount`: failures counted instead of compared by name;
and so on), under which TLC finds the property violated.

## 5. Proofs

TLAPS proves each of the following for every value of the constants, under the
assumptions that the modules name (`ApprovalAssumption`, `TaskApiAssumption`,
`RepairLoopAssumption`, `FixStrategiesAssumption`, `MultiRepoAssumption`,
`OrganizationAssumption`, `AgentTaskAssumption`: the constants have their types,
there is at least one test and one attempt, a repository has finitely many
modules, "no shape" is not a shape, and a seed draws what the generator can draw).
All other facts are definitions. With the exceptions named below, each theorem is
`Spec => []P` for a property `P` that a passing run checks (`StatusNeverReopens` is
an action property), by an inductive invariant that holds initially, is kept by
every action and implies `P`.

**`ApprovalApi_proofs`**, any number of threads, tasks, approvals, tickets.
- `TypeCorrect`.
- `DecisionsStickUnlessRaced`. That a commit keeps the decisions of others needs
  the copy it writes to differ from the row in one resolution only:
  `CopiesCurrent`. That is so while nobody else works on the task, which
  `RacesNoticed` connects to the history variable `raced`.
- `StatusesNeverReopen`, from the types alone: `Updated` cannot write
  `APPROVAL_REQUIRED` over another value.
- `WritesOnceUnlessRaced`. `OpenMeansUnwritten`: an open approval has no
  committed write, unless its task was raced or its request failed after the
  ticket's commit.
- `AckedWritesStayUnlessRaced`. The same argument as for decisions, about the
  list of comments (`CommentsCurrent`, `TicketRacesNoticed`, `WrittenIsThere`).
- `EffectsAreApproved`. `OpenedGranted` and `CommentsGranted`: whatever is in the
  rows, in a copy or on a ticket was let through by the gate or asked for by
  somebody; here no race is excluded.
- `StatusesAgreeUnlessRaced`. `StatusInv`: on a task without a race the column,
  the blob and the copies of the one request at work have one status; it is
  needed because `Updated` writes the column only when the attribute changed.
- `UndisturbedTasksRefine`, the refinement of `ApprovalLedger`. `LedgerInv` adds
  to the above what a row can hold at all: a verdict of the verifier
  (`VerdictsKnown`), a pull request exactly for each approved action
  (`OpenedCounted`), a comment exactly for each approved ticket write, or one
  more between the two commits (`CommentsCounted`). With these each action is
  shown to be `Decide` for its approval when it commits the record, and to leave
  the ledger of every other task alone.
- `SerialDecisionsStick`, `SerialWritesOnce`, `SerialEndpointIsTheLedger`: with a
  pool of one thread (`OneThread`), and for the last two no failure between the
  two commits, the histories of races and failures stay empty
  (`SerialInvariant`, `UnfaultedInvariant`), and what was proved of undisturbed
  tasks holds of all. The server has more threads; the theorems say that the
  overlap is the only cause.
- `StatusesFollowApprovals`: a task of one repository waits exactly while one of
  its approvals is open. `ApprovedMultiReposStay`, by `MultiRepoWaits`: a task of
  several, which has no verdict, waits for ever.
- `RecordedDecisionsWereSent`: the decisions in rows and in copies were sent by a
  client for that very approval; again no race is excluded.

**`TaskApi_proofs`**, any number of clicks, events, tickets, retries, restarts.
- `TypeCorrect`, with `CountedAttempts` (the attempt a click is at never passes
  the number of retries).
- `MarksAreRecorded`: mark and record change in the same commit.
- `CommentsAreRecorded`, with `SeenRecorded`: the list of comments that a job
  read holds recorded comments only, because an uncommitted one is invisible.
- `RepliesAreTrue`, with `AnswersTrue` about the replies on their way.
- `DispatchedOnceUnlessRaced`, with `OneRunInv`: without an overlap a job that
  works on an event is the only one, and the event has no record.
- `SinglePostsDispatchOnce`: with one attempt for each event (`OnePostPerEvent`)
  nothing can overlap.
- `JobsMoveForward`, with `Unposted` (attempts after the present one were not
  posted): each change of a job lowers its `JobRank`, and the write lock belongs
  to the one job that flushed its ticket, which waits for nobody
  (`LockHolderCommits`). With fairness, which the prover cannot use, this is
  why `JobsEnd` holds.

**`RepairLoop_proofs`**: `LoopInv`, used by the two modules below. `OldTests`,
`RedWhileRepairing`, `GreenIsCurrent` (a last result that passed is what the
suite gives now, which no edit may come after), `RetestsFollowEdits`,
`EndsAreFinal` and `LoggedEdits` (between an edit and the end of its attempt the
hypothesis is still missing). `ChangeInv` connects the working tree with the
edits, and a loop that is done without one with a green baseline; `CutOffRun`:
on files of a loop that is done, a run that fails and names nothing new was cut
off. `LoopRank` falls with every step (`LoopRankFalls`): an attempt takes at most
an edit, a revision and their two runs.

**`GuidedRepair_proofs`**, any tests, modules and attempts. `GuidedImplementsLoop`:
every step is a step of `RepairLoop`, so that `LoopInv` holds. `RegressionTestsPass`,
of suites whose tests say their own bounds (`SayOwnBounds`): `BoundIsAsserted` (the
bound that is remembered is one that a test of the suite asserts) and
`FilesGiveSuite` (the suite is that of the files) together make a converged loop
one whose files are within it. The argument needs the premise: of a test that
says the bound of one number and uses another, the bound may be remembered for
the other one, which the test does not look at.
`PickedInside`: the arithmetic of `numeric_bound` stays within any bound that is
not a single value. `GuidedTypeCorrect`: every edit leaves code of the modelled
form; its premises are that the repositories have that form (`Repositories`), and
that the value picked for a bound that a test says is a number of a module
(`TypedTests`, which `PickedInside` gives for bounds that are).
`GuidedStepsAreCounted`: `LoopRank`, for the guided loop.

**`StraightforwardRepair_proofs`**, any number of tests, modules and attempts.
`StraightforwardNeverGivesUp`: a loop that returns or raises on a straightforward
repository is done. `Repairable` is kept by every proposal, and every proposal for
the first failing test lowers `Work` (`NumericRepairs`, `FunctionRepairs`, together
`ProposalsRepair`: an edit mends its test, or takes away an adjustment, and
breaks no other test); there always is one (`ProposalExists`). So the work that is
left never exceeds the attempts that are left (`Progress`, in `RepairInv`), and
no attempt ends without an edit (`NoAttemptFails`). The premises are those of the
model (runs end in time, code and tests have the modelled form, a test imports
the file that it is about).

**`EngineeringTask_proofs`**, any number of tests and attempts. `TaskInv` is
`LoopInv` with the types, `VerdictInv` (what a passing verdict says of the runs
it was made from), `Verified` (phases after the loop are reached only when it
was done), `Proposals` (what is decided and written at each phase),
`SandboxInv` and `RiskInv` (merging by itself was decided on a diff without a
risk). The two lemmas `PassingIsNotBlocked` and `RisksAreFound` are about the
review's operators. Theorems: `TypeCorrect`, `DoneFilesPass`,
`OnlyFixesAreCommitted`, `EditsAreLogged`, `ProposedFilesPass`,
`RisksAreReviewed`, `WritesAllOrNone`,
`SandboxesAreRemoved`. Besides:
- `TaskRunsTheLoop`: a task is a behaviour of `RepairLoop`, a refinement by a step
  or a stutter.
- `StepsAreCounted`: `TaskRank`, made of `LoopRank` and the phases left, is a natural
  number, at most `MaxTaskSteps`, that every step lowers. So no task takes more
  steps than that; that it takes them is fairness, and stays with TLC
  (`TaskEnds`).
- `PartialVerdictsAreCutOff` and `PartialIsReviewedInTime`, by `CutOffRun`;
  `NoRegressionPasses`, by that and `CompleteIsGreen`;
  `OnlyTwoWaysToVerifyAnOldCommit`, by `ChangeInv`.

**`MultiRepoTask_proofs`**, any number of repositories and shapes. `MultiInv` is
`LoopInv` with the types, `Turns` (each repository is recorded when its turn
ends), `Entries` (called verified only if left green), `ProbesTrue` (a shape that
was returned is the real one) and `Closings` (the three ways to close exclude
each other). Theorems: `TypeCorrect`, `ProposalsAgree`, `AllOpenedOrNone`,
`NoRepositoryForgotten`, `StatusesTellTheTruth`. Besides:
- `TurnsRunTheLoop`: each turn is a behaviour of `RepairLoop` from its start, a
  repository has one, and no later step changes the entry it left.
- `StepsAreCounted`, with a rank that counts the turns left.
- `PartialResultsAreCutOff`, by `CutOffRun`.

**`AgentTask_proofs`**, any seeds, objectives, number of results and of runs of the
simulator; all six properties of `agent_and_graph`.
- `TracesAreAcyclic`. `OrgInv`: the committed rows are none or all of one seed;
  `FetchInv`: so is each table that was read, whichever of two seeds it is of.
  Hence ids are unique within a table and tell the table (`Keyed`), so that each
  row has one place in the order in which it was added, and every edge leads to
  a thread or to an earlier row (`EdgesGoDown`). This order is transitive and
  antisymmetric, and what a trace has seen is on one side of its focus
  (`SeenInv`), although its rows may be of two organizations.
- `ReferencesAreEdges`. `CurrentInv`: a graph without a disturbance is that of
  the committed rows. A row refers only to kinds that are added before its own
  (`RefersBack`), which is what `GraphTables` has to be ordered by.
- `IncidentFindsRegression`. `ClosedInv`: a trace that is done is closed under the
  edges; `RegressionChain` is the chain of references from the incident to its
  deployment, pull request and commit, which exists because the deployments of
  a written seed are distinct.
- `TracesAreExact`. `ReachInv`: what a trace has seen is in every set that holds its
  focus and is closed under the edges. With `ClosedInv` a trace that is done is
  the least such set: all ancestors or descendants, and nothing else, whatever
  the tables were when they were read.
- `TasksFollowTheirEvents`. `EventInv`: a task about an event's ticket, if nothing
  disturbed it, takes the way over the ticket's incident, which is that of the
  event's repository.
- `VerifiedAnswersCite`. `AnswerInv`: an answer that no model wrote is `Cited`, which
  contains the first item of each source it looks for (`FirstOfEachIsCited`).
- `TypeCorrect`, with `RunInv` and `GraphTypeInv`: a task works on a repository that
  exists, since every incident's first reference is one.

What is only model-checked: the liveness properties (`ClicksEnd`, `JobsEnd`,
`TaskEnds`, `StraightforwardIsFixed`), which need fairness and `ENABLED` and are out
of this prover's reach. What the last three need besides is proved:
`JobsMoveForward`, the theorems that count steps, and `StraightforwardNeverGivesUp`. Every other property of a passing run is proved.

## 6. Not modelled, and why

- Text: diffs, patterns, prompts, wording. What control depends on is a choice,
  a flag or a kind of line.
- What the strategies' regular expressions accept (an underscore in a number,
  a comment with ` + 1` in it): a module and a test have the fields that they
  extract.
- The ranking of a search (TF-IDF and recency): numerical; its results are any.
- Of the graph, `neighbors_of` and `graph_snapshot`: one layer, or all, of what
  `EntityGraph` builds. The two traces that a task itself makes
  (`runtime.py:190-191`) only go into its log.
- `persist` without dropping the tables, which only the tests do, on a new
  database: rows of an older seed would remain among those of the newer.
- The files that the simulator writes (`simulator/repositories.py`): Python
  source; what is wrong in them is a repository of `GuidedRepair`.
- `verify_engineering_task` (`verifier.py:41-96`): nothing calls it at run time.
- `update_ticket` for a ticket that does not exist (`workflows.py:20-21`): it
  writes nothing, and the handler records the decision all the same. The
  tickets that approvals name were there when the task ran, and what drops the
  tickets drops the task records too (`db.py:36-39`), so that `CommitTicket` always
  finds its row.
- The reason why a regression test fails: `WriteRegressionTest` treats one that is
  cut off (`general_loop.py:514`) like one that fails, in the files too. That is
  more than can happen, never less.
- An LLM policy: the reasoning policy's `investigate` is the repair loop in
  both cases.
- Evaluation, logging, rendering, the read-only endpoints: they report, and no
  state depends on them. The project inspector finds the package that a probe
  imports; a probe in `MultiRepoTask` answers or fails, whichever it is.
- The disk: a failing `rmtree` or a full disk.
