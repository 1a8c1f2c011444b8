---------------------------- MODULE ApprovalApi ----------------------------
(***************************************************************************)
(* The approval endpoint of the API, resolve_approval in api/main.py, over *)
(* the two tables it writes: TaskRecord (whose state_json is one blob that *)
(* is read, edited in memory and written back whole) and Ticket.           *)
(*                                                                         *)
(* FastAPI runs the handler in a pool of threads, each request with a      *)
(* database session of its own.  Nothing in the handler locks: a thread    *)
(* reads a row, works on its copy, and commits.  One action here is one    *)
(* access to the database with the computation that precedes it, so that   *)
(* the other threads may act between any two of them.                      *)
(***************************************************************************)
EXTENDS Naturals, FiniteSets

CONSTANTS
    Threads,      \* threads of the server's pool
    Tasks,        \* tasks that a run has persisted with approvals
    MultiRepo,    \* the tasks among them that a multi-repository run produced
    Actions,      \* action_ids of their approvals
    TaskOf,       \* the task an approval belongs to
    KindOf,       \* the approval's "action": the tool that performs it
    Tickets,      \* ticket ids
    TicketOf,     \* payload["ticket_id"] of a ticket approval
    Faults,       \* the moments at which a request may fail, see FailRequest
    MaxRequests   \* bound on the requests the clients send

Kinds     == {"prepare_pull_request", "update_ticket"}
Decisions == {"approve", "reject"}
Verdicts  == {"VERIFIED_COMPLETE", "PARTIALLY_COMPLETE"}
Statuses  == Verdicts \cup {"APPROVAL_REQUIRED", "REJECTED"}

\* An approval's "resolved" flag and its "resolution" are always written
\* together: "None" stands for resolved = False.
Resolutions == Decisions \cup {"None", "auto_approved"}

ActionsOf(t) == {a \in Actions : TaskOf[a] = t}

\* A multi-repository run asks for pull requests only; every approval of a
\* ticket names a ticket.
ASSUME ApprovalAssumption ==
    /\ MultiRepo \subseteq Tasks
    /\ TaskOf \in [Actions -> Tasks]
    /\ KindOf \in [Actions -> Kinds]
    /\ TicketOf \in [Actions -> Tickets]
    /\ \A a \in Actions : TaskOf[a] \in MultiRepo => KindOf[a] = "prepare_pull_request"
    /\ Faults \subseteq {"before_write", "after_write"}
    /\ MaxRequests \in Nat

VARIABLES
    tasks,         \* TaskRecord rows: the status column and the state_json blob
    comments,      \* Ticket rows: how many comments each action has on each ticket
    work,          \* what each thread is doing: Idle or a request in flight
    requests,      \* number of requests sent
    asked,         \* history: the <<action, decision>> pairs clients sent
    acked,         \* history: the pairs that were answered 200
    posted,        \* history: ticket writes committed for each action
    raced,         \* history: tasks two requests worked on at the same time
    racedTickets,  \* history: tickets two requests worked on at the same time
    faulted        \* history: actions with a request that failed after its write

vars == <<tasks, comments, work, requests, asked, acked, posted, raced,
          racedTickets, faulted>>

--------------------------------------------------------------------------
(* The data.                                                              *)

\* state_json: the status the run or an approval recorded, the verifier's
\* verdict (None for a multi-repository task, which has no final_verdict),
\* the resolution of each approval and the drafts whose status is "opened".
StateJson(t) ==
    [status : Statuses, final_verdict : Verdicts \cup {"None"},
     approvals : [ActionsOf(t) -> Resolutions], opened : SUBSET ActionsOf(t)]

\* The actions whose pull_request_draft artifact the blob holds: a
\* multi-repository run keeps none of its drafts.
DraftsOf(t) ==
    IF t \in MultiRepo THEN {}
    ELSE {a \in ActionsOf(t) : KindOf[a] = "prepare_pull_request"}

AllResolved(state) == \A a \in DOMAIN state.approvals : state.approvals[a] # "None"
AnyRejected(state) == \E a \in DOMAIN state.approvals : state.approvals[a] = "reject"

\* The edit of the in-memory state: the resolution, and for an approved pull
\* request the matching draft flipped to "opened".
ResolveAndOpenAll(state, a, d) ==
    [state EXCEPT !.approvals[a] = d,
                  !.opened = @ \cup ({a} \cap DraftsOf(TaskOf[a]))]

Resolve(state, a, d) ==
    [state EXCEPT !.approvals[a] = d,
                  !.opened = IF d = "approve" THEN @ \cup ({a} \cap DraftsOf(TaskOf[a]))
                                              ELSE @]

\* The status once every approval is resolved; a task without a final_verdict
\* keeps the status that was loaded.
FinalStatusIgnoringRejects(state, loaded) ==
    IF state.final_verdict # "None" THEN state.final_verdict ELSE loaded

FinalStatusOfVerdict(state, loaded) ==
    IF AnyRejected(state) THEN "REJECTED" ELSE state.final_verdict

FinalStatus(state, loaded) ==
    IF AnyRejected(state) THEN "REJECTED"
    ELSE IF state.final_verdict # "None" THEN state.final_verdict
    ELSE loaded

Idle == [pc |-> "idle"]

Requests ==
    {w \in [pc : {"read_ticket", "commit_ticket", "reload", "commit_record"},
            action : Actions, decision : Decisions,
            state : UNION {StateJson(t) : t \in Tasks},
            status : Statuses, seen : [Actions -> Nat]] :
        w.state \in StateJson(TaskOf[w.action])}

NothingSeen == [a \in Actions |-> 0]

Busy(th)   == work[th] # Idle
TaskAt(th) == TaskOf[work[th].action]

\* A request that writes a ticket commits that write (main.py 280) before it
\* commits the record (304).
WritesTicket(a, d) == d = "approve" /\ KindOf[a] = "update_ticket"
HasWritten(th) ==
    /\ work[th].pc \in {"reload", "commit_record"}
    /\ WritesTicket(work[th].action, work[th].decision)

--------------------------------------------------------------------------
(* Initial states: what agent/runtime.py persists for a task that reached  *)
(* its approvals.  The gate gave all of them the same answer: auto-approved,*)
(* with the draft opened and the ticket written, or pending.               *)

RowOf(t, auto, verdict) ==
    LET final  == IF t \in MultiRepo THEN "None" ELSE verdict
        status == IF ~auto THEN "APPROVAL_REQUIRED"
                  ELSE IF t \in MultiRepo THEN "VERIFIED_COMPLETE" ELSE verdict
    IN  [status |-> status,
         state  |-> [status |-> status, final_verdict |-> final,
                     approvals |-> [a \in ActionsOf(t) |->
                                      IF auto THEN "auto_approved" ELSE "None"],
                     opened |-> IF auto THEN DraftsOf(t) ELSE {}]]

Posted(a, auto) == IF auto[TaskOf[a]] /\ KindOf[a] = "update_ticket" THEN 1 ELSE 0

Init ==
    /\ \E auto \in [Tasks -> BOOLEAN], verdict \in [Tasks -> Verdicts] :
          /\ tasks = [t \in Tasks |-> RowOf(t, auto[t], verdict[t])]
          /\ posted = [a \in Actions |-> Posted(a, auto)]
          /\ comments = [k \in Tickets |->
                           [a \in Actions |-> IF TicketOf[a] = k THEN Posted(a, auto) ELSE 0]]
    /\ work = [th \in Threads |-> Idle]
    /\ requests = 0
    /\ asked = {} /\ acked = {}
    /\ raced = {} /\ racedTickets = {} /\ faulted = {}

--------------------------------------------------------------------------
(* The handler.                                                            *)

\* A client posts a decision; clients repeat themselves and disagree freely.
Send(a, d) ==
    /\ requests < MaxRequests
    /\ requests' = requests + 1
    /\ asked' = asked \cup {<<a, d>>}

\* 409: the approval is resolved already in the row that was read.
RefuseResolved(th, a, d) ==
    /\ ~Busy(th)
    /\ Send(a, d)
    /\ tasks[TaskOf[a]].state.approvals[a] # "None"
    /\ UNCHANGED <<tasks, comments, work, acked, posted, raced, racedTickets, faulted>>

\* The record is read, the approval found unresolved, and the copy edited.
LoadRecordUnchecked(th, a, d) ==
    LET t == TaskOf[a] row == tasks[t] IN
    /\ ~Busy(th)
    /\ Send(a, d)
    /\ work' = [work EXCEPT ![th] =
                  [pc |-> IF WritesTicket(a, d) THEN "read_ticket" ELSE "commit_record",
                   action |-> a, decision |-> d,
                   state |-> Resolve(row.state, a, d), status |-> row.status,
                   seen |-> NothingSeen]]
    /\ raced' = IF \E other \in Threads : Busy(other) /\ TaskAt(other) = t
                THEN raced \cup {t} ELSE raced
    /\ UNCHANGED <<tasks, comments, acked, posted, racedTickets, faulted>>

LoadRecord(th, a, d) ==
    LET t == TaskOf[a] row == tasks[t] IN
    /\ ~Busy(th)
    /\ Send(a, d)
    /\ row.state.approvals[a] = "None"
    /\ work' = [work EXCEPT ![th] =
                  [pc |-> IF WritesTicket(a, d) THEN "read_ticket" ELSE "commit_record",
                   action |-> a, decision |-> d,
                   state |-> Resolve(row.state, a, d), status |-> row.status,
                   seen |-> NothingSeen]]
    /\ raced' = IF \E other \in Threads : Busy(other) /\ TaskAt(other) = t
                THEN raced \cup {t} ELSE raced
    /\ UNCHANGED <<tasks, comments, acked, posted, racedTickets, faulted>>

\* update_ticket reads the ticket's list of comments ...
ReadTicket(th) ==
    LET k == TicketOf[work[th].action] IN
    /\ work[th].pc = "read_ticket"
    /\ work' = [work EXCEPT ![th].pc = "commit_ticket", ![th].seen = comments[k]]
    /\ racedTickets' =
         IF \E other \in Threads : /\ work[other].pc = "commit_ticket"
                                   /\ TicketOf[work[other].action] = k
         THEN racedTickets \cup {k} ELSE racedTickets
    /\ UNCHANGED <<tasks, comments, requests, asked, acked, posted, raced, faulted>>

\* ... and writes the whole list back with its own comment appended; the
\* handler commits at once.
CommitTicketAlone(th) ==
    LET a == work[th].action IN
    /\ work[th].pc = "commit_ticket"
    /\ comments' = [comments EXCEPT ![TicketOf[a]] = [NothingSeen EXCEPT ![a] = 1]]
    /\ posted' = [posted EXCEPT ![a] = @ + 1]
    /\ work' = [work EXCEPT ![th].pc = "reload"]
    /\ UNCHANGED <<tasks, requests, asked, acked, raced, racedTickets, faulted>>

CommitTicket(th) ==
    LET a == work[th].action IN
    /\ work[th].pc = "commit_ticket"
    /\ comments' = [comments EXCEPT ![TicketOf[a]] = [work[th].seen EXCEPT ![a] = @ + 1]]
    /\ posted' = [posted EXCEPT ![a] = @ + 1]
    /\ work' = [work EXCEPT ![th].pc = "reload"]
    /\ UNCHANGED <<tasks, requests, asked, acked, raced, racedTickets, faulted>>

\* That commit expired the record: its status is read again when it is needed.
ReloadRecord(th) ==
    /\ work[th].pc = "reload"
    /\ work' = [work EXCEPT ![th].pc = "commit_record", ![th].status = tasks[TaskAt(th)].status]
    /\ UNCHANGED <<tasks, comments, requests, asked, acked, posted, raced, racedTickets, faulted>>

\* The row after the handler's last commit.  state_json is written whole.  The
\* session puts the status column in its UPDATE when the attribute was changed
\* from the loaded value, or was assigned unread after the ticket's commit.
UpdatedWhole(th) ==
    LET w == work[th]
        final == FinalStatus(w.state, w.status)
    IN  [status |-> IF AllResolved(w.state) THEN final ELSE w.status,
         state  |-> IF AllResolved(w.state) THEN [w.state EXCEPT !.status = final] ELSE w.state]

UpdatedColumnOnly(th) ==
    LET w == work[th] IN
    [status |-> IF AllResolved(w.state) THEN FinalStatus(w.state, w.status)
                ELSE tasks[TaskAt(th)].status,
     state  |-> w.state]

Updated(th) ==
    LET w == work[th]
        final == FinalStatus(w.state, w.status)
        emitted == \/ final # w.status
                   \/ HasWritten(th) /\ AnyRejected(w.state)
    IN  IF AllResolved(w.state)
        THEN [status |-> IF emitted THEN final ELSE tasks[TaskAt(th)].status,
              state  |-> [w.state EXCEPT !.status = final]]
        ELSE [status |-> tasks[TaskAt(th)].status, state |-> w.state]

\* The record is committed and the client is answered.
CommitRecord(th) ==
    /\ work[th].pc = "commit_record"
    /\ tasks' = [tasks EXCEPT ![TaskAt(th)] = Updated(th)]
    /\ acked' = acked \cup {<<work[th].action, work[th].decision>>}
    /\ work' = [work EXCEPT ![th] = Idle]
    /\ UNCHANGED <<comments, requests, asked, posted, raced, racedTickets, faulted>>

\* An exception (a write that waited too long for SQLite's lock, for one), or
\* the end of the process: the session rolls back what it has not committed
\* and the client is answered 500 or not at all.
FailRequest(th) ==
    LET moment == IF HasWritten(th) THEN "after_write" ELSE "before_write" IN
    /\ Busy(th)
    /\ moment \in Faults
    /\ work' = [work EXCEPT ![th] = Idle]
    /\ faulted' = IF HasWritten(th) THEN faulted \cup {work[th].action} ELSE faulted
    /\ UNCHANGED <<tasks, comments, requests, asked, acked, posted, raced, racedTickets>>

Next ==
    \E th \in Threads :
        \/ \E a \in Actions, d \in Decisions :
              RefuseResolved(th, a, d) \/ LoadRecord(th, a, d)
        \/ ReadTicket(th)
        \/ CommitTicket(th)
        \/ ReloadRecord(th)
        \/ CommitRecord(th)
        \/ FailRequest(th)

Spec == Init /\ [][Next]_vars

--------------------------------------------------------------------------
(* What holds in every interleaving, for any number of threads.            *)

TypeOK ==
    /\ tasks \in [Tasks -> [status : Statuses, state : UNION {StateJson(t) : t \in Tasks}]]
    /\ \A t \in Tasks : tasks[t].state \in StateJson(t)
    /\ comments \in [Tickets -> [Actions -> Nat]]
    /\ work \in [Threads -> Requests \cup {Idle}]
    /\ requests \in Nat
    /\ asked \subseteq Actions \X Decisions
    /\ acked \subseteq Actions \X Decisions
    /\ posted \in [Actions -> Nat]
    /\ raced \subseteq Tasks
    /\ racedTickets \subseteq Tickets
    /\ faulted \subseteq Actions

TookEffect(a) ==
    \/ comments[TicketOf[a]][a] > 0
    \/ a \in tasks[TaskOf[a]].state.opened

\* An external write is there only if the gate let the task through when it
\* ran, or a client approved that very action: whatever copies of the blob
\* overwrite each other, no write appears by way of another action's approval
\* or of a rejection.
EffectsApproved ==
    \A a \in Actions : TookEffect(a) =>
        \/ tasks[TaskOf[a]].state.approvals[a] = "auto_approved"
        \/ <<a, "approve">> \in asked

\* A decision that was answered 200 stays in the record, as long as no two
\* requests worked on that task at the same time: requests on other tasks,
\* failures and refused requests never disturb it.
UnracedDecisionsStick ==
    \A a \in Actions, d \in Decisions :
        <<a, d>> \in acked /\ TaskOf[a] \notin raced =>
            tasks[TaskOf[a]].state.approvals[a] = d

\* The ticket write of an approval is committed at most once, as long as no
\* two requests worked on its task at the same time and none of its own
\* requests failed between the ticket's commit and the record's.
UnracedWritesOnce ==
    \A a \in Actions :
        TaskOf[a] \notin raced /\ a \notin faulted => posted[a] <= 1

\* The comment of an acknowledged ticket approval stays on the ticket, as long
\* as no two requests worked on that ticket at the same time.
AckedWritesStay ==
    \A a \in Actions :
        /\ <<a, "approve">> \in acked
        /\ KindOf[a] = "update_ticket"
        /\ TicketOf[a] \notin racedTickets
        => comments[TicketOf[a]][a] >= 1

\* A status that has moved past APPROVAL_REQUIRED never returns to it, even
\* when a request that loaded the older row commits last.
StatusNeverReopens ==
    [][\A t \in Tasks : tasks[t].status # "APPROVAL_REQUIRED" =>
                            tasks'[t].status # "APPROVAL_REQUIRED"]_vars

--------------------------------------------------------------------------
(* Each task implements the ledger until a race or a fault touches it.     *)

\* The list of tasks shows the status column and a task's page the status in
\* state_json.  They agree on every task whose requests did not overlap, also
\* while requests on other tasks race or fail.
UnracedStatusesAgree ==
    \A t \in Tasks \ raced : tasks[t].status = tasks[t].state.status

\* A ticket write counts from the moment its decision is recorded.
Recording(a) == \E th \in Threads : HasWritten(th) /\ work[th].action = a

WritesDone(a) ==
    IF KindOf[a] = "prepare_pull_request"
    THEN Cardinality({a} \cap tasks[TaskOf[a]].state.opened)
    ELSE comments[TicketOf[a]][a] - (IF Recording(a) THEN 1 ELSE 0)

LedgerOf(t) == INSTANCE ApprovalLedger WITH
    Actions  <- ActionsOf(t),
    decision <- tasks[t].state.approvals,
    writes   <- [a \in ActionsOf(t) |-> WritesDone(a)],
    status   <- tasks[t].status,
    verdict  <- tasks[t].state.final_verdict

\* No two requests worked on the approval's task, or on its ticket, at the same
\* time and no request of it failed between its two commits.
Clear(a) ==
    /\ TaskOf[a] \notin raced /\ a \notin faulted
    /\ KindOf[a] = "update_ticket" => TicketOf[a] \notin racedTickets

Undisturbed(t) == t \notin raced /\ \A a \in ActionsOf(t) : Clear(a)

\* A single-repository task starts like the ledger, and whatever any thread
\* does is a step of its ledger or leaves it alone while the task is
\* undisturbed: an approval is decided once, with its external write.
UndisturbedTasksImplementLedger ==
    /\ \A t \in Tasks \ MultiRepo : LedgerOf(t)!Init
    /\ [][\A t \in Tasks \ MultiRepo :
             Undisturbed(t)' => [LedgerOf(t)!Next]_(LedgerOf(t)!vars)]_vars

--------------------------------------------------------------------------
(* What the repository says of the endpoint and the code does not keep.    *)

\* "double-approval correctly rejected (409)" (CLAIMS.md): an approval whose
\* ticket write was committed is not performed again.
WritesOnce == \A a \in Actions : posted[a] <= 1

\* The 409 answers "was already approve" or "reject": an acknowledged decision
\* is one that later requests find.
DecisionsStick ==
    \A a \in Actions, d \in Decisions :
        <<a, d>> \in acked => tasks[TaskOf[a]].state.approvals[a] = d

\* "if every approval is now resolved, the task's overall status can move past
\* APPROVAL_REQUIRED" (main.py): it has moved once no request is in flight.
ResolvedTaskMovesOn ==
    \A t \in Tasks :
        AllResolved(tasks[t].state) /\ (\A th \in Threads : ~Busy(th)) =>
            tasks[t].status # "APPROVAL_REQUIRED"

=============================================================================
