------------------------------ MODULE TaskApi ------------------------------
(***************************************************************************)
(* Running a task: run_task and dispatch_event of api/main.py, with the    *)
(* browser that calls them (fetchJsonWithRetry, runTask and dispatchEvent  *)
(* of frontend/index.html).                                                *)
(*                                                                         *)
(* One click is one fetchJsonWithRetry: it posts the request, and posts it *)
(* again when no reply comes.  The server knows nothing of that: aborting  *)
(* a fetch does not stop the handler, and each attempt that arrives is a   *)
(* job of its own, with a thread and a database session.  A job writes in  *)
(* a single transaction: the ticket that the agent updated, the event's    *)
(* mark and the TaskRecord become visible together.                        *)
(***************************************************************************)
EXTENDS Naturals, FiniteSets

CONSTANTS
    Clicks,     \* clicks on RUN or DISPATCH, in any browser
    Events,     \* rows of sim_events
    NoEvent,    \* EventOf a click on RUN
    EventOf,    \* the event a click dispatches
    Tickets,    \* rows of tickets
    NoTicket,   \* TicketOf a click whose objective names no ticket
    TicketOf,   \* the ticket that is the objective
    Retries,    \* the "retries" argument of fetchJsonWithRetry
    MaxCrashes  \* bound on the restarts of the server

ASSUME TaskApiAssumption ==
    /\ NoEvent \notin Events
    /\ NoTicket \notin Tickets
    /\ EventOf \in [Clicks -> Events \cup {NoEvent}]
    /\ TicketOf \in [Clicks -> Tickets \cup {NoTicket}]
    /\ Retries \in Nat
    /\ MaxCrashes \in Nat

Attempts == Clicks \X (1 .. Retries + 1)

VARIABLES
    click,     \* what each click's fetchJsonWithRetry is doing, or how it ended
    attempt,   \* the number of the attempt it is at
    job,       \* what became of each attempt on its way to, in and from the server
    seen,      \* the ticket's comments as a job's update_ticket read them
    writer,    \* the job whose transaction holds SQLite's write lock
    consumed,  \* the events marked "dispatched"
    records,   \* the jobs whose TaskRecord is in the database
    comments,  \* the jobs whose comment is on each ticket
    crashes,   \* number of restarts
    raced      \* history: events two jobs worked on at the same time

vars == <<click, attempt, job, seen, writer, consumed, records, comments, crashes, raced>>
client   == <<click, attempt>>
database == <<consumed, records, comments>>

Nobody == <<>>

Outcomes == {"ok", "conflict", "error"}

\* A job's phases: not posted yet; on its way; the agent is running; the
\* ticket was read; the ticket was flushed; the agent returned and nothing
\* was flushed; answered; or never answered at all.
Working == {"running", "ticket_read", "ticket_flushed", "returned"}
Phases  == {"none", "sent", "lost"} \cup Working \cup Outcomes

Event(j)  == EventOf[j[1]]
Ticket(j) == TicketOf[j[1]]
At(c)     == <<c, attempt[c]>>

Init ==
    /\ click = [c \in Clicks |-> "idle"]
    /\ attempt = [c \in Clicks |-> 0]
    /\ job = [j \in Attempts |-> "none"]
    /\ seen = [j \in Attempts |-> {}]
    /\ writer = Nobody
    /\ consumed = {} /\ records = {}
    /\ comments = [k \in Tickets |-> {}]
    /\ crashes = 0
    /\ raced = {}

--------------------------------------------------------------------------
(* The browser.                                                            *)

\* The first attempt of a click, or the next one after the delay.  Whether the
\* list on the screen still offers the event does not depend on the database.
Post(c) ==
    /\ click[c] \in {"idle", "backoff"}
    /\ click' = [click EXCEPT ![c] = "waiting"]
    /\ attempt' = [attempt EXCEPT ![c] = @ + 1]
    /\ job' = [job EXCEPT ![<<c, attempt[c] + 1>>] = "sent"]
    /\ UNCHANGED <<seen, writer, database, crashes, raced>>

\* A reply ends the click whatever its status code.
Receive(c) ==
    /\ click[c] = "waiting"
    /\ job[At(c)] \in Outcomes
    /\ click' = [click EXCEPT ![c] = job[At(c)]]
    /\ UNCHANGED <<attempt, job, seen, writer, database, crashes, raced>>

\* The fetch failed or was aborted by its timer: wait, or give up after the
\* last attempt.
NoReplyWithoutTimer(c) ==
    /\ click[c] = "waiting"
    /\ job[At(c)] = "lost"
    /\ click' = [click EXCEPT ![c] = IF attempt[c] <= Retries THEN "backoff" ELSE "gave_up"]
    /\ UNCHANGED <<attempt, job, seen, writer, database, crashes, raced>>

NoReplyOneMore(c) ==
    /\ click[c] = "waiting"
    /\ click' = [click EXCEPT ![c] = IF attempt[c] <= Retries + 1 THEN "backoff" ELSE "gave_up"]
    /\ UNCHANGED <<attempt, job, seen, writer, database, crashes, raced>>

NoReply(c) ==
    /\ click[c] = "waiting"
    /\ click' = [click EXCEPT ![c] = IF attempt[c] <= Retries THEN "backoff" ELSE "gave_up"]
    /\ UNCHANGED <<attempt, job, seen, writer, database, crashes, raced>>

--------------------------------------------------------------------------
(* The server.                                                             *)

LoseRequest(j) ==
    /\ job[j] = "sent"
    /\ job' = [job EXCEPT ![j] = "lost"]
    /\ UNCHANGED <<client, seen, writer, database, crashes, raced>>

Overlaps(j) ==
    \E other \in Attempts \ {j} : job[other] \in Working /\ Event(other) = Event(j)

\* 409: the event was dispatched already.
Refuse(j) ==
    /\ job[j] = "sent"
    /\ Event(j) \in consumed
    /\ job' = [job EXCEPT ![j] = "conflict"]
    /\ UNCHANGED <<client, seen, writer, database, crashes, raced>>

\* The event is read and found pending (run_task checks nothing) and the
\* agent runs, for as long as its tools take.
AcceptUnchecked(j) ==
    /\ job[j] = "sent"
    /\ job' = [job EXCEPT ![j] = "running"]
    /\ raced' = IF Event(j) \in Events /\ Overlaps(j) THEN raced \cup {Event(j)} ELSE raced
    /\ UNCHANGED <<client, seen, writer, database, crashes>>

AcceptMarking(j) ==
    /\ job[j] = "sent"
    /\ Event(j) \notin consumed
    /\ job' = [job EXCEPT ![j] = "running"]
    /\ consumed' = consumed \cup ({Event(j)} \cap Events)
    /\ raced' = IF Event(j) \in Events /\ Overlaps(j) THEN raced \cup {Event(j)} ELSE raced
    /\ UNCHANGED <<client, seen, writer, records, comments, crashes>>

Accept(j) ==
    /\ job[j] = "sent"
    /\ Event(j) \notin consumed
    /\ job' = [job EXCEPT ![j] = "running"]
    /\ raced' = IF Event(j) \in Events /\ Overlaps(j) THEN raced \cup {Event(j)} ELSE raced
    /\ UNCHANGED <<client, seen, writer, database, crashes>>

\* The agent returns without an external write: no ticket, nothing verified,
\* or the gate asked for approval.
AgentReturns(j) ==
    /\ job[j] = "running"
    /\ job' = [job EXCEPT ![j] = "returned"]
    /\ UNCHANGED <<client, seen, writer, database, crashes, raced>>

\* The gate lets the ticket's update through: update_ticket reads the list of
\* comments, outside any transaction ...
ReadTicket(j) ==
    /\ job[j] = "running"
    /\ Ticket(j) \in Tickets
    /\ job' = [job EXCEPT ![j] = "ticket_read"]
    /\ seen' = [seen EXCEPT ![j] = comments[Ticket(j)]]
    /\ UNCHANGED <<client, writer, database, crashes, raced>>

\* ... and flushes the list with its comment appended.  The UPDATE takes the
\* write lock, and nobody else sees it before the commit.
FlushAndCommit(j) ==
    /\ job[j] = "ticket_read"
    /\ writer = Nobody
    /\ job' = [job EXCEPT ![j] = "ticket_flushed"]
    /\ comments' = [comments EXCEPT ![Ticket(j)] = seen[j] \cup {j}]
    /\ UNCHANGED <<client, seen, writer, consumed, records, crashes, raced>>

FlushTicket(j) ==
    /\ job[j] = "ticket_read"
    /\ writer = Nobody
    /\ job' = [job EXCEPT ![j] = "ticket_flushed"]
    /\ writer' = j
    /\ UNCHANGED <<client, seen, database, crashes, raced>>

\* The event's mark and the record are flushed and everything is committed.
CommitOnNewSession(j) ==
    /\ job[j] \in {"ticket_flushed", "returned"}
    /\ writer = Nobody
    /\ job' = [job EXCEPT ![j] = "ok"]
    /\ consumed' = consumed \cup ({Event(j)} \cap Events)
    /\ records' = records \cup {j}
    /\ UNCHANGED <<client, seen, writer, comments, crashes, raced>>

Commit(j) ==
    /\ job[j] \in {"ticket_flushed", "returned"}
    /\ writer \in {Nobody, j}
    /\ job' = [job EXCEPT ![j] = "ok"]
    /\ writer' = Nobody
    /\ consumed' = consumed \cup ({Event(j)} \cap Events)
    /\ records' = records \cup {j}
    /\ comments' = IF job[j] = "ticket_flushed"
                   THEN [comments EXCEPT ![Ticket(j)] = seen[j] \cup {j}] ELSE comments
    /\ UNCHANGED <<client, seen, crashes, raced>>

\* The job's exception handler rolls back and answers 500.
RollBack(j) ==
    /\ job' = [job EXCEPT ![j] = "error"]
    /\ writer' = IF writer = j THEN Nobody ELSE writer
    /\ UNCHANGED <<client, seen, database, crashes, raced>>

\* The agent raises.
AgentRaises(j) ==
    /\ job[j] \in {"running", "ticket_flushed"}
    /\ RollBack(j)

\* "database is locked": SQLite waited five seconds for another job's lock.
LockTimeout(j) ==
    /\ job[j] \in {"ticket_read", "returned"}
    /\ writer # Nobody
    /\ RollBack(j)

\* The process ends and is started again: its jobs are gone, with what they
\* had not committed.
Restart ==
    /\ crashes < MaxCrashes
    /\ crashes' = crashes + 1
    /\ job' = [j \in Attempts |-> IF job[j] \in Working THEN "lost" ELSE job[j]]
    /\ writer' = Nobody
    /\ UNCHANGED <<client, seen, database, raced>>

Serve(j) ==
    AgentReturns(j) \/ ReadTicket(j) \/ FlushTicket(j) \/ LockTimeout(j) \/ Commit(j)

Next ==
    \/ \E c \in Clicks : Post(c) \/ Receive(c) \/ NoReply(c)
    \/ \E j \in Attempts : LoseRequest(j) \/ Refuse(j) \/ Accept(j) \/ Serve(j) \/ AgentRaises(j)
    \/ Restart

\* The server's threads run, the agent's tools end (every command it starts
\* has a timeout) and the browser's timers fire; nothing is assumed of the
\* network, of who clicks, or of restarts.
Fairness ==
    /\ \A j \in Attempts : WF_vars(Serve(j))
    /\ \A c \in Clicks : WF_vars(NoReply(c)) /\ WF_vars(click[c] = "backoff" /\ Post(c))

Spec == Init /\ [][Next]_vars /\ Fairness

--------------------------------------------------------------------------
(* Properties.                                                             *)

TypeOK ==
    /\ click \in [Clicks -> {"idle", "waiting", "backoff", "gave_up"} \cup Outcomes]
    /\ attempt \in [Clicks -> 0 .. Retries + 1]
    /\ job \in [Attempts -> Phases]
    /\ seen \in [Attempts -> SUBSET Attempts]
    /\ writer \in Attempts \cup {Nobody}
    /\ consumed \subseteq Events
    /\ records \subseteq Attempts
    /\ comments \in [Tickets -> SUBSET Attempts]
    /\ crashes \in 0 .. MaxCrashes
    /\ raced \subseteq Events

RecordsOf(e) == {j \in records : Event(j) = e}

\* An event is marked exactly when a run of it is recorded: no failure, lock
\* timeout or restart leaves a marked event without its task or a task whose
\* event can be dispatched again.
MarkedIffRecorded == \A e \in Events : e \in consumed <=> RecordsOf(e) # {}

\* A comment on a ticket comes with the record of the run that wrote it, for
\* all that the write is made in the middle of the run.
CommentsRecorded == \A k \in Tickets : comments[k] \subseteq records

\* What the browser was told is so: a run it saw succeed is recorded, and an
\* event it was told is dispatched has a recorded run.
RepliesTrue ==
    \A c \in Clicks :
        /\ click[c] = "ok" => At(c) \in records
        /\ click[c] = "conflict" => RecordsOf(EventOf[c]) # {}

\* An event is recorded at most once, however often it is posted, as long as
\* no two jobs worked on it at the same time.
UnracedDispatchedOnce ==
    \A e \in Events \ raced : Cardinality(RecordsOf(e)) <= 1

\* Every click ends: the retries run out even when the network keeps silent.
ClicksEnd == \A c \in Clicks : click[c] = "waiting" ~> click[c] \in Outcomes \cup {"gave_up"}

\* Every job that was taken up is finished: the write lock makes jobs wait for
\* each other, and none waits for ever.
JobsEnd == \A j \in Attempts : job[j] \in Working ~> job[j] \notin Working

\* "A dispatched event is marked consumed and cannot be dispatched twice"
\* (README.md): no event has two recorded runs.
DispatchedOnce == \A e \in Events : Cardinality(RecordsOf(e)) <= 1

=============================================================================
