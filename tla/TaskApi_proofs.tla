--------------------------- MODULE TaskApi_proofs ---------------------------
(***************************************************************************)
(* Proofs about running and dispatching tasks, for every number of clicks, *)
(* events, tickets and retries, and any number of restarts.                *)
(***************************************************************************)
EXTENDS TaskApi, FiniteSetTheorems, TLAPS

\* A click's attempt has the click's event and the click's ticket.
LEMMA AttemptType ==
    ASSUME NEW j \in Attempts
    PROVE  /\ j[1] \in Clicks
           /\ Event(j) \in Events \cup {NoEvent}
           /\ Ticket(j) \in Tickets \cup {NoTicket}
BY TaskApiAssumption DEF Attempts, Event, Ticket

\* The attempt a click is at counts the times it posted.
CountedAttempts ==
    \A c \in Clicks :
        /\ click[c] = "idle" => attempt[c] = 0
        /\ click[c] = "backoff" => attempt[c] \in 1 .. Retries
        /\ click[c] # "idle" => attempt[c] \in 1 .. Retries + 1

TypeInv == TypeOK /\ CountedAttempts

----------------------------------------------------------------------------
(* Type correctness.                                                       *)

LEMMA TypeInit == Init => TypeInv
BY TaskApiAssumption DEF Init, TypeInv, TypeOK, CountedAttempts, Phases

\* The attempts that are posted next and waited for are attempts.
LEMMA AtType ==
    ASSUME TypeInv, NEW c \in Clicks
    PROVE  /\ click[c] # "idle" => At(c) \in Attempts
           /\ click[c] \in {"idle", "backoff"} => <<c, attempt[c] + 1>> \in Attempts
BY TaskApiAssumption DEF TypeInv, TypeOK, CountedAttempts, At, Attempts

LEMMA TypeNext == TypeInv /\ [Next]_vars => TypeInv'
<1> SUFFICES ASSUME TypeInv, [Next]_vars PROVE TypeInv'
  OBVIOUS
<1> USE TaskApiAssumption
<1>1. ASSUME NEW c \in Clicks, Post(c) PROVE TypeInv'
  <2>1. <<c, attempt[c] + 1>> \in Attempts
    BY <1>1, AtType DEF Post
  <2>2. attempt[c] + 1 \in 1 .. Retries + 1
    BY <1>1 DEF Post, TypeInv, TypeOK, CountedAttempts
  <2>3. TypeOK'
    BY <1>1, <2>1, <2>2 DEF Post, TypeInv, TypeOK, Phases, database
  <2>4. CountedAttempts'
    BY <1>1, <2>2 DEF Post, TypeInv, TypeOK, CountedAttempts
  <2> QED
    BY <2>3, <2>4 DEF TypeInv
<1>2. ASSUME NEW c \in Clicks, Receive(c) PROVE TypeInv'
  BY <1>2 DEF Receive, TypeInv, TypeOK, CountedAttempts, Outcomes, database
<1>3. ASSUME NEW c \in Clicks, NoReply(c) PROVE TypeInv'
  BY <1>3 DEF NoReply, TypeInv, TypeOK, CountedAttempts, database
<1>4. ASSUME NEW j \in Attempts, LoseRequest(j) \/ Refuse(j) \/ AgentReturns(j)
      PROVE  TypeInv'
  BY <1>4 DEF LoseRequest, Refuse, AgentReturns, TypeInv, TypeOK, CountedAttempts,
              Phases, Working, Outcomes, client, database
<1>5. ASSUME NEW j \in Attempts, Accept(j) PROVE TypeInv'
  <2>1. raced' \subseteq Events
    BY <1>5 DEF Accept, TypeInv, TypeOK
  <2> QED
    BY <1>5, <2>1 DEF Accept, TypeInv, TypeOK, CountedAttempts, Phases, Working,
                      client, database
<1>6. ASSUME NEW j \in Attempts, ReadTicket(j) PROVE TypeInv'
  BY <1>6 DEF ReadTicket, TypeInv, TypeOK, CountedAttempts, Phases, Working, client, database
<1>7. ASSUME NEW j \in Attempts, FlushTicket(j) PROVE TypeInv'
  BY <1>7 DEF FlushTicket, TypeInv, TypeOK, CountedAttempts, Phases, Working, client, database
<1>8. ASSUME NEW j \in Attempts, Commit(j) PROVE TypeInv'
  <2>1. consumed' \subseteq Events /\ records' \subseteq Attempts
    BY <1>8 DEF Commit, TypeInv, TypeOK
  <2>2. comments' \in [Tickets -> SUBSET Attempts]
    BY <1>8 DEF Commit, TypeInv, TypeOK
  <2> QED
    BY <1>8, <2>1, <2>2 DEF Commit, TypeInv, TypeOK, CountedAttempts, Phases, Outcomes, client
<1>9. ASSUME NEW j \in Attempts, AgentRaises(j) \/ LockTimeout(j) PROVE TypeInv'
  BY <1>9 DEF AgentRaises, LockTimeout, RollBack, TypeInv, TypeOK, CountedAttempts,
              Phases, Outcomes, client, database
<1>10. CASE Restart
  BY <1>10 DEF Restart, TypeInv, TypeOK, CountedAttempts, Phases, client, database
<1>11. CASE UNCHANGED vars
  BY <1>11 DEF vars, TypeInv, TypeOK, CountedAttempts
<1> QED
  BY <1>1, <1>2, <1>3, <1>4, <1>5, <1>6, <1>7, <1>8, <1>9, <1>10, <1>11 DEF Next, Serve

LEMMA TypeInvariant == Spec => []TypeInv
BY TypeInit, TypeNext, PTL DEF Spec

\* Every variable keeps its type, the numbers of attempts and restarts within
\* their bounds, for any clicks, events, tickets and retries.
THEOREM TypeCorrect == Spec => []TypeOK
<1>1. TypeInv => TypeOK
  BY DEF TypeInv
<1> QED
  BY <1>1, TypeInvariant, PTL

----------------------------------------------------------------------------
(* The marks, the records and the comments.  A step other than a commit    *)
(* leaves all three, and a commit writes them together.                    *)

LEMMA DatabaseChanges ==
    ASSUME TypeInv, [Next]_vars
    PROVE  \/ UNCHANGED <<consumed, records, comments>>
           \/ \E j \in Attempts : Commit(j)
<1>1. ASSUME NEW c \in Clicks, Post(c) \/ Receive(c) \/ NoReply(c)
      PROVE  UNCHANGED <<consumed, records, comments>>
  BY <1>1 DEF Post, Receive, NoReply, database
<1>2. ASSUME NEW j \in Attempts,
             LoseRequest(j) \/ Refuse(j) \/ Accept(j) \/ AgentReturns(j) \/ ReadTicket(j)
             \/ FlushTicket(j) \/ LockTimeout(j) \/ AgentRaises(j)
      PROVE  UNCHANGED <<consumed, records, comments>>
  BY <1>2 DEF LoseRequest, Refuse, Accept, AgentReturns, ReadTicket, FlushTicket,
              LockTimeout, AgentRaises, RollBack, database
<1>3. CASE Restart
  BY <1>3 DEF Restart, database
<1>4. CASE UNCHANGED vars
  BY <1>4 DEF vars
<1> QED
  BY <1>1, <1>2, <1>3, <1>4 DEF Next, Serve

LEMMA MarkedNext == TypeInv /\ MarkedIffRecorded /\ [Next]_vars => MarkedIffRecorded'
<1> SUFFICES ASSUME TypeInv, MarkedIffRecorded, [Next]_vars,
                    NEW e \in Events
             PROVE  (e \in consumed <=> RecordsOf(e) # {})'
  BY DEF MarkedIffRecorded
<1>1. CASE UNCHANGED <<consumed, records, comments>>
  BY <1>1 DEF MarkedIffRecorded, RecordsOf
<1>2. ASSUME NEW j \in Attempts, Commit(j) PROVE (e \in consumed <=> RecordsOf(e) # {})'
  <2>1. records' = records \cup {j} /\ consumed' = consumed \cup ({Event(j)} \cap Events)
    BY <1>2 DEF Commit
  <2>2. CASE Event(j) = e
    BY <2>1, <2>2 DEF RecordsOf
  <2>3. CASE Event(j) # e
    BY <2>1, <2>3 DEF RecordsOf, MarkedIffRecorded
  <2> QED
    BY <2>2, <2>3
<1> QED
  BY <1>1, <1>2, DatabaseChanges

\* MarkedIffRecorded, of dispatch_event's single commit (main.py 185-199): an
\* event is marked exactly when a run of it is recorded.
THEOREM MarksAreRecorded == Spec => []MarkedIffRecorded
<1>1. Init => MarkedIffRecorded
  BY DEF Init, MarkedIffRecorded, RecordsOf
<1> QED
  BY <1>1, TypeInvariant, MarkedNext, PTL DEF Spec

\* The list that a job read is of comments whose runs are recorded.
SeenRecorded == \A j \in Attempts : seen[j] \subseteq records

CommentsInv == CommentsRecorded /\ SeenRecorded

LEMMA SeenChanges ==
    ASSUME TypeInv, [Next]_vars
    PROVE  \/ seen' = seen
           \/ \E j \in Attempts : ReadTicket(j)
<1>1. ASSUME NEW c \in Clicks, Post(c) \/ Receive(c) \/ NoReply(c) PROVE seen' = seen
  BY <1>1 DEF Post, Receive, NoReply
<1>2. ASSUME NEW j \in Attempts,
             LoseRequest(j) \/ Refuse(j) \/ Accept(j) \/ AgentReturns(j) \/ FlushTicket(j)
             \/ Commit(j) \/ LockTimeout(j) \/ AgentRaises(j)
      PROVE  seen' = seen
  BY <1>2 DEF LoseRequest, Refuse, Accept, AgentReturns, FlushTicket, Commit,
              LockTimeout, AgentRaises, RollBack
<1>3. CASE Restart \/ UNCHANGED vars
  BY <1>3 DEF Restart, vars
<1> QED
  BY <1>1, <1>2, <1>3 DEF Next, Serve

LEMMA CommentsNext == TypeInv /\ CommentsInv /\ [Next]_vars => CommentsInv'
<1> SUFFICES ASSUME TypeInv, CommentsInv, [Next]_vars PROVE CommentsInv'
  OBVIOUS
<1>1. records \subseteq records'
  BY DatabaseChanges DEF Commit
<1>2. SeenRecorded'
  <2>1. CASE seen' = seen
    BY <1>1, <2>1 DEF CommentsInv, SeenRecorded
  <2>2. ASSUME NEW j \in Attempts, ReadTicket(j) PROVE SeenRecorded'
    <3>1. comments[Ticket(j)] \subseteq records
      BY <2>2 DEF ReadTicket, CommentsInv, CommentsRecorded
    <3> QED
      BY <1>1, <2>2, <3>1 DEF ReadTicket, CommentsInv, SeenRecorded, TypeInv, TypeOK
  <2> QED
    BY <2>1, <2>2, SeenChanges
<1>3. CommentsRecorded'
  <2>1. CASE UNCHANGED <<consumed, records, comments>>
    BY <2>1 DEF CommentsInv, CommentsRecorded
  <2>2. ASSUME NEW j \in Attempts, Commit(j) PROVE CommentsRecorded'
    <3>1. seen[j] \cup {j} \subseteq records'
      BY <2>2 DEF Commit, CommentsInv, SeenRecorded
    <3> QED
      BY <1>1, <2>2, <3>1 DEF Commit, CommentsInv, CommentsRecorded, TypeInv, TypeOK
  <2> QED
    BY <2>1, <2>2, DatabaseChanges
<1> QED
  BY <1>2, <1>3 DEF CommentsInv

\* CommentsRecorded, of the ticket flush in the middle of a run (workflows.py
\* 22-35): no failure leaves a comment whose run is not recorded.
THEOREM CommentsAreRecorded == Spec => []CommentsRecorded
<1>1. Init => CommentsInv
  BY DEF Init, CommentsInv, CommentsRecorded, SeenRecorded
<1>2. CommentsInv => CommentsRecorded
  BY DEF CommentsInv
<1> QED
  BY <1>1, <1>2, TypeInvariant, CommentsNext, PTL DEF Spec

----------------------------------------------------------------------------
(* The replies.                                                            *)

\* What the server answered is so, whether or not the answer arrives.
AnswersTrue ==
    \A j \in Attempts :
        /\ job[j] = "ok" => j \in records
        /\ job[j] = "conflict" => RecordsOf(Event(j)) # {}

RepliesInv == AnswersTrue /\ RepliesTrue

\* A job is answered only by the action that answers it.
LEMMA AnswersNext ==
    TypeInv /\ MarkedIffRecorded /\ AnswersTrue /\ [Next]_vars => AnswersTrue'
<1> SUFFICES ASSUME TypeInv, MarkedIffRecorded, AnswersTrue, [Next]_vars
             PROVE  AnswersTrue'
  OBVIOUS
<1>1. records \subseteq records'
  BY DatabaseChanges DEF Commit
<1>2. \A e : RecordsOf(e) \subseteq RecordsOf(e)'
  BY <1>1 DEF RecordsOf
<1>3. ASSUME \A j \in Attempts : job'[j] \in {"ok", "conflict"} => job'[j] = job[j]
      PROVE  AnswersTrue'
  BY <1>1, <1>2, <1>3 DEF AnswersTrue, Event
<1>4. ASSUME NEW c \in Clicks, Post(c) PROVE AnswersTrue'
  <2>1. <<c, attempt[c] + 1>> \in Attempts
    BY <1>4, AtType DEF Post
  <2> QED
    BY <1>3, <1>4, <2>1 DEF Post, TypeInv, TypeOK
<1>5. ASSUME NEW c \in Clicks, Receive(c) \/ NoReply(c) PROVE AnswersTrue'
  BY <1>3, <1>5 DEF Receive, NoReply
<1>6. ASSUME NEW j \in Attempts,
             LoseRequest(j) \/ Accept(j) \/ AgentReturns(j) \/ ReadTicket(j)
             \/ FlushTicket(j) \/ LockTimeout(j) \/ AgentRaises(j)
      PROVE  AnswersTrue'
  BY <1>3, <1>6 DEF LoseRequest, Accept, AgentReturns, ReadTicket, FlushTicket,
                    LockTimeout, AgentRaises, RollBack, TypeInv, TypeOK
<1>7. ASSUME NEW j \in Attempts, Refuse(j) PROVE AnswersTrue'
  <2>1. RecordsOf(Event(j)) # {}
    BY <1>7 DEF Refuse, MarkedIffRecorded, TypeInv, TypeOK
  <2>2. job' = [job EXCEPT ![j] = "conflict"] /\ job \in [Attempts -> Phases]
    BY <1>7 DEF Refuse, TypeInv, TypeOK
  <2> QED
    BY <1>1, <1>2, <2>1, <2>2 DEF AnswersTrue, Event
<1>8. ASSUME NEW j \in Attempts, Commit(j) PROVE AnswersTrue'
  <2>1. job' = [job EXCEPT ![j] = "ok"] /\ job \in [Attempts -> Phases] /\ j \in records'
    BY <1>8 DEF Commit, TypeInv, TypeOK
  <2> QED
    BY <1>1, <1>2, <2>1 DEF AnswersTrue, Event
<1>9. CASE Restart \/ UNCHANGED vars
  BY <1>3, <1>9 DEF Restart, vars, TypeInv, TypeOK
<1> QED
  BY <1>4, <1>5, <1>6, <1>7, <1>8, <1>9 DEF Next, Serve

LEMMA ClickChanges ==
    ASSUME TypeInv, [Next]_vars
    PROVE  \/ UNCHANGED <<click, attempt>>
           \/ \E c \in Clicks : Post(c) \/ Receive(c) \/ NoReply(c)
<1>1. ASSUME NEW j \in Attempts,
             LoseRequest(j) \/ Refuse(j) \/ Accept(j) \/ AgentReturns(j) \/ ReadTicket(j)
             \/ FlushTicket(j) \/ Commit(j) \/ LockTimeout(j) \/ AgentRaises(j)
      PROVE  UNCHANGED <<click, attempt>>
  BY <1>1 DEF LoseRequest, Refuse, Accept, AgentReturns, ReadTicket, FlushTicket,
              Commit, LockTimeout, AgentRaises, RollBack, client
<1>2. CASE Restart \/ UNCHANGED vars
  BY <1>2 DEF Restart, client, vars
<1> QED
  BY <1>1, <1>2 DEF Next, Serve

LEMMA RepliesNext ==
    TypeInv /\ MarkedIffRecorded /\ RepliesInv /\ [Next]_vars => RepliesInv'
<1> SUFFICES ASSUME TypeInv, MarkedIffRecorded, RepliesInv, [Next]_vars
             PROVE  RepliesTrue'
  BY AnswersNext DEF RepliesInv
<1>1. records \subseteq records'
  BY DatabaseChanges DEF Commit
<1>2. \A e : RecordsOf(e) \subseteq RecordsOf(e)'
  BY <1>1 DEF RecordsOf
<1>3. CASE UNCHANGED <<click, attempt>>
  BY <1>1, <1>2, <1>3 DEF RepliesInv, RepliesTrue, At
<1>4. ASSUME NEW c \in Clicks, Post(c) \/ NoReply(c) PROVE RepliesTrue'
  <2>1. \A d \in Clicks : click'[d] \in {"ok", "conflict"} =>
            click'[d] = click[d] /\ attempt'[d] = attempt[d]
    BY <1>4 DEF Post, NoReply, TypeInv, TypeOK
  <2> QED
    BY <1>1, <1>2, <2>1 DEF RepliesInv, RepliesTrue, At
<1>5. ASSUME NEW c \in Clicks, Receive(c) PROVE RepliesTrue'
  <2>1. /\ click' = [click EXCEPT ![c] = job[At(c)]] /\ attempt' = attempt
        /\ click \in [Clicks -> {"idle", "waiting", "backoff", "gave_up"} \cup Outcomes]
    BY <1>5 DEF Receive, TypeInv, TypeOK
  <2>2. At(c) \in Attempts /\ Event(At(c)) = EventOf[c]
    BY <1>5, AtType DEF Receive, At, Event
  <2>3. /\ job[At(c)] = "ok" => At(c) \in records
        /\ job[At(c)] = "conflict" => RecordsOf(EventOf[c]) # {}
    BY <2>2 DEF RepliesInv, AnswersTrue
  <2>4. \A d \in Clicks : At(d)' = At(d) /\ (d # c => click'[d] = click[d])
    BY <2>1 DEF At
  <2>5. click'[c] = job[At(c)]
    BY <2>1
  <2> QED
    BY <1>1, <1>2, <2>3, <2>4, <2>5 DEF RepliesInv, RepliesTrue
<1> QED
  BY <1>3, <1>4, <1>5, ClickChanges

\* RepliesTrue, of the 200 and the 409 that the browser shows: a success was
\* recorded, and an event called dispatched has a recorded run.
THEOREM RepliesAreTrue == Spec => []RepliesTrue
<1>1. Init => RepliesInv
  BY DEF Init, RepliesInv, AnswersTrue, RepliesTrue
<1>2. RepliesInv => RepliesTrue
  BY DEF RepliesInv
<1> QED
  BY <1>1, <1>2, TypeInvariant, MarksAreRecorded, RepliesNext, PTL DEF Spec

----------------------------------------------------------------------------
(* Events dispatched once.                                                 *)

WorkingOn(e) == {j \in Attempts : job[j] \in Working /\ Event(j) = e}

AtMostOne(S) == \A x, y \in S : x = y

\* Without a race an event has one job at work, or one record, and not both.
OneRunInv ==
    \A e \in Events \ raced :
        /\ AtMostOne(WorkingOn(e))
        /\ AtMostOne(RecordsOf(e))
        /\ e \in consumed => WorkingOn(e) = {}

LEMMA OneRunNext ==
    TypeInv /\ MarkedIffRecorded /\ OneRunInv /\ [Next]_vars => OneRunInv'
<1> SUFFICES ASSUME TypeInv, MarkedIffRecorded, OneRunInv, [Next]_vars,
                    NEW e \in Events, e \notin raced'
             PROVE  /\ AtMostOne(WorkingOn(e)')
                    /\ AtMostOne(RecordsOf(e)')
                    /\ e \in consumed' => WorkingOn(e)' = {}
  BY DEF OneRunInv, AtMostOne
<1> DEFINE Goal == /\ AtMostOne(WorkingOn(e)')
                   /\ AtMostOne(RecordsOf(e)')
                   /\ e \in consumed' => WorkingOn(e)' = {}
<1>1. ASSUME e \notin raced, UNCHANGED <<consumed, records>>,
             WorkingOn(e)' \subseteq WorkingOn(e)
      PROVE  Goal
  BY <1>1 DEF OneRunInv, AtMostOne, RecordsOf
<1>2. ASSUME NEW c \in Clicks, Post(c) PROVE Goal
  <2>1. <<c, attempt[c] + 1>> \in Attempts
    BY <1>2, AtType DEF Post
  <2>2. /\ job' = [job EXCEPT ![<<c, attempt[c] + 1>>] = "sent"]
        /\ job \in [Attempts -> Phases]
    BY <1>2 DEF Post, TypeInv, TypeOK
  <2>3. WorkingOn(e)' \subseteq WorkingOn(e)
    BY <2>1, <2>2 DEF WorkingOn, Working, Event
  <2> QED
    BY <1>1, <1>2, <2>3 DEF Post, database
<1>3. ASSUME NEW c \in Clicks, Receive(c) \/ NoReply(c) PROVE Goal
  <2>1. WorkingOn(e)' = WorkingOn(e)
    BY <1>3 DEF Receive, NoReply, WorkingOn, Event
  <2> QED
    BY <1>1, <1>3, <2>1 DEF Receive, NoReply, database
<1>4. ASSUME NEW j \in Attempts,
             LoseRequest(j) \/ Refuse(j) \/ AgentReturns(j) \/ ReadTicket(j)
             \/ FlushTicket(j) \/ LockTimeout(j) \/ AgentRaises(j)
      PROVE  Goal
  <2>1. UNCHANGED <<consumed, records, raced>>
    BY <1>4 DEF LoseRequest, Refuse, AgentReturns, ReadTicket, FlushTicket, LockTimeout,
                AgentRaises, RollBack, database
  <2>2. \A k \in Attempts : job'[k] \in Working => job[k] \in Working
    BY <1>4 DEF LoseRequest, Refuse, AgentReturns, ReadTicket, FlushTicket, LockTimeout,
                AgentRaises, RollBack, Working, TypeInv, TypeOK
  <2> QED
    BY <1>1, <2>1, <2>2 DEF WorkingOn, Event
<1>5. ASSUME NEW j \in Attempts, Accept(j) PROVE Goal
  <2>1. /\ job' = [job EXCEPT ![j] = "running"] /\ job \in [Attempts -> Phases]
        /\ UNCHANGED <<consumed, records>> /\ e \notin raced
        /\ Event(j) \notin consumed
    BY <1>5 DEF Accept, TypeInv, TypeOK, database
  <2>2. CASE Event(j) # e
    <3>1. WorkingOn(e)' \subseteq WorkingOn(e)
      BY <2>1, <2>2 DEF WorkingOn, Event
    <3> QED
      BY <1>1, <2>1, <3>1
  <2>3. CASE Event(j) = e
    <3>1. ~Overlaps(j)
      BY <1>5, <2>3 DEF Accept
    <3>2. WorkingOn(e)' \subseteq {j}
      BY <2>1, <2>3, <3>1 DEF WorkingOn, Overlaps, Event
    <3> QED
      BY <2>1, <2>3, <3>2 DEF OneRunInv, AtMostOne, RecordsOf
  <2> QED
    BY <2>2, <2>3
<1>6. ASSUME NEW j \in Attempts, Commit(j) PROVE Goal
  <2>1. /\ job' = [job EXCEPT ![j] = "ok"] /\ job \in [Attempts -> Phases]
        /\ records' = records \cup {j}
        /\ consumed' = consumed \cup ({Event(j)} \cap Events)
        /\ e \notin raced /\ job[j] \in Working
    BY <1>6 DEF Commit, Working, TypeInv, TypeOK
  <2>2. WorkingOn(e)' \subseteq WorkingOn(e) \ {j}
    BY <2>1 DEF WorkingOn, Event, Working
  <2>3. CASE Event(j) # e
    <3>1. RecordsOf(e)' = RecordsOf(e) /\ (e \in consumed' <=> e \in consumed)
      BY <2>1, <2>3 DEF RecordsOf, Event
    <3> QED
      BY <2>1, <2>2, <3>1 DEF OneRunInv, AtMostOne
  <2>4. CASE Event(j) = e
    <3>1. j \in WorkingOn(e)
      BY <2>1, <2>4 DEF WorkingOn
    <3>2. RecordsOf(e) = {}
      BY <2>1, <3>1 DEF OneRunInv, MarkedIffRecorded
    <3>3. RecordsOf(e)' \subseteq {j}
      BY <2>1, <3>2 DEF RecordsOf, Event
    <3>4. WorkingOn(e)' = {}
      BY <2>1, <2>2, <3>1 DEF OneRunInv, AtMostOne
    <3> QED
      BY <3>3, <3>4 DEF AtMostOne
  <2> QED
    BY <2>3, <2>4
<1>7. CASE Restart \/ UNCHANGED vars
  <2>1. WorkingOn(e)' \subseteq WorkingOn(e)
    BY <1>7 DEF Restart, vars, WorkingOn, Working, Event, TypeInv, TypeOK
  <2> QED
    BY <1>1, <1>7, <2>1 DEF Restart, vars, database
<1> QED
  BY <1>2, <1>3, <1>4, <1>5, <1>6, <1>7 DEF Next, Serve

\* UnracedDispatchedOnce, of the 409 in dispatch_event (main.py 179-180): it
\* keeps an event from being recorded twice unless two jobs overlap.
THEOREM DispatchedOnceUnlessRaced == Spec => []UnracedDispatchedOnce
<1>1. Init => OneRunInv
  BY DEF Init, OneRunInv, AtMostOne, WorkingOn, RecordsOf, Working
<1>2. OneRunInv => UnracedDispatchedOnce
  <2> SUFFICES ASSUME OneRunInv, NEW e \in Events \ raced
               PROVE  Cardinality(RecordsOf(e)) <= 1
    BY DEF UnracedDispatchedOnce
  <2>1. CASE RecordsOf(e) = {}
    BY <2>1, FS_EmptySet
  <2>2. CASE RecordsOf(e) # {}
    <3>1. PICK j \in RecordsOf(e) : RecordsOf(e) = {j}
      BY <2>2 DEF OneRunInv, AtMostOne
    <3> QED
      BY <3>1, FS_Singleton
  <2> QED
    BY <2>1, <2>2
<1> QED
  BY <1>1, <1>2, TypeInvariant, MarksAreRecorded, OneRunNext, PTL DEF Spec

----------------------------------------------------------------------------
(* What the retries and the second click do, and nothing else does.         *)

\* Each event is clicked once, in one browser, and a fetch is not repeated.
OnePostPerEvent ==
    /\ Retries = 0
    /\ \A c, d \in Clicks : EventOf[c] \in Events /\ EventOf[c] = EventOf[d] => c = d

NoRace == raced = {}

\* Only one attempt carries the event, so nothing can overlap it.
LEMMA NoRaceNext ==
    ASSUME OnePostPerEvent, NoRace, [Next]_vars
    PROVE  NoRace'
<1> USE TaskApiAssumption
<1>1. ASSUME NEW j \in Attempts, Accept(j) PROVE raced' = raced
  <2>1. ASSUME NEW k \in Attempts, Event(j) \in Events, Event(k) = Event(j) PROVE k = j
    <3>1. /\ j[1] \in Clicks /\ j[2] \in 1 .. 1 /\ j = <<j[1], j[2]>>
          /\ k[1] \in Clicks /\ k[2] \in 1 .. 1 /\ k = <<k[1], k[2]>>
      BY DEF Attempts, OnePostPerEvent
    <3>2. j[1] = k[1]
      BY <2>1, <3>1 DEF OnePostPerEvent, Event
    <3>3. j[2] = k[2]
      BY <3>1
    <3> QED
      BY <3>1, <3>2, <3>3
  <2>2. ~(Event(j) \in Events /\ Overlaps(j))
    BY <2>1 DEF Overlaps
  <2> QED
    BY <1>1, <2>2 DEF Accept
<1>2. CASE ~ \E j \in Attempts : Accept(j)
  BY <1>2 DEF NoRace, Next, vars, Post, Receive, NoReply, LoseRequest, Refuse, Serve,
              AgentReturns, ReadTicket, FlushTicket, LockTimeout, Commit, AgentRaises,
              RollBack, Restart
<1> QED
  BY <1>1, <1>2 DEF NoRace

\* "A dispatched event is marked consumed and cannot be dispatched twice"
\* (README.md 175-176): it is so when each event is clicked once and the browser
\* never retries.  The second run always takes a retry or a second click.
THEOREM SinglePostsDispatchOnce ==
    ASSUME OnePostPerEvent
    PROVE  Spec => []DispatchedOnce
<1>1. Init => NoRace
  BY DEF Init, NoRace
<1>2. NoRace /\ UnracedDispatchedOnce => DispatchedOnce
  BY DEF NoRace, UnracedDispatchedOnce, DispatchedOnce
<1> QED
  BY <1>1, <1>2, NoRaceNext, DispatchedOnceUnlessRaced, PTL DEF Spec

----------------------------------------------------------------------------
(* Jobs and the write lock.                                                *)

\* Attempts after the one a click is at were not posted.
Unposted ==
    \A c \in Clicks : \A n \in 1 .. Retries + 1 : n > attempt[c] => job[<<c, n>>] = "none"

LEMMA UnpostedNext ==
    ASSUME TypeInv, Unposted, [Next]_vars
    PROVE  Unposted'
<1> USE TaskApiAssumption
<1> SUFFICES ASSUME NEW c \in Clicks, NEW n \in 1 .. Retries + 1, n > attempt'[c]
             PROVE  job'[<<c, n>>] = "none"
  BY DEF Unposted
<1>1. <<c, n>> \in Attempts /\ job \in [Attempts -> Phases]
  BY DEF Attempts, TypeInv, TypeOK
<1>2. ASSUME NEW d \in Clicks, Post(d) PROVE job'[<<c, n>>] = "none"
  <2>1. attempt'[c] >= attempt[c] /\ <<d, attempt[d] + 1>> # <<c, n>>
    BY <1>2 DEF Post, TypeInv, TypeOK
  <2> QED
    BY <1>1, <1>2, <2>1 DEF Post, Unposted, TypeInv, TypeOK
<1>3. CASE UNCHANGED attempt /\ job'[<<c, n>>] = job[<<c, n>>]
  BY <1>3 DEF Unposted
<1>4. ASSUME NEW j \in Attempts, UNCHANGED attempt, job[j] # "none",
             \A k \in Attempts : k # j => job'[k] = job[k]
      PROVE  job'[<<c, n>>] = "none"
  BY <1>1, <1>4 DEF Unposted
<1>5. ASSUME NEW j \in Attempts,
             LoseRequest(j) \/ Refuse(j) \/ Accept(j) \/ AgentReturns(j) \/ ReadTicket(j)
             \/ FlushTicket(j) \/ LockTimeout(j) \/ AgentRaises(j) \/ Commit(j)
      PROVE  job'[<<c, n>>] = "none"
  <2>1. /\ UNCHANGED attempt /\ job[j] # "none"
        /\ \A k \in Attempts : k # j => job'[k] = job[k]
    BY <1>1, <1>5 DEF LoseRequest, Refuse, Accept, AgentReturns, ReadTicket, FlushTicket,
                      LockTimeout, AgentRaises, RollBack, Commit, client
  <2> QED
    BY <1>4, <2>1
<1>6. ASSUME NEW d \in Clicks, Receive(d) \/ NoReply(d) PROVE job'[<<c, n>>] = "none"
  BY <1>3, <1>6 DEF Receive, NoReply
<1>7. CASE Restart
  BY <1>1, <1>7 DEF Restart, client, Unposted, Working
<1> QED
  BY <1>2, <1>3, <1>5, <1>6, <1>7 DEF Next, Serve, vars

\* A job only moves on: an outcome is final, and so is the loss of a request.
JobRank(phase) ==
    CASE phase = "none" -> 5
      [] phase = "sent" -> 4
      [] phase = "running" -> 3
      [] phase = "ticket_read" -> 2
      [] phase \in {"ticket_flushed", "returned"} -> 1
      [] OTHER -> 0

JobsMoveOn == \A j \in Attempts : job'[j] # job[j] => JobRank(job'[j]) < JobRank(job[j])

LEMMA JobsNext ==
    ASSUME TypeInv, Unposted, [Next]_vars
    PROVE  JobsMoveOn
<1> USE TaskApiAssumption
<1>1. job \in [Attempts -> Phases]
  BY DEF TypeInv, TypeOK
<1>2. ASSUME NEW j \in Attempts, JobRank(job'[j]) < JobRank(job[j]),
             \A k \in Attempts : k # j => job'[k] = job[k]
      PROVE  JobsMoveOn
  BY <1>2 DEF JobsMoveOn
<1>3. ASSUME NEW d \in Clicks, Post(d) PROVE JobsMoveOn
  <2> DEFINE j == <<d, attempt[d] + 1>>
  <2>1. j \in Attempts /\ job[j] = "none"
    BY <1>3, AtType DEF Post, Unposted, Attempts, TypeInv, TypeOK
  <2>2. job'[j] = "sent" /\ \A k \in Attempts : k # j => job'[k] = job[k]
    BY <1>1, <1>3, <2>1 DEF Post
  <2>3. JobRank(job'[j]) < JobRank(job[j])
    BY <2>1, <2>2 DEF JobRank
  <2> HIDE DEF j
  <2> QED
    BY <1>2, <2>1, <2>2, <2>3
<1>4. ASSUME NEW j \in Attempts,
             LoseRequest(j) \/ Refuse(j) \/ Accept(j) \/ AgentReturns(j) \/ ReadTicket(j)
             \/ FlushTicket(j) \/ LockTimeout(j) \/ AgentRaises(j) \/ Commit(j)
      PROVE  JobsMoveOn
  <2>1. \A k \in Attempts : k # j => job'[k] = job[k]
    BY <1>1, <1>4 DEF LoseRequest, Refuse, Accept, AgentReturns, ReadTicket, FlushTicket,
                      LockTimeout, AgentRaises, RollBack, Commit
  <2>2. JobRank(job'[j]) < JobRank(job[j])
    BY <1>1, <1>4 DEF LoseRequest, Refuse, Accept, AgentReturns, ReadTicket, FlushTicket,
                      LockTimeout, AgentRaises, RollBack, Commit, JobRank
  <2> QED
    BY <1>2, <2>1, <2>2
<1>5. CASE UNCHANGED job
  BY <1>5 DEF JobsMoveOn
<1>6. CASE Restart
  <2> SUFFICES ASSUME NEW j \in Attempts, job'[j] # job[j]
               PROVE  JobRank(job'[j]) < JobRank(job[j])
    BY DEF JobsMoveOn
  <2>1. job[j] \in Working /\ job'[j] = "lost"
    BY <1>1, <1>6 DEF Restart
  <2> QED
    BY <2>1 DEF JobRank, Working
<1> QED
  BY <1>3, <1>4, <1>5, <1>6 DEF Next, Serve, vars, Receive, NoReply

\* The write lock is held by the one job that flushed its ticket, which needs
\* no other lock to commit: whoever else has something to write waits for a job
\* that waits for nobody.
LockHolderCommits ==
    \A j \in Attempts : job[j] = "ticket_flushed" <=> writer = j

LEMMA LockNext ==
    ASSUME TypeInv, Unposted, LockHolderCommits, [Next]_vars
    PROVE  LockHolderCommits'
<1> USE TaskApiAssumption
<1>1. job \in [Attempts -> Phases] /\ Nobody \notin Attempts
  BY DEF TypeInv, TypeOK, Nobody, Attempts
<1>2. ASSUME NEW d \in Clicks, Post(d) PROVE LockHolderCommits'
  <2> DEFINE j == <<d, attempt[d] + 1>>
  <2>1. j \in Attempts /\ job[j] = "none"
    BY <1>2, AtType DEF Post, Unposted, Attempts, TypeInv, TypeOK
  <2>2. job'[j] = "sent" /\ writer' = writer /\ \A k \in Attempts : k # j => job'[k] = job[k]
    BY <1>1, <1>2, <2>1 DEF Post
  <2> HIDE DEF j
  <2> QED
    BY <2>1, <2>2 DEF LockHolderCommits
<1>3. ASSUME NEW j \in Attempts,
             LoseRequest(j) \/ Refuse(j) \/ Accept(j) \/ AgentReturns(j) \/ ReadTicket(j)
      PROVE  LockHolderCommits'
  <2>1. /\ writer' = writer /\ job[j] # "ticket_flushed" /\ job'[j] # "ticket_flushed"
        /\ \A k \in Attempts : k # j => job'[k] = job[k]
    BY <1>1, <1>3 DEF LoseRequest, Refuse, Accept, AgentReturns, ReadTicket
  <2> QED
    BY <2>1 DEF LockHolderCommits
<1>4. ASSUME NEW j \in Attempts, FlushTicket(j) PROVE LockHolderCommits'
  BY <1>1, <1>4 DEF FlushTicket, LockHolderCommits
<1>5. ASSUME NEW j \in Attempts, LockTimeout(j) \/ AgentRaises(j) \/ Commit(j)
      PROVE  LockHolderCommits'
  <2>1. /\ writer' = IF writer = j THEN Nobody ELSE writer
        /\ job'[j] # "ticket_flushed"
        /\ \A k \in Attempts : k # j => job'[k] = job[k]
    BY <1>1, <1>5 DEF LockTimeout, AgentRaises, RollBack, Commit
  <2> QED
    BY <1>1, <2>1 DEF LockHolderCommits
<1>6. CASE Restart
  BY <1>1, <1>6 DEF Restart, LockHolderCommits, Working
<1>7. CASE UNCHANGED <<job, writer>>
  BY <1>7 DEF LockHolderCommits
<1> QED
  BY <1>2, <1>3, <1>4, <1>5, <1>6, <1>7 DEF Next, Serve, vars, Receive, NoReply

\* The safety half of JobsEnd, of run_task and dispatch_event (main.py 84-109, 169-213):
\* a job that changes moves on, so it changes five times at most, and the one
\* job that the others may be waiting for is itself ready to commit.
THEOREM JobsMoveForward == Spec => []LockHolderCommits /\ [][JobsMoveOn]_vars
<1>1. Init => Unposted /\ LockHolderCommits
  BY DEF Init, Unposted, LockHolderCommits, Nobody, Attempts
<1>2. TypeInv /\ Unposted /\ [Next]_vars => Unposted' /\ JobsMoveOn
  BY UnpostedNext, JobsNext
<1>3. TypeInv /\ Unposted /\ LockHolderCommits /\ [Next]_vars => LockHolderCommits'
  BY LockNext
<1> QED
  BY <1>1, <1>2, <1>3, TypeInvariant, PTL DEF Spec

=============================================================================
