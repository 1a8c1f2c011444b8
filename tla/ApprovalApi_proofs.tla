------------------------- MODULE ApprovalApi_proofs -------------------------
(***************************************************************************)
(* Proofs about the approval endpoint, for every number of threads, tasks, *)
(* actions and tickets, and for every choice of faults.                    *)
(***************************************************************************)
EXTENDS ApprovalApi, FiniteSetTheorems, TLAPS

\* Editing a copy of a task's blob gives a blob of that task.
LEMMA ResolveType ==
    ASSUME NEW a \in Actions, NEW d \in Decisions,
           NEW s \in StateJson(TaskOf[a])
    PROVE  Resolve(s, a, d) \in StateJson(TaskOf[a])
<1> USE DEF StateJson, Resolve, ActionsOf, Decisions, Resolutions
<1>1. s.approvals \in [ActionsOf(TaskOf[a]) -> Resolutions]
  OBVIOUS
<1>2. [s.approvals EXCEPT ![a] = d] \in [ActionsOf(TaskOf[a]) -> Resolutions]
  BY <1>1
<1>3. {a} \cap DraftsOf(TaskOf[a]) \subseteq ActionsOf(TaskOf[a])
  BY DEF DraftsOf
<1> QED
  BY <1>2, <1>3

\* The status computed for a task is one of the statuses.
LEMMA FinalStatusType ==
    ASSUME NEW t \in Tasks, NEW s \in StateJson(t), NEW loaded \in Statuses
    PROVE  FinalStatus(s, loaded) \in Statuses
BY DEF StateJson, FinalStatus, Statuses, Verdicts

\* A busy thread holds a request, with a copy of its own task's blob.
LEMMA BusyType ==
    ASSUME TypeOK, NEW th \in Threads, Busy(th)
    PROVE  /\ work[th] \in Requests
           /\ work[th].action \in Actions
           /\ work[th].decision \in Decisions
           /\ work[th].state \in StateJson(TaskAt(th))
           /\ work[th].status \in Statuses
           /\ work[th].seen \in [Actions -> Nat]
           /\ TaskAt(th) \in Tasks
           /\ work[th].pc \in {"read_ticket", "commit_ticket", "reload", "commit_record"}
<1>1. work[th] \in Requests
  BY DEF TypeOK, Busy
<1> QED
  BY <1>1, ApprovalAssumption DEF Requests, TaskAt

\* A thread is idle exactly when its pc says so.
LEMMA PcBusy ==
    ASSUME TypeOK, NEW th \in Threads
    PROVE  Busy(th) <=> work[th].pc # "idle"
<1>1. CASE Busy(th)
  BY <1>1, BusyType
<1>2. CASE ~Busy(th)
  BY <1>2 DEF Busy, Idle
<1> QED
  BY <1>1, <1>2

\* The row a commit leaves is a row of the same task.
LEMMA UpdatedType ==
    ASSUME TypeOK, NEW th \in Threads, Busy(th)
    PROVE  /\ Updated(th).status \in Statuses
           /\ Updated(th).state \in StateJson(TaskAt(th))
           /\ Updated(th) \in [status : Statuses, state : UNION {StateJson(t) : t \in Tasks}]
           /\ Updated(th).state.approvals = work[th].state.approvals
           /\ Updated(th).state.opened = work[th].state.opened
<1> DEFINE w == work[th]
           final == FinalStatus(w.state, w.status)
<1>1. w.state \in StateJson(TaskAt(th)) /\ w.status \in Statuses /\ TaskAt(th) \in Tasks
  BY BusyType
<1>2. final \in Statuses
  BY <1>1, FinalStatusType
<1>3. tasks[TaskAt(th)].status \in Statuses
  BY <1>1 DEF TypeOK
<1>4. /\ [w.state EXCEPT !.status = final] \in StateJson(TaskAt(th))
      /\ [w.state EXCEPT !.status = final].approvals = w.state.approvals
      /\ [w.state EXCEPT !.status = final].opened = w.state.opened
  BY <1>1, <1>2 DEF StateJson
<1>5. /\ Updated(th).status \in Statuses
      /\ Updated(th).state \in StateJson(TaskAt(th))
      /\ Updated(th).state.approvals = w.state.approvals
      /\ Updated(th).state.opened = w.state.opened
      /\ Updated(th) = [status |-> Updated(th).status, state |-> Updated(th).state]
  BY <1>1, <1>2, <1>3, <1>4 DEF Updated
<1> QED
  BY <1>1, <1>5

----------------------------------------------------------------------------
(* Type correctness.                                                         *)

LEMMA TypeInit == Init => TypeOK
<1> SUFFICES ASSUME Init PROVE TypeOK
  OBVIOUS
<1>1. PICK auto \in [Tasks -> BOOLEAN], verdict \in [Tasks -> Verdicts] :
        /\ tasks = [t \in Tasks |-> RowOf(t, auto[t], verdict[t])]
        /\ posted = [a \in Actions |-> Posted(a, auto)]
        /\ comments = [k \in Tickets |->
                         [a \in Actions |-> IF TicketOf[a] = k THEN Posted(a, auto) ELSE 0]]
  BY DEF Init
<1>2. ASSUME NEW t \in Tasks
      PROVE  /\ RowOf(t, auto[t], verdict[t]).state \in StateJson(t)
             /\ RowOf(t, auto[t], verdict[t]) \in
                  [status : Statuses, state : UNION {StateJson(u) : u \in Tasks}]
  <2> DEFINE row == RowOf(t, auto[t], verdict[t])
  <2>1. verdict[t] \in Verdicts /\ DraftsOf(t) \subseteq ActionsOf(t)
    BY DEF DraftsOf
  <2>2. row.status \in Statuses /\ row = [status |-> row.status, state |-> row.state]
    BY <2>1 DEF RowOf, Statuses, Verdicts
  <2>3. row.state \in StateJson(t)
    BY <2>1 DEF RowOf, StateJson, Statuses, Verdicts, Resolutions, Decisions
  <2> QED
    BY <2>2, <2>3
<1>3. \A a \in Actions : Posted(a, auto) \in Nat
  BY DEF Posted
<1> QED
  BY <1>1, <1>2, <1>3 DEF Init, TypeOK

LEMMA TypeNext == TypeOK /\ [Next]_vars => TypeOK'
<1> SUFFICES ASSUME TypeOK, [Next]_vars PROVE TypeOK'
  OBVIOUS
<1> USE ApprovalAssumption
<1>1. ASSUME NEW th \in Threads, NEW a \in Actions, NEW d \in Decisions,
             RefuseResolved(th, a, d)
      PROVE  TypeOK'
  BY <1>1 DEF RefuseResolved, Send, TypeOK
<1>2. ASSUME NEW th \in Threads, NEW a \in Actions, NEW d \in Decisions,
             LoadRecord(th, a, d)
      PROVE  TypeOK'
  <2> DEFINE t == TaskOf[a]
             new == [pc |-> IF WritesTicket(a, d) THEN "read_ticket" ELSE "commit_record",
                     action |-> a, decision |-> d,
                     state |-> Resolve(tasks[t].state, a, d), status |-> tasks[t].status,
                     seen |-> NothingSeen]
  <2>1. t \in Tasks
    OBVIOUS
  <2>2. new \in Requests
    <3>1. Resolve(tasks[t].state, a, d) \in StateJson(t)
      BY <2>1, ResolveType DEF TypeOK
    <3>2. tasks[t].status \in Statuses
      BY <2>1 DEF TypeOK
    <3>3. NothingSeen \in [Actions -> Nat]
      BY DEF NothingSeen
    <3> QED
      BY <2>1, <3>1, <3>2, <3>3 DEF Requests
  <2>3. work' \in [Threads -> Requests \cup {Idle}]
    BY <1>2, <2>2 DEF LoadRecord, TypeOK
  <2> QED
    BY <1>2, <2>1, <2>3 DEF LoadRecord, Send, TypeOK
<1>3. ASSUME NEW th \in Threads, ReadTicket(th) PROVE TypeOK'
  <2>1. Busy(th)
    BY <1>3, PcBusy DEF ReadTicket
  <2>2. comments[TicketOf[work[th].action]] \in [Actions -> Nat]
    BY <2>1, BusyType DEF TypeOK
  <2>3. [work[th] EXCEPT !.pc = "commit_ticket", !.seen = comments[TicketOf[work[th].action]]]
          \in Requests
    BY <2>1, <2>2, BusyType DEF Requests
  <2>4. work' \in [Threads -> Requests \cup {Idle}]
    BY <1>3, <2>3 DEF ReadTicket, TypeOK
  <2>5. racedTickets' \subseteq Tickets
    BY <1>3, <2>1, BusyType DEF ReadTicket, TypeOK
  <2> QED
    BY <1>3, <2>4, <2>5 DEF ReadTicket, TypeOK
<1>4. ASSUME NEW th \in Threads, CommitTicket(th) PROVE TypeOK'
  <2>1. Busy(th)
    BY <1>4, PcBusy DEF CommitTicket
  <2>2. [work[th] EXCEPT !.pc = "reload"] \in Requests
    BY <2>1, BusyType DEF Requests
  <2>3. work' \in [Threads -> Requests \cup {Idle}]
    BY <1>4, <2>2 DEF CommitTicket, TypeOK
  <2>4. [work[th].seen EXCEPT ![work[th].action] = @ + 1] \in [Actions -> Nat]
    BY <2>1, BusyType
  <2>5. comments' \in [Tickets -> [Actions -> Nat]] /\ posted' \in [Actions -> Nat]
    BY <1>4, <2>1, <2>4, BusyType DEF CommitTicket, TypeOK
  <2> QED
    BY <1>4, <2>3, <2>5 DEF CommitTicket, TypeOK
<1>5. ASSUME NEW th \in Threads, ReloadRecord(th) PROVE TypeOK'
  <2>1. Busy(th)
    BY <1>5, PcBusy DEF ReloadRecord
  <2>2. tasks[TaskAt(th)].status \in Statuses
    BY <2>1, BusyType DEF TypeOK
  <2>3. [work[th] EXCEPT !.pc = "commit_record", !.status = tasks[TaskAt(th)].status] \in Requests
    BY <2>1, <2>2, BusyType DEF Requests
  <2>4. work' \in [Threads -> Requests \cup {Idle}]
    BY <1>5, <2>3 DEF ReloadRecord, TypeOK
  <2> QED
    BY <1>5, <2>4 DEF ReloadRecord, TypeOK
<1>6. ASSUME NEW th \in Threads, CommitRecord(th) PROVE TypeOK'
  <2>1. Busy(th)
    BY <1>6, PcBusy DEF CommitRecord
  <2>2. /\ tasks' \in [Tasks -> [status : Statuses, state : UNION {StateJson(t) : t \in Tasks}]]
        /\ \A t \in Tasks : tasks'[t].state \in StateJson(t)
    BY <1>6, <2>1, BusyType, UpdatedType DEF CommitRecord, TypeOK
  <2>3. acked' \subseteq Actions \X Decisions
    BY <1>6, <2>1, BusyType DEF CommitRecord, TypeOK
  <2> QED
    BY <1>6, <2>2, <2>3 DEF CommitRecord, TypeOK
<1>7. ASSUME NEW th \in Threads, FailRequest(th) PROVE TypeOK'
  <2>1. faulted' \subseteq Actions
    BY <1>7, BusyType DEF FailRequest, TypeOK
  <2> QED
    BY <1>7, <2>1 DEF FailRequest, TypeOK
<1>8. CASE UNCHANGED vars
  BY <1>8 DEF vars, TypeOK
<1> QED
  BY <1>1, <1>2, <1>3, <1>4, <1>5, <1>6, <1>7, <1>8 DEF Next

\* Type correctness of the endpoint: in particular a blob written back is always
\* a blob of the task it was read from, with that task's approvals.
THEOREM TypeCorrect == Spec => []TypeOK
BY TypeInit, TypeNext, PTL DEF Spec

----------------------------------------------------------------------------
(* Acknowledged decisions.  The property is not inductive: that a commit     *)
(* keeps the decisions of others needs the committed copy to differ from the *)
(* row by one resolution only, which is so while nobody else works on the    *)
(* task.                                                                     *)

\* Two requests in flight on one task have been noticed as a race.
RacesNoticed ==
    \A o, p \in Threads :
        o # p /\ Busy(o) /\ Busy(p) /\ TaskAt(o) = TaskAt(p) => TaskAt(o) \in raced

\* Without a race, a copy is the present row with the request's own resolution.
CopiesCurrent ==
    \A th \in Threads : Busy(th) /\ TaskAt(th) \notin raced =>
        /\ work[th].state = Resolve(tasks[TaskAt(th)].state, work[th].action, work[th].decision)
        /\ tasks[TaskAt(th)].state.approvals[work[th].action] = "None"

DecisionInv == TypeOK /\ RacesNoticed /\ CopiesCurrent /\ UnracedDecisionsStick

\* Only the resolution of the request's action differs in the edited copy.
LEMMA ResolveApprovals ==
    ASSUME NEW a \in Actions, NEW d \in Decisions, NEW s \in StateJson(TaskOf[a])
    PROVE  /\ Resolve(s, a, d).approvals[a] = d
           /\ \A b \in Actions : b # a /\ TaskOf[b] = TaskOf[a] =>
                 Resolve(s, a, d).approvals[b] = s.approvals[b]
<1>1. s.approvals \in [ActionsOf(TaskOf[a]) -> Resolutions] /\ a \in ActionsOf(TaskOf[a])
  BY DEF StateJson, ActionsOf
<1>2. Resolve(s, a, d).approvals = [s.approvals EXCEPT ![a] = d]
  BY DEF Resolve, StateJson
<1> QED
  BY <1>1, <1>2

\* The steps between the load and the last commit leave each thread with its
\* request and its copy of the blob.
LEMMA InFlightSteps ==
    ASSUME TypeOK, NEW th \in Threads,
           ReadTicket(th) \/ CommitTicket(th) \/ ReloadRecord(th)
    PROVE  \A o \in Threads : /\ Busy(o)' => Busy(o)
                              /\ work'[o].action = work[o].action
                              /\ work'[o].decision = work[o].decision
                              /\ work'[o].state = work[o].state
<1>1. Busy(th)
  BY PcBusy DEF ReadTicket, CommitTicket, ReloadRecord
<1>2. work[th] \in Requests /\ work \in [Threads -> Requests \cup {Idle}]
  BY <1>1, BusyType DEF TypeOK
<1>3. ASSUME ReadTicket(th)
      PROVE  /\ work'[th].action = work[th].action
             /\ work'[th].decision = work[th].decision
             /\ work'[th].state = work[th].state
             /\ \A o \in Threads : o # th => work'[o] = work[o]
  BY <1>2, <1>3 DEF ReadTicket, Requests
<1>4. ASSUME CommitTicket(th) \/ ReloadRecord(th)
      PROVE  /\ work'[th].action = work[th].action
             /\ work'[th].decision = work[th].decision
             /\ work'[th].state = work[th].state
             /\ \A o \in Threads : o # th => work'[o] = work[o]
  BY <1>2, <1>4 DEF CommitTicket, ReloadRecord, Requests
<1> QED
  BY <1>1, <1>3, <1>4 DEF Busy

\* A step that leaves the rows, the copies and the acknowledgements alone.
LEMMA SameCopies ==
    ASSUME DecisionInv, TypeOK',
           UNCHANGED <<tasks, acked, raced>>,
           \A th \in Threads :
              Busy(th)' => /\ Busy(th)
                           /\ work'[th].action = work[th].action
                           /\ work'[th].decision = work[th].decision
                           /\ work'[th].state = work[th].state
    PROVE  DecisionInv'
BY DEF DecisionInv, RacesNoticed, CopiesCurrent, UnracedDecisionsStick, TaskAt

LEMMA DecisionNext == DecisionInv /\ [Next]_vars => DecisionInv'
<1> SUFFICES ASSUME DecisionInv, [Next]_vars PROVE DecisionInv'
  OBVIOUS
<1>0. TypeOK /\ TypeOK'
  BY TypeNext DEF DecisionInv
<1> USE ApprovalAssumption
<1>1. ASSUME NEW th \in Threads, NEW a \in Actions, NEW d \in Decisions,
             RefuseResolved(th, a, d)
      PROVE  DecisionInv'
  BY <1>0, <1>1, SameCopies DEF RefuseResolved, Busy
<1>2. ASSUME NEW th \in Threads, NEW a \in Actions, NEW d \in Decisions,
             LoadRecord(th, a, d)
      PROVE  DecisionInv'
  <2>1. /\ work'[th].action = a /\ work'[th].decision = d
        /\ work'[th].state = Resolve(tasks[TaskOf[a]].state, a, d)
        /\ TaskAt(th)' = TaskOf[a]
        /\ tasks[TaskOf[a]].state.approvals[a] = "None"
        /\ \A o \in Threads : o # th => work'[o] = work[o]
        /\ ~Busy(th) /\ raced \subseteq raced'
        /\ UNCHANGED <<tasks, acked>>
    BY <1>0, <1>2 DEF LoadRecord, TypeOK, TaskAt
  <2>2. RacesNoticed'
    <3> SUFFICES ASSUME NEW o \in Threads, NEW p \in Threads, o # p,
                        Busy(o)', Busy(p)', TaskAt(o)' = TaskAt(p)'
                 PROVE  TaskAt(o)' \in raced'
      BY DEF RacesNoticed
    <3>1. CASE o # th /\ p # th
      BY <2>1, <3>1 DEF DecisionInv, RacesNoticed, Busy, TaskAt
    <3>2. CASE o = th
      BY <1>2, <2>1, <3>2 DEF LoadRecord, Busy, TaskAt
    <3>3. CASE p = th
      BY <1>2, <2>1, <3>3 DEF LoadRecord, Busy, TaskAt
    <3> QED
      BY <3>1, <3>2, <3>3
  <2>3. CopiesCurrent'
    <3> SUFFICES ASSUME NEW o \in Threads, Busy(o)', TaskAt(o)' \notin raced'
                 PROVE  (/\ work[o].state = Resolve(tasks[TaskAt(o)].state,
                                                    work[o].action, work[o].decision)
                         /\ tasks[TaskAt(o)].state.approvals[work[o].action] = "None")'
      BY DEF CopiesCurrent
    <3>1. CASE o = th
      BY <2>1, <3>1
    <3>2. CASE o # th
      BY <2>1, <3>2 DEF DecisionInv, CopiesCurrent, Busy, TaskAt
    <3> QED
      BY <3>1, <3>2
  <2>4. UnracedDecisionsStick'
    BY <2>1 DEF DecisionInv, UnracedDecisionsStick
  <2> QED
    BY <1>0, <2>2, <2>3, <2>4 DEF DecisionInv
<1>3. ASSUME NEW th \in Threads, ReadTicket(th) PROVE DecisionInv'
  BY <1>0, <1>3, SameCopies, InFlightSteps DEF ReadTicket
<1>4. ASSUME NEW th \in Threads, CommitTicket(th) PROVE DecisionInv'
  BY <1>0, <1>4, SameCopies, InFlightSteps DEF CommitTicket
<1>5. ASSUME NEW th \in Threads, ReloadRecord(th) PROVE DecisionInv'
  BY <1>0, <1>5, SameCopies, InFlightSteps DEF ReloadRecord
<1>6. ASSUME NEW th \in Threads, CommitRecord(th) PROVE DecisionInv'
  <2> DEFINE t == TaskAt(th)
             a == work[th].action
             d == work[th].decision
  <2>1. Busy(th) /\ a \in Actions /\ d \in Decisions /\ t \in Tasks /\ t = TaskOf[a]
    BY <1>0, <1>6, PcBusy, BusyType DEF CommitRecord, TaskAt
  <2>2. /\ tasks'[t].state.approvals = work[th].state.approvals
        /\ \A u \in Tasks : u # t => tasks'[u] = tasks[u]
        /\ acked' = acked \cup {<<a, d>>} /\ raced' = raced
        /\ ~Busy(th)' /\ \A o \in Threads : o # th => work'[o] = work[o]
    BY <1>0, <1>6, <2>1, UpdatedType DEF CommitRecord, TypeOK, Busy
  <2>3. RacesNoticed'
    BY <2>2 DEF DecisionInv, RacesNoticed, Busy, TaskAt
  <2>4. CopiesCurrent'
    <3> SUFFICES ASSUME NEW o \in Threads, Busy(o)', TaskAt(o)' \notin raced'
                 PROVE  (/\ work[o].state = Resolve(tasks[TaskAt(o)].state,
                                                    work[o].action, work[o].decision)
                         /\ tasks[TaskAt(o)].state.approvals[work[o].action] = "None")'
      BY DEF CopiesCurrent
    <3>1. o # th /\ work'[o] = work[o] /\ Busy(o)
      BY <2>2 DEF Busy
    <3>2. TaskAt(o) # t /\ TaskAt(o) \in Tasks
      BY <1>0, <2>1, <2>2, <3>1, BusyType DEF DecisionInv, RacesNoticed, TaskAt
    <3> QED
      BY <2>2, <3>1, <3>2 DEF DecisionInv, CopiesCurrent, TaskAt
  <2>5. UnracedDecisionsStick'
    <3> SUFFICES ASSUME NEW b \in Actions, NEW e \in Decisions,
                        <<b, e>> \in acked', TaskOf[b] \notin raced'
                 PROVE  tasks'[TaskOf[b]].state.approvals[b] = e
      BY DEF UnracedDecisionsStick
    <3>1. CASE TaskOf[b] # t
      BY <2>1, <2>2, <3>1 DEF DecisionInv, UnracedDecisionsStick
    <3>2. CASE TaskOf[b] = t
      <4>1. /\ work[th].state = Resolve(tasks[t].state, a, d)
            /\ tasks[t].state.approvals[a] = "None"
        BY <2>1, <2>2, <3>2 DEF DecisionInv, CopiesCurrent
      <4>2. /\ tasks'[t].state.approvals[a] = d
            /\ b # a => tasks'[t].state.approvals[b] = tasks[t].state.approvals[b]
        <5>1. tasks[t].state \in StateJson(TaskOf[a])
          BY <1>0, <2>1 DEF TypeOK
        <5>2. tasks'[t].state.approvals = Resolve(tasks[t].state, a, d).approvals
          BY <2>2, <4>1
        <5> HIDE DEF t, a, d
        <5> QED
          BY <2>1, <3>2, <5>1, <5>2, ResolveApprovals
      <4>3. CASE <<b, e>> \in acked
        <5>1. tasks[t].state.approvals[b] = e
          BY <2>2, <3>2, <4>3 DEF DecisionInv, UnracedDecisionsStick
        <5>2. b # a
          BY <4>1, <5>1 DEF Decisions
        <5> QED
          BY <3>2, <4>2, <5>1, <5>2
      <4>4. CASE <<b, e>> = <<a, d>>
        BY <3>2, <4>2, <4>4
      <4> QED
        BY <2>2, <4>3, <4>4
    <3> QED
      BY <3>1, <3>2
  <2> QED
    BY <1>0, <2>3, <2>4, <2>5 DEF DecisionInv
<1>7. ASSUME NEW th \in Threads, FailRequest(th) PROVE DecisionInv'
  BY <1>0, <1>7, SameCopies DEF FailRequest, TypeOK, Busy
<1>8. CASE UNCHANGED vars
  BY <1>0, <1>8, SameCopies DEF vars, Busy
<1> QED
  BY <1>1, <1>2, <1>3, <1>4, <1>5, <1>6, <1>7, <1>8 DEF Next

\* Whatever the number of threads: a decision that was answered 200 stays in the
\* record unless two requests worked on that task at once.
THEOREM DecisionsStickUnlessRaced == Spec => []UnracedDecisionsStick
<1>1. Init => DecisionInv
  BY TypeInit DEF Init, DecisionInv, RacesNoticed, CopiesCurrent, UnracedDecisionsStick, Busy
<1>2. DecisionInv => UnracedDecisionsStick
  BY DEF DecisionInv
<1> QED
  BY <1>1, <1>2, DecisionNext, PTL DEF Spec

----------------------------------------------------------------------------
(* Statuses.                                                                 *)

\* A commit never brings APPROVAL_REQUIRED back: the status column is written
\* only with a changed value, and a computed status that is APPROVAL_REQUIRED
\* is the loaded one.
LEMMA CommitKeepsStatus ==
    ASSUME TypeOK, NEW th \in Threads, Busy(th),
           tasks[TaskAt(th)].status # "APPROVAL_REQUIRED"
    PROVE  Updated(th).status # "APPROVAL_REQUIRED"
<1>1. work[th].state \in StateJson(TaskAt(th)) /\ TaskAt(th) \in Tasks
  BY BusyType
<1>2. FinalStatus(work[th].state, work[th].status) = "APPROVAL_REQUIRED"
        => /\ FinalStatus(work[th].state, work[th].status) = work[th].status
           /\ ~AnyRejected(work[th].state)
  BY <1>1 DEF FinalStatus, StateJson, Verdicts
<1> QED
  BY <1>1, <1>2 DEF Updated

\* Whatever the interleaving, a task's status never returns to
\* APPROVAL_REQUIRED.
THEOREM StatusesNeverReopen == Spec => StatusNeverReopens
<1>1. TypeOK /\ [Next]_vars =>
        [\A t \in Tasks : tasks[t].status # "APPROVAL_REQUIRED" =>
                            tasks'[t].status # "APPROVAL_REQUIRED"]_vars
  <2> SUFFICES ASSUME TypeOK, Next, NEW t \in Tasks,
                      tasks[t].status # "APPROVAL_REQUIRED"
               PROVE  tasks'[t].status # "APPROVAL_REQUIRED"
    OBVIOUS
  <2>1. CASE tasks' = tasks
    BY <2>1
  <2>2. ASSUME NEW th \in Threads, CommitRecord(th)
        PROVE  tasks'[t].status # "APPROVAL_REQUIRED"
    <3>1. Busy(th) /\ TaskAt(th) \in Tasks
      BY <2>2, PcBusy, BusyType DEF CommitRecord
    <3>2. tasks'[t] = IF t = TaskAt(th) THEN Updated(th) ELSE tasks[t]
      BY <2>2, <3>1 DEF CommitRecord, TypeOK
    <3> QED
      BY <3>1, <3>2, CommitKeepsStatus
  <2> QED
    BY <2>1, <2>2 DEF Next, RefuseResolved, LoadRecord, ReadTicket, CommitTicket,
                      ReloadRecord, FailRequest
<1> QED
  BY <1>1, TypeCorrect, PTL DEF Spec, StatusNeverReopens

----------------------------------------------------------------------------
(* Ticket writes.                                                            *)

\* A thread that has committed the ticket write of action a and not the record.
WriteUnrecorded(a) ==
    \E th \in Threads : Busy(th) /\ HasWritten(th) /\ work[th].action = a

\* While an approval is open, its ticket write has been committed only by a
\* request still to record it, if nothing raced or failed in between.
OpenMeansUnwritten ==
    \A a \in Actions :
        /\ TaskOf[a] \notin raced /\ a \notin faulted
        /\ tasks[TaskOf[a]].state.approvals[a] = "None"
        /\ ~WriteUnrecorded(a)
        => posted[a] = 0

\* Only an approved ticket update goes through the ticket's steps.
TicketStepsOnly ==
    \A th \in Threads :
        work[th].pc \in {"read_ticket", "commit_ticket", "reload"} =>
            WritesTicket(work[th].action, work[th].decision)

WritesInv ==
    DecisionInv /\ TicketStepsOnly /\ OpenMeansUnwritten /\ UnracedWritesOnce

LEMMA WritesInit == Init => WritesInv
<1> SUFFICES ASSUME Init PROVE WritesInv
  OBVIOUS
<1>1. DecisionInv
  BY TypeInit DEF Init, DecisionInv, RacesNoticed, CopiesCurrent, UnracedDecisionsStick, Busy
<1>2. PICK auto \in [Tasks -> BOOLEAN], verdict \in [Tasks -> Verdicts] :
        /\ tasks = [t \in Tasks |-> RowOf(t, auto[t], verdict[t])]
        /\ posted = [a \in Actions |-> Posted(a, auto)]
  BY DEF Init
<1>3. \A a \in Actions : /\ posted[a] = Posted(a, auto) /\ posted[a] \in {0, 1}
                         /\ tasks[TaskOf[a]].state.approvals[a] =
                              IF auto[TaskOf[a]] THEN "auto_approved" ELSE "None"
  BY <1>2, ApprovalAssumption DEF Posted, RowOf, ActionsOf
<1>4. OpenMeansUnwritten
  BY <1>3 DEF OpenMeansUnwritten, Posted
<1>5. UnracedWritesOnce
  BY <1>3 DEF UnracedWritesOnce
<1>6. TicketStepsOnly
  BY DEF Init, TicketStepsOnly, Idle
<1> QED
  BY <1>1, <1>4, <1>5, <1>6 DEF WritesInv

\* Every step leaves the ticket's steps to approved ticket updates.
LEMMA TicketStepsNext == TypeOK /\ TicketStepsOnly /\ [Next]_vars => TicketStepsOnly'
<1> SUFFICES ASSUME TypeOK, TicketStepsOnly, [Next]_vars, NEW o \in Threads,
                    work'[o].pc \in {"read_ticket", "commit_ticket", "reload"}
             PROVE  WritesTicket(work'[o].action, work'[o].decision)
  BY DEF TicketStepsOnly, WritesTicket
<1>1. ASSUME NEW th \in Threads, NEW a \in Actions, NEW d \in Decisions,
             LoadRecord(th, a, d)
      PROVE  WritesTicket(work'[o].action, work'[o].decision)
  <2>1. CASE o = th
    BY <1>1, <2>1 DEF LoadRecord, TypeOK
  <2>2. CASE o # th
    BY <1>1, <2>2 DEF LoadRecord, TypeOK, TicketStepsOnly
  <2> QED
    BY <2>1, <2>2
<1>2. ASSUME NEW th \in Threads, ReadTicket(th) \/ CommitTicket(th) \/ ReloadRecord(th)
      PROVE  WritesTicket(work'[o].action, work'[o].decision)
  <2>1. work'[o].action = work[o].action /\ work'[o].decision = work[o].decision
    BY <1>2, InFlightSteps
  <2>2. work[o].pc \in {"read_ticket", "commit_ticket", "reload"}
    BY <1>2 DEF ReadTicket, CommitTicket, ReloadRecord, TypeOK
  <2> QED
    BY <2>1, <2>2 DEF TicketStepsOnly
<1>3. ASSUME NEW th \in Threads, CommitRecord(th) \/ FailRequest(th)
      PROVE  WritesTicket(work'[o].action, work'[o].decision)
  <2>1. CASE o = th
    BY <1>3, <2>1 DEF CommitRecord, FailRequest, TypeOK, Idle
  <2>2. CASE o # th
    BY <1>3, <2>2 DEF CommitRecord, FailRequest, TypeOK, TicketStepsOnly
  <2> QED
    BY <2>1, <2>2
<1>4. CASE work' = work
  BY <1>4 DEF TicketStepsOnly
<1> QED
  BY <1>1, <1>2, <1>3, <1>4 DEF Next, RefuseResolved, vars

\* A step that commits neither a ticket nor a record, and keeps every write that
\* is still to be recorded.
LEMMA SameWrites ==
    ASSUME WritesInv, DecisionInv', TicketStepsOnly',
           UNCHANGED <<tasks, posted>>, raced \subseteq raced', faulted \subseteq faulted',
           \A a \in Actions : WriteUnrecorded(a) => WriteUnrecorded(a)' \/ a \in faulted'
    PROVE  WritesInv'
BY DEF WritesInv, OpenMeansUnwritten, UnracedWritesOnce

LEMMA WritesNext == WritesInv /\ [Next]_vars => WritesInv'
<1> SUFFICES ASSUME WritesInv, [Next]_vars PROVE WritesInv'
  OBVIOUS
<1>0. TypeOK /\ DecisionInv /\ DecisionInv' /\ TypeOK' /\ TicketStepsOnly /\ TicketStepsOnly'
  BY DecisionNext, TicketStepsNext DEF WritesInv, DecisionInv
<1> USE ApprovalAssumption
<1>1. ASSUME NEW th \in Threads, NEW a \in Actions, NEW d \in Decisions,
             RefuseResolved(th, a, d)
      PROVE  WritesInv'
  BY <1>0, <1>1, SameWrites DEF RefuseResolved, WriteUnrecorded, Busy, HasWritten
<1>2. ASSUME NEW th \in Threads, NEW a \in Actions, NEW d \in Decisions,
             LoadRecord(th, a, d)
      PROVE  WritesInv'
  <2>1. ~Busy(th) /\ \A o \in Threads : o # th => work'[o] = work[o]
    BY <1>0, <1>2 DEF LoadRecord, TypeOK
  <2>2. \A b \in Actions : WriteUnrecorded(b) => WriteUnrecorded(b)'
    BY <2>1 DEF WriteUnrecorded, Busy, HasWritten
  <2> QED
    BY <1>0, <1>2, <2>2, SameWrites DEF LoadRecord
<1>3. ASSUME NEW th \in Threads, ReadTicket(th) PROVE WritesInv'
  <2>1. ~HasWritten(th) /\ \A o \in Threads : o # th => work'[o] = work[o]
    BY <1>0, <1>3 DEF ReadTicket, TypeOK, HasWritten
  <2>2. \A b \in Actions : WriteUnrecorded(b) => WriteUnrecorded(b)'
    BY <2>1 DEF WriteUnrecorded, Busy, HasWritten
  <2> QED
    BY <1>0, <1>3, <2>2, SameWrites DEF ReadTicket
<1>4. ASSUME NEW th \in Threads, CommitTicket(th) PROVE WritesInv'
  <2> DEFINE a == work[th].action
  <2>1. Busy(th) /\ a \in Actions /\ WritesTicket(a, work[th].decision)
    BY <1>0, <1>4, PcBusy, BusyType DEF CommitTicket, TicketStepsOnly
  <2>2. /\ work'[th].action = a /\ work'[th].pc = "reload"
        /\ work'[th].decision = work[th].decision
        /\ \A o \in Threads : o # th => work'[o] = work[o]
        /\ posted' = [posted EXCEPT ![a] = @ + 1]
        /\ UNCHANGED <<tasks, raced, faulted>>
    BY <1>0, <1>4, <2>1, BusyType DEF CommitTicket, TypeOK, Requests
  <2>3. Busy(th)' /\ HasWritten(th)'
    BY <2>1, <2>2 DEF Busy, HasWritten, Idle
  <2>4. WriteUnrecorded(a)'
    BY <2>2, <2>3 DEF WriteUnrecorded
  <2>5. ~HasWritten(th)
    BY <1>4 DEF CommitTicket, HasWritten
  <2>6. ASSUME NEW b \in Actions, b # a, WriteUnrecorded(b) PROVE WriteUnrecorded(b)'
    BY <2>2, <2>5, <2>6 DEF WriteUnrecorded, Busy, HasWritten
  <2>7. OpenMeansUnwritten'
    BY <1>0, <2>1, <2>2, <2>4, <2>6 DEF WritesInv, OpenMeansUnwritten, TypeOK
  <2>8. ASSUME TaskOf[a] \notin raced, a \notin faulted PROVE posted[a] = 0
    <3>1. tasks[TaskOf[a]].state.approvals[a] = "None"
      BY <1>0, <2>1, <2>8 DEF DecisionInv, CopiesCurrent, TaskAt
    <3>2. ~WriteUnrecorded(a)
      BY <1>0, <2>1, <2>5, <2>8 DEF DecisionInv, RacesNoticed, WriteUnrecorded, TaskAt
    <3> QED
      BY <2>1, <2>8, <3>1, <3>2 DEF WritesInv, OpenMeansUnwritten
  <2>9. UnracedWritesOnce'
    <3> SUFFICES ASSUME NEW b \in Actions, TaskOf[b] \notin raced, b \notin faulted
                 PROVE  posted'[b] <= 1
      BY <2>2 DEF UnracedWritesOnce
    <3>1. posted \in [Actions -> Nat]
      BY <1>0 DEF TypeOK
    <3> HIDE DEF a
    <3>2. CASE b = a
      BY <2>1, <2>2, <2>8, <3>1, <3>2
    <3>3. CASE b # a
      BY <2>2, <3>1, <3>3 DEF WritesInv, UnracedWritesOnce
    <3> QED
      BY <3>2, <3>3
  <2> QED
    BY <1>0, <2>7, <2>9 DEF WritesInv
<1>5. ASSUME NEW th \in Threads, ReloadRecord(th) PROVE WritesInv'
  <2>1. Busy(th)
    BY <1>0, <1>5, PcBusy DEF ReloadRecord
  <2>2. /\ work'[th].action = work[th].action /\ work'[th].pc = "commit_record"
        /\ work'[th].decision = work[th].decision
        /\ \A o \in Threads : o # th => work'[o] = work[o]
    BY <1>0, <1>5, <2>1, BusyType DEF ReloadRecord, TypeOK, Requests
  <2>3. Busy(th)' /\ (HasWritten(th) => HasWritten(th)')
    BY <2>2 DEF Busy, HasWritten, Idle
  <2>4. \A b \in Actions : WriteUnrecorded(b) => WriteUnrecorded(b)'
    BY <2>2, <2>3 DEF WriteUnrecorded, Busy, HasWritten
  <2> QED
    BY <1>0, <1>5, <2>4, SameWrites DEF ReloadRecord
<1>6. ASSUME NEW th \in Threads, CommitRecord(th) PROVE WritesInv'
  <2> DEFINE t == TaskAt(th)
             a == work[th].action
             d == work[th].decision
  <2>1. Busy(th) /\ a \in Actions /\ d \in Decisions /\ t \in Tasks /\ t = TaskOf[a]
    BY <1>0, <1>6, PcBusy, BusyType DEF CommitRecord, TaskAt
  <2>2. /\ tasks'[t].state.approvals = work[th].state.approvals
        /\ \A u \in Tasks : u # t => tasks'[u] = tasks[u]
        /\ \A o \in Threads : o # th => work'[o] = work[o]
        /\ UNCHANGED <<posted, raced, faulted>>
    <3>1. tasks'[t] = Updated(th) /\ \A u \in Tasks : u # t => tasks'[u] = tasks[u]
      BY <1>0, <1>6, <2>1 DEF CommitRecord, TypeOK
    <3>2. Updated(th).state.approvals = work[th].state.approvals
      BY <1>0, <2>1, UpdatedType
    <3> QED
      BY <1>0, <1>6, <3>1, <3>2 DEF CommitRecord, TypeOK
  <2>3. ASSUME NEW b \in Actions, b # a, WriteUnrecorded(b) PROVE WriteUnrecorded(b)'
    BY <2>2, <2>3 DEF WriteUnrecorded, Busy, HasWritten
  <2>4. ASSUME t \notin raced
        PROVE  /\ tasks'[t].state.approvals[a] = d
               /\ \A b \in Actions : b # a /\ TaskOf[b] = t =>
                    tasks'[t].state.approvals[b] = tasks[t].state.approvals[b]
    <3>1. work[th].state = Resolve(tasks[t].state, a, d)
      BY <1>0, <2>1, <2>4 DEF DecisionInv, CopiesCurrent
    <3>2. tasks[t].state \in StateJson(TaskOf[a])
      BY <1>0, <2>1 DEF TypeOK
    <3>3. tasks'[t].state.approvals = Resolve(tasks[t].state, a, d).approvals
      BY <2>2, <3>1
    <3> HIDE DEF t, a, d
    <3> QED
      BY <2>1, <3>2, <3>3, ResolveApprovals
  <2>5. OpenMeansUnwritten'
    <3> SUFFICES ASSUME NEW b \in Actions, TaskOf[b] \notin raced, b \notin faulted,
                        tasks'[TaskOf[b]].state.approvals[b] = "None", ~WriteUnrecorded(b)'
                 PROVE  posted[b] = 0
      BY <2>2 DEF OpenMeansUnwritten
    <3>1. b # a
      BY <2>1, <2>4 DEF Decisions
    <3>2. tasks[TaskOf[b]].state.approvals[b] = "None"
      BY <2>1, <2>2, <2>4, <3>1
    <3> QED
      BY <2>3, <3>1, <3>2 DEF WritesInv, OpenMeansUnwritten
  <2>6. UnracedWritesOnce'
    BY <2>2 DEF WritesInv, UnracedWritesOnce
  <2> QED
    BY <1>0, <2>5, <2>6 DEF WritesInv
<1>7. ASSUME NEW th \in Threads, FailRequest(th) PROVE WritesInv'
  <2>1. /\ \A o \in Threads : o # th => work'[o] = work[o]
        /\ HasWritten(th) => work[th].action \in faulted'
    BY <1>0, <1>7 DEF FailRequest, TypeOK
  <2>2. \A b \in Actions : WriteUnrecorded(b) => WriteUnrecorded(b)' \/ b \in faulted'
    BY <2>1 DEF WriteUnrecorded, Busy, HasWritten
  <2> QED
    BY <1>0, <1>7, <2>2, SameWrites DEF FailRequest
<1>8. CASE UNCHANGED vars
  BY <1>0, <1>8, SameWrites DEF vars, WriteUnrecorded, Busy, HasWritten
<1> QED
  BY <1>1, <1>2, <1>3, <1>4, <1>5, <1>6, <1>7, <1>8 DEF Next

\* Whatever the number of threads: the ticket write of an approval is committed
\* at most once unless its task was raced or its request failed after the write.
THEOREM WritesOnceUnlessRaced == Spec => []UnracedWritesOnce
<1>1. WritesInv => UnracedWritesOnce
  BY DEF WritesInv
<1> QED
  BY <1>1, WritesInit, WritesNext, PTL DEF Spec

----------------------------------------------------------------------------
(* Acknowledged ticket writes.                                               *)

\* Two requests that hold a ticket's comments have been noticed as a race.
TicketRacesNoticed ==
    \A o, p \in Threads :
        /\ o # p
        /\ work[o].pc = "commit_ticket" /\ work[p].pc = "commit_ticket"
        /\ TicketOf[work[o].action] = TicketOf[work[p].action]
        => TicketOf[work[o].action] \in racedTickets

\* Without a race, the comments a request holds are the ticket's.
CommentsCurrent ==
    \A th \in Threads :
        /\ work[th].pc = "commit_ticket"
        /\ TicketOf[work[th].action] \notin racedTickets
        => work[th].seen = comments[TicketOf[work[th].action]]

\* A committed write is on the ticket while its request is still to record it.
WrittenIsThere ==
    \A th \in Threads :
        /\ HasWritten(th)
        /\ TicketOf[work[th].action] \notin racedTickets
        => comments[TicketOf[work[th].action]][work[th].action] >= 1

TicketInv ==
    TypeOK /\ TicketRacesNoticed /\ CommentsCurrent /\ WrittenIsThere /\ AckedWritesStay

\* A step that leaves the tickets alone, and takes no thread to the ticket's
\* steps or past them.
LEMMA SameTickets ==
    ASSUME TicketInv, TypeOK', UNCHANGED <<comments, racedTickets, acked>>,
           \A o \in Threads :
              /\ work'[o].pc = "commit_ticket" => work'[o] = work[o]
              /\ HasWritten(o)' => HasWritten(o) /\ work'[o].action = work[o].action
    PROVE  TicketInv'
<1>1. TicketRacesNoticed'
  BY DEF TicketInv, TicketRacesNoticed
<1>2. CommentsCurrent'
  BY DEF TicketInv, CommentsCurrent
<1>3. WrittenIsThere'
  BY DEF TicketInv, WrittenIsThere
<1>4. AckedWritesStay'
  BY DEF TicketInv, AckedWritesStay
<1> QED
  BY <1>1, <1>2, <1>3, <1>4 DEF TicketInv

LEMMA TicketNext == TicketInv /\ [Next]_vars => TicketInv'
<1> SUFFICES ASSUME TicketInv, [Next]_vars PROVE TicketInv'
  OBVIOUS
<1>0. TypeOK /\ TypeOK'
  BY TypeNext DEF TicketInv
<1> USE ApprovalAssumption
<1>1. ASSUME NEW th \in Threads, NEW a \in Actions, NEW d \in Decisions,
             RefuseResolved(th, a, d)
      PROVE  TicketInv'
  BY <1>0, <1>1, SameTickets DEF RefuseResolved, HasWritten
<1>2. ASSUME NEW th \in Threads, NEW a \in Actions, NEW d \in Decisions,
             LoadRecord(th, a, d)
      PROVE  TicketInv'
  <2>1. /\ work'[th].pc # "commit_ticket"
        /\ work'[th].pc = "commit_record" =>
             ~WritesTicket(work'[th].action, work'[th].decision)
        /\ work'[th].pc # "reload"
        /\ \A o \in Threads : o # th => work'[o] = work[o]
    BY <1>0, <1>2 DEF LoadRecord, TypeOK
  <2>2. ~HasWritten(th)'
    BY <2>1 DEF HasWritten, WritesTicket
  <2>3. \A o \in Threads : /\ work'[o].pc = "commit_ticket" => work'[o] = work[o]
                           /\ HasWritten(o)' => HasWritten(o) /\ work'[o].action = work[o].action
    BY <2>1, <2>2 DEF HasWritten
  <2> QED
    BY <1>0, <1>2, <2>3, SameTickets DEF LoadRecord
<1>3. ASSUME NEW th \in Threads, ReadTicket(th) PROVE TicketInv'
  <2> DEFINE k == TicketOf[work[th].action]
  <2>1. Busy(th)
    BY <1>0, <1>3, PcBusy DEF ReadTicket
  <2>2. /\ work'[th].pc = "commit_ticket" /\ work'[th].action = work[th].action
        /\ work'[th].seen = comments[k]
        /\ \A o \in Threads : o # th => work'[o] = work[o]
        /\ racedTickets \subseteq racedTickets'
        /\ UNCHANGED <<comments, acked>>
    BY <1>0, <1>3, <2>1, BusyType DEF ReadTicket, TypeOK, Requests
  <2>3. TicketRacesNoticed'
    <3> SUFFICES ASSUME NEW o \in Threads, NEW p \in Threads, o # p,
                        work'[o].pc = "commit_ticket", work'[p].pc = "commit_ticket",
                        TicketOf[work'[o].action] = TicketOf[work'[p].action]
                 PROVE  TicketOf[work'[o].action] \in racedTickets'
      BY DEF TicketRacesNoticed
    <3>1. CASE o # th /\ p # th
      BY <2>2, <3>1 DEF TicketInv, TicketRacesNoticed
    <3>2. ASSUME NEW q \in Threads, q # th, work'[q].pc = "commit_ticket",
                 TicketOf[work'[q].action] = k
          PROVE  k \in racedTickets'
      <4>1. work[q].pc = "commit_ticket" /\ TicketOf[work[q].action] = k
        BY <2>2, <3>2
      <4>2. racedTickets' = racedTickets \cup {k}
        BY <1>3, <4>1 DEF ReadTicket
      <4> QED
        BY <4>2
    <3>3. CASE o = th
      BY <2>2, <3>2, <3>3
    <3>4. CASE p = th
      BY <2>2, <3>2, <3>4
    <3> QED
      BY <3>1, <3>3, <3>4
  <2>4. CommentsCurrent'
    BY <2>2 DEF TicketInv, CommentsCurrent
  <2>5. \A o \in Threads : HasWritten(o)' => HasWritten(o) /\ work'[o] = work[o]
    BY <2>2 DEF HasWritten
  <2>6. WrittenIsThere'
    BY <2>2, <2>5 DEF TicketInv, WrittenIsThere
  <2>7. AckedWritesStay'
    BY <2>2 DEF TicketInv, AckedWritesStay
  <2> QED
    BY <1>0, <2>3, <2>4, <2>6, <2>7 DEF TicketInv
<1>4. ASSUME NEW th \in Threads, CommitTicket(th) PROVE TicketInv'
  <2> DEFINE a == work[th].action
             k == TicketOf[a]
  <2>1. Busy(th) /\ a \in Actions /\ k \in Tickets /\ work[th].seen \in [Actions -> Nat]
    BY <1>0, <1>4, PcBusy, BusyType DEF CommitTicket
  <2>2. /\ work'[th].pc = "reload" /\ work'[th].action = a
        /\ \A o \in Threads : o # th => work'[o] = work[o]
        /\ UNCHANGED <<racedTickets, acked>>
    BY <1>0, <1>4, <2>1, BusyType DEF CommitTicket, TypeOK, Requests
  <2>3. /\ comments'[k] = [work[th].seen EXCEPT ![a] = @ + 1]
        /\ \A j \in Tickets : j # k => comments'[j] = comments[j]
        /\ comments[k] \in [Actions -> Nat]
    BY <1>0, <1>4, <2>1 DEF CommitTicket, TypeOK
  <2>4. ASSUME k \notin racedTickets
        PROVE  /\ comments'[k][a] >= 1
               /\ \A b \in Actions : comments[k][b] >= 1 => comments'[k][b] >= 1
    <3>1. work[th].seen = comments[k]
      BY <1>4, <2>4 DEF TicketInv, CommentsCurrent, CommitTicket
    <3> HIDE DEF a, k
    <3>2. comments'[k][a] = comments[k][a] + 1
      BY <2>1, <2>3, <3>1
    <3>3. \A b \in Actions : b # a => comments'[k][b] = comments[k][b]
      BY <2>1, <2>3, <3>1
    <3>4. comments[k][a] \in Nat
      BY <2>1, <2>3
    <3> QED
      BY <3>2, <3>3, <3>4
  <2>5. TicketRacesNoticed'
    BY <2>2 DEF TicketInv, TicketRacesNoticed
  <2>6. CommentsCurrent'
    <3> SUFFICES ASSUME NEW o \in Threads, work'[o].pc = "commit_ticket",
                        TicketOf[work'[o].action] \notin racedTickets'
                 PROVE  work'[o].seen = comments'[TicketOf[work'[o].action]]
      BY DEF CommentsCurrent
    <3>1. o # th /\ work'[o] = work[o] /\ Busy(o)
      BY <1>0, <2>2, PcBusy
    <3>2. TicketOf[work[o].action] # k /\ TicketOf[work[o].action] \in Tickets
      BY <1>0, <1>4, <2>2, <3>1, BusyType DEF TicketInv, TicketRacesNoticed, CommitTicket
    <3> QED
      BY <2>2, <2>3, <3>1, <3>2 DEF TicketInv, CommentsCurrent
  <2>7. WrittenIsThere'
    <3> SUFFICES ASSUME NEW o \in Threads, HasWritten(o)',
                        TicketOf[work'[o].action] \notin racedTickets
                 PROVE  comments'[TicketOf[work'[o].action]][work'[o].action] >= 1
      BY <2>2 DEF WrittenIsThere
    <3>1. CASE o = th
      BY <2>2, <2>4, <3>1
    <3>2. CASE o # th
      <4>1. work'[o] = work[o] /\ HasWritten(o)
        BY <2>2, <3>2 DEF HasWritten
      <4>2. work[o].action \in Actions /\ TicketOf[work[o].action] \in Tickets
        BY <1>0, <4>1, PcBusy, BusyType DEF HasWritten
      <4>3. comments[TicketOf[work[o].action]][work[o].action] >= 1
        BY <4>1 DEF TicketInv, WrittenIsThere
      <4>4. CASE TicketOf[work[o].action] = k
        <5>1. comments'[TicketOf[work[o].action]][work[o].action] >= 1
          <6> HIDE DEF a, k
          <6> QED
            BY <2>4, <4>1, <4>2, <4>3, <4>4
        <5> QED
          BY <4>1, <5>1
      <4>5. CASE TicketOf[work[o].action] # k
        <5>1. comments'[TicketOf[work[o].action]] = comments[TicketOf[work[o].action]]
          BY <2>3, <4>2, <4>5
        <5> QED
          BY <4>1, <4>3, <5>1
      <4> QED
        BY <4>4, <4>5
    <3> QED
      BY <3>1, <3>2
  <2>8. AckedWritesStay'
    <3> SUFFICES ASSUME NEW b \in Actions, <<b, "approve">> \in acked,
                        KindOf[b] = "update_ticket", TicketOf[b] \notin racedTickets
                 PROVE  comments'[TicketOf[b]][b] >= 1
      BY <2>2 DEF AckedWritesStay
    <3>1. comments[TicketOf[b]][b] >= 1 /\ TicketOf[b] \in Tickets
      BY DEF TicketInv, AckedWritesStay
    <3> QED
      BY <2>3, <2>4, <3>1
  <2> QED
    BY <1>0, <2>5, <2>6, <2>7, <2>8 DEF TicketInv
<1>5. ASSUME NEW th \in Threads, ReloadRecord(th) PROVE TicketInv'
  <2>1. Busy(th)
    BY <1>0, <1>5, PcBusy DEF ReloadRecord
  <2>2. /\ work'[th].action = work[th].action /\ work'[th].pc = "commit_record"
        /\ work'[th].decision = work[th].decision
        /\ \A o \in Threads : o # th => work'[o] = work[o]
    BY <1>0, <1>5, <2>1, BusyType DEF ReloadRecord, TypeOK, Requests
  <2>3. \A o \in Threads : /\ work'[o].pc = "commit_ticket" => work'[o] = work[o]
                           /\ HasWritten(o)' => HasWritten(o) /\ work'[o].action = work[o].action
    BY <1>5, <2>2 DEF HasWritten, ReloadRecord
  <2> QED
    BY <1>0, <1>5, <2>3, SameTickets DEF ReloadRecord
<1>6. ASSUME NEW th \in Threads, CommitRecord(th) PROVE TicketInv'
  <2> DEFINE a == work[th].action
             d == work[th].decision
  <2>1. Busy(th) /\ a \in Actions /\ d \in Decisions
    BY <1>0, <1>6, PcBusy, BusyType DEF CommitRecord
  <2>2. /\ work'[th] = Idle /\ \A o \in Threads : o # th => work'[o] = work[o]
        /\ acked' = acked \cup {<<a, d>>}
        /\ UNCHANGED <<comments, racedTickets>>
    BY <1>0, <1>6 DEF CommitRecord, TypeOK
  <2>3. ~HasWritten(th)' /\ work'[th].pc # "commit_ticket"
    BY <2>2 DEF HasWritten, Idle
  <2>4. TicketRacesNoticed'
    BY <2>2, <2>3 DEF TicketInv, TicketRacesNoticed
  <2>5. CommentsCurrent'
    BY <2>2, <2>3 DEF TicketInv, CommentsCurrent
  <2>6. \A o \in Threads : HasWritten(o)' => HasWritten(o) /\ work'[o] = work[o]
    BY <2>2, <2>3 DEF HasWritten
  <2>7. WrittenIsThere'
    BY <2>2, <2>6 DEF TicketInv, WrittenIsThere
  <2>8. AckedWritesStay'
    <3> SUFFICES ASSUME NEW b \in Actions, <<b, "approve">> \in acked',
                        KindOf[b] = "update_ticket", TicketOf[b] \notin racedTickets
                 PROVE  comments[TicketOf[b]][b] >= 1
      BY <2>2 DEF AckedWritesStay
    <3>1. CASE <<b, "approve">> \in acked
      BY <3>1 DEF TicketInv, AckedWritesStay
    <3>2. CASE <<b, "approve">> = <<a, d>>
      <4>1. HasWritten(th) /\ a = b
        BY <1>6, <3>2 DEF HasWritten, WritesTicket, CommitRecord
      <4> QED
        BY <4>1 DEF TicketInv, WrittenIsThere
    <3> QED
      BY <2>2, <3>1, <3>2
  <2> QED
    BY <1>0, <2>4, <2>5, <2>7, <2>8 DEF TicketInv
<1>7. ASSUME NEW th \in Threads, FailRequest(th) PROVE TicketInv'
  <2>1. work'[th] = Idle /\ \A o \in Threads : o # th => work'[o] = work[o]
    BY <1>0, <1>7 DEF FailRequest, TypeOK
  <2>2. \A o \in Threads : /\ work'[o].pc = "commit_ticket" => work'[o] = work[o]
                           /\ HasWritten(o)' => HasWritten(o) /\ work'[o].action = work[o].action
    BY <2>1 DEF HasWritten, Idle
  <2> QED
    BY <1>0, <1>7, <2>2, SameTickets DEF FailRequest
<1>8. CASE UNCHANGED vars
  BY <1>0, <1>8, SameTickets DEF vars, HasWritten
<1> QED
  BY <1>1, <1>2, <1>3, <1>4, <1>5, <1>6, <1>7, <1>8 DEF Next

\* Whatever the number of threads: the comment of an acknowledged ticket approval
\* stays on the ticket unless two requests worked on that ticket at once.
THEOREM AckedWritesStayUnlessRaced == Spec => []AckedWritesStay
<1>1. Init => TicketInv
  BY TypeInit DEF Init, TicketInv, TicketRacesNoticed, CommentsCurrent, WrittenIsThere,
                  AckedWritesStay, HasWritten, Idle
<1>2. TicketInv => AckedWritesStay
  BY DEF TicketInv
<1> QED
  BY <1>1, <1>2, TicketNext, PTL DEF Spec

----------------------------------------------------------------------------
(* External writes are approved ones.                                        *)

\* The gate or a client let the action through.
Granted(a) ==
    \/ tasks[TaskOf[a]].state.approvals[a] = "auto_approved"
    \/ <<a, "approve">> \in asked

\* A request in flight is one that was sent.
RequestsAsked ==
    \A th \in Threads : Busy(th) => <<work[th].action, work[th].decision>> \in asked

\* Every copy of a blob agrees with its row on what the gate let through.
AutoFixed ==
    \A th \in Threads : Busy(th) =>
        \A b \in ActionsOf(TaskAt(th)) :
            (work[th].state.approvals[b] = "auto_approved")
                <=> (tasks[TaskAt(th)].state.approvals[b] = "auto_approved")

\* The drafts opened in a row or in a copy, and the comments on a ticket or in a
\* copy of its list, are those of granted actions.
OpenedGranted ==
    /\ \A t \in Tasks : \A b \in tasks[t].state.opened : Granted(b)
    /\ \A th \in Threads : Busy(th) => \A b \in work[th].state.opened : Granted(b)

CommentsGranted ==
    \A b \in Actions :
        /\ \A k \in Tickets : comments[k][b] > 0 => Granted(b)
        /\ \A th \in Threads : Busy(th) /\ work[th].seen[b] > 0 => Granted(b)

EffectsInv ==
    /\ TypeOK /\ TicketStepsOnly
    /\ RequestsAsked /\ AutoFixed /\ OpenedGranted /\ CommentsGranted

\* What was granted stays granted, copies keep agreeing with their rows and
\* requests in flight are still requests that were sent.
LEMMA GrantedStays ==
    ASSUME EffectsInv, [Next]_vars
    PROVE  /\ RequestsAsked' /\ AutoFixed'
           /\ \A b \in Actions : Granted(b) => Granted(b)'
<1>0. TypeOK /\ TypeOK' /\ asked \subseteq asked'
  BY TypeNext DEF EffectsInv, Next, vars, RefuseResolved, LoadRecord, Send, ReadTicket,
                  CommitTicket, ReloadRecord, CommitRecord, FailRequest
<1> USE ApprovalAssumption
<1>1. ASSUME tasks' = tasks,
             \A o \in Threads : Busy(o)' => /\ Busy(o)
                                            /\ work'[o].action = work[o].action
                                            /\ work'[o].decision = work[o].decision
                                            /\ work'[o].state = work[o].state
      PROVE  /\ RequestsAsked' /\ AutoFixed'
             /\ \A b \in Actions : Granted(b) => Granted(b)'
  <2>1. RequestsAsked'
    BY <1>0, <1>1 DEF EffectsInv, RequestsAsked
  <2>2. AutoFixed'
    BY <1>1 DEF EffectsInv, AutoFixed, TaskAt
  <2>3. \A b \in Actions : Granted(b) => Granted(b)'
    BY <1>0, <1>1 DEF Granted
  <2> QED
    BY <2>1, <2>2, <2>3
<1>2. ASSUME NEW th \in Threads, NEW a \in Actions, NEW d \in Decisions,
             LoadRecord(th, a, d)
      PROVE  /\ RequestsAsked' /\ AutoFixed'
             /\ \A b \in Actions : Granted(b) => Granted(b)'
  <2> DEFINE s == tasks[TaskOf[a]].state
  <2>1. /\ work'[th].action = a /\ work'[th].decision = d
        /\ work'[th].state = Resolve(s, a, d)
        /\ \A o \in Threads : o # th => work'[o] = work[o]
        /\ tasks' = tasks /\ <<a, d>> \in asked'
        /\ s \in StateJson(TaskOf[a]) /\ s.approvals[a] = "None"
    BY <1>0, <1>2 DEF LoadRecord, Send, TypeOK
  <2>2. RequestsAsked'
    BY <1>0, <2>1 DEF EffectsInv, RequestsAsked, Busy
  <2>3. \A b \in ActionsOf(TaskOf[a]) :
          (Resolve(s, a, d).approvals[b] = "auto_approved") <=> (s.approvals[b] = "auto_approved")
    <3> HIDE DEF s
    <3> QED
      BY <2>1, ResolveApprovals DEF ActionsOf, Decisions
  <2>4. AutoFixed'
    <3> SUFFICES ASSUME NEW o \in Threads, Busy(o)', NEW b \in ActionsOf(TaskAt(o)')
                 PROVE  (work'[o].state.approvals[b] = "auto_approved")
                          <=> (tasks'[TaskAt(o)'].state.approvals[b] = "auto_approved")
      BY DEF AutoFixed
    <3>1. CASE o = th
      BY <2>1, <2>3, <3>1 DEF TaskAt
    <3>2. CASE o # th
      BY <2>1, <3>2 DEF EffectsInv, AutoFixed, Busy, TaskAt
    <3> QED
      BY <3>1, <3>2
  <2>5. \A b \in Actions : Granted(b) => Granted(b)'
    BY <1>0, <2>1 DEF Granted
  <2> QED
    BY <2>2, <2>4, <2>5
<1>3. ASSUME NEW th \in Threads, CommitRecord(th)
      PROVE  /\ RequestsAsked' /\ AutoFixed'
             /\ \A b \in Actions : Granted(b) => Granted(b)'
  <2> DEFINE t == TaskAt(th)
  <2>1. Busy(th) /\ t \in Tasks
    BY <1>0, <1>3, PcBusy, BusyType DEF CommitRecord
  <2>2. /\ tasks'[t].state.approvals = work[th].state.approvals
        /\ \A u \in Tasks : u # t => tasks'[u] = tasks[u]
        /\ ~Busy(th)' /\ \A o \in Threads : o # th => work'[o] = work[o]
    BY <1>0, <1>3, <2>1, UpdatedType DEF CommitRecord, TypeOK, Busy
  <2>3. \A b \in Actions :
          (tasks'[TaskOf[b]].state.approvals[b] = "auto_approved")
            <=> (tasks[TaskOf[b]].state.approvals[b] = "auto_approved")
    BY <2>1, <2>2 DEF EffectsInv, AutoFixed, ActionsOf
  <2>4. RequestsAsked'
    BY <1>0, <2>2 DEF EffectsInv, RequestsAsked, Busy
  <2>5. AutoFixed'
    <3> SUFFICES ASSUME NEW o \in Threads, Busy(o)', NEW b \in ActionsOf(TaskAt(o)')
                 PROVE  (work'[o].state.approvals[b] = "auto_approved")
                          <=> (tasks'[TaskAt(o)'].state.approvals[b] = "auto_approved")
      BY DEF AutoFixed
    <3>1. o # th /\ work'[o] = work[o] /\ Busy(o) /\ TaskAt(o)' = TaskAt(o)
      BY <2>2 DEF Busy, TaskAt
    <3>2. b \in Actions /\ TaskOf[b] = TaskAt(o)
      BY <3>1 DEF ActionsOf
    <3>3. (work[o].state.approvals[b] = "auto_approved")
            <=> (tasks[TaskAt(o)].state.approvals[b] = "auto_approved")
      BY <3>1, <3>2 DEF EffectsInv, AutoFixed, ActionsOf
    <3> QED
      BY <2>3, <3>1, <3>2, <3>3
  <2>6. \A b \in Actions : Granted(b) => Granted(b)'
    BY <1>0, <2>3 DEF Granted
  <2> QED
    BY <2>4, <2>5, <2>6
<1>4. ASSUME NEW th \in Threads, ReadTicket(th) \/ CommitTicket(th) \/ ReloadRecord(th)
      PROVE  /\ RequestsAsked' /\ AutoFixed'
             /\ \A b \in Actions : Granted(b) => Granted(b)'
  BY <1>0, <1>1, <1>4, InFlightSteps DEF ReadTicket, CommitTicket, ReloadRecord
<1>5. ASSUME NEW th \in Threads, FailRequest(th)
      PROVE  /\ RequestsAsked' /\ AutoFixed'
             /\ \A b \in Actions : Granted(b) => Granted(b)'
  BY <1>0, <1>1, <1>5 DEF FailRequest, TypeOK, Busy
<1>6. CASE tasks' = tasks /\ work' = work
  BY <1>1, <1>6 DEF Busy
<1> QED
  BY <1>2, <1>3, <1>4, <1>5, <1>6 DEF Next, RefuseResolved, vars

LEMMA EffectsNext == EffectsInv /\ [Next]_vars => EffectsInv'
<1> SUFFICES ASSUME EffectsInv, [Next]_vars PROVE EffectsInv'
  OBVIOUS
<1>0. /\ TypeOK /\ TypeOK' /\ TicketStepsOnly /\ TicketStepsOnly'
      /\ RequestsAsked' /\ AutoFixed'
      /\ \A b \in Actions : Granted(b) => Granted(b)'
  BY TypeNext, TicketStepsNext, GrantedStays DEF EffectsInv
<1> USE ApprovalAssumption
<1>1. SUFFICES OpenedGranted' /\ CommentsGranted'
  BY <1>0 DEF EffectsInv
<1>2. /\ \A t \in Tasks : tasks[t].state.opened \subseteq Actions
      /\ \A th \in Threads : Busy(th) => work[th].state.opened \subseteq Actions
  BY <1>0, BusyType DEF TypeOK, StateJson, ActionsOf
<1>3. ASSUME UNCHANGED <<tasks, comments>>,
             \A o \in Threads : Busy(o)' => /\ Busy(o)
                                            /\ work'[o].state = work[o].state
                                            /\ work'[o].seen = work[o].seen
      PROVE  OpenedGranted' /\ CommentsGranted'
  <2>1. OpenedGranted'
    BY <1>0, <1>2, <1>3 DEF EffectsInv, OpenedGranted
  <2>2. CommentsGranted'
    BY <1>0, <1>3 DEF EffectsInv, CommentsGranted
  <2> QED
    BY <2>1, <2>2
<1>4. ASSUME NEW th \in Threads, NEW a \in Actions, NEW d \in Decisions,
             LoadRecord(th, a, d)
      PROVE  OpenedGranted' /\ CommentsGranted'
  <2> DEFINE s == tasks[TaskOf[a]].state
  <2>1. /\ work'[th].state = Resolve(s, a, d) /\ work'[th].seen = NothingSeen
        /\ \A o \in Threads : o # th => work'[o] = work[o]
        /\ UNCHANGED <<tasks, comments>> /\ <<a, d>> \in asked'
        /\ s \in StateJson(TaskOf[a])
    BY <1>0, <1>4 DEF LoadRecord, Send, TypeOK
  <2>2. \A b \in Resolve(s, a, d).opened : b \in s.opened \/ (b = a /\ d = "approve")
    <3> HIDE DEF s
    <3> QED
      BY <2>1 DEF Resolve, StateJson
  <2>3. \A b \in Resolve(s, a, d).opened : Granted(b)'
    BY <1>0, <1>2, <2>1, <2>2 DEF EffectsInv, OpenedGranted, Granted
  <2>4. OpenedGranted'
    BY <1>0, <1>2, <2>1, <2>3 DEF EffectsInv, OpenedGranted, Busy
  <2>5. CommentsGranted'
    BY <1>0, <2>1 DEF EffectsInv, CommentsGranted, Busy, NothingSeen
  <2> QED
    BY <2>4, <2>5
<1>5. ASSUME NEW th \in Threads, ReadTicket(th) PROVE OpenedGranted' /\ CommentsGranted'
  <2> DEFINE k == TicketOf[work[th].action]
  <2>1. Busy(th) /\ k \in Tickets
    BY <1>0, <1>5, PcBusy, BusyType DEF ReadTicket
  <2>2. /\ work'[th].state = work[th].state /\ work'[th].seen = comments[k]
        /\ \A o \in Threads : o # th => work'[o] = work[o]
        /\ UNCHANGED <<tasks, comments>>
    BY <1>0, <1>5, <2>1, BusyType DEF ReadTicket, TypeOK, Requests
  <2>3. OpenedGranted'
    BY <1>0, <1>2, <2>1, <2>2 DEF EffectsInv, OpenedGranted, Busy
  <2>4. CommentsGranted'
    BY <1>0, <2>1, <2>2 DEF EffectsInv, CommentsGranted, Busy
  <2> QED
    BY <2>3, <2>4
<1>6. ASSUME NEW th \in Threads, CommitTicket(th) PROVE OpenedGranted' /\ CommentsGranted'
  <2> DEFINE a == work[th].action
             k == TicketOf[a]
  <2>1. /\ Busy(th) /\ a \in Actions /\ k \in Tickets /\ work[th].seen \in [Actions -> Nat]
        /\ work[th].decision = "approve"
    BY <1>0, <1>6, PcBusy, BusyType DEF CommitTicket, TicketStepsOnly, WritesTicket
  <2>2. /\ \A o \in Threads : /\ Busy(o)' => Busy(o)
                              /\ work'[o].state = work[o].state /\ work'[o].seen = work[o].seen
        /\ UNCHANGED tasks
    <3>1. work' = [work EXCEPT ![th].pc = "reload"] /\ UNCHANGED tasks
      BY <1>6 DEF CommitTicket
    <3>2. \A o \in Threads : o # th => work'[o] = work[o]
      BY <1>0, <3>1 DEF TypeOK
    <3>3. work'[th] = [work[th] EXCEPT !.pc = "reload"] /\ work[th] \in Requests
      BY <1>0, <2>1, <3>1, BusyType DEF TypeOK
    <3>4. work'[th].state = work[th].state /\ work'[th].seen = work[th].seen
      BY <3>3 DEF Requests
    <3> QED
      BY <2>1, <3>1, <3>2, <3>4 DEF Busy
  <2>3. /\ comments'[k] = [work[th].seen EXCEPT ![a] = @ + 1]
        /\ \A j \in Tickets : j # k => comments'[j] = comments[j]
    BY <1>0, <1>6, <2>1 DEF CommitTicket, TypeOK
  <2>4. Granted(a)
    BY <2>1 DEF EffectsInv, RequestsAsked, Granted
  <2>5. \A b \in Actions : b # a => comments'[k][b] = work[th].seen[b]
    <3> HIDE DEF a, k
    <3> QED
      BY <2>1, <2>3
  <2>6. OpenedGranted'
    BY <1>0, <1>2, <2>2 DEF EffectsInv, OpenedGranted
  <2>7. CommentsGranted'
    <3> SUFFICES ASSUME NEW b \in Actions
                 PROVE  /\ \A j \in Tickets : comments'[j][b] > 0 => Granted(b)'
                        /\ \A o \in Threads : Busy(o)' /\ work'[o].seen[b] > 0 => Granted(b)'
      BY DEF CommentsGranted
    <3>1. CASE b = a
      BY <1>0, <2>1, <2>4, <3>1
    <3>2. CASE b # a
      BY <1>0, <2>1, <2>2, <2>3, <2>5, <3>2 DEF EffectsInv, CommentsGranted
    <3> QED
      BY <3>1, <3>2
  <2> QED
    BY <2>6, <2>7
<1>7. ASSUME NEW th \in Threads, ReloadRecord(th) PROVE OpenedGranted' /\ CommentsGranted'
  <2>1. Busy(th)
    BY <1>0, <1>7, PcBusy DEF ReloadRecord
  <2>2. \A o \in Threads : Busy(o)' => /\ Busy(o) /\ work'[o].state = work[o].state
                                       /\ work'[o].seen = work[o].seen
    BY <1>0, <1>7, <2>1, BusyType DEF ReloadRecord, TypeOK, Requests, Busy
  <2> QED
    BY <1>3, <1>7, <2>2 DEF ReloadRecord
<1>8. ASSUME NEW th \in Threads, CommitRecord(th) PROVE OpenedGranted' /\ CommentsGranted'
  <2> DEFINE t == TaskAt(th)
  <2>1. Busy(th) /\ t \in Tasks
    BY <1>0, <1>8, PcBusy, BusyType DEF CommitRecord
  <2>2. /\ tasks'[t].state.opened = work[th].state.opened
        /\ \A u \in Tasks : u # t => tasks'[u] = tasks[u]
        /\ ~Busy(th)' /\ \A o \in Threads : o # th => work'[o] = work[o]
        /\ UNCHANGED comments
    BY <1>0, <1>8, <2>1, UpdatedType DEF CommitRecord, TypeOK, Busy
  <2>3. OpenedGranted'
    BY <1>0, <1>2, <2>1, <2>2 DEF EffectsInv, OpenedGranted, Busy
  <2>4. CommentsGranted'
    BY <1>0, <2>2 DEF EffectsInv, CommentsGranted, Busy
  <2> QED
    BY <2>3, <2>4
<1>9. ASSUME NEW th \in Threads, FailRequest(th) PROVE OpenedGranted' /\ CommentsGranted'
  BY <1>0, <1>3, <1>9 DEF FailRequest, TypeOK, Busy
<1>10. CASE UNCHANGED <<tasks, comments, work>>
  BY <1>3, <1>10 DEF Busy
<1> QED
  BY <1>4, <1>5, <1>6, <1>7, <1>8, <1>9, <1>10 DEF Next, RefuseResolved, vars

LEMMA EffectsInit == Init => EffectsInv
<1> SUFFICES ASSUME Init PROVE EffectsInv
  OBVIOUS
<1>1. /\ TypeOK /\ TicketStepsOnly /\ \A th \in Threads : ~Busy(th)
  BY TypeInit DEF Init, TicketStepsOnly, Busy, Idle
<1>2. PICK auto \in [Tasks -> BOOLEAN], verdict \in [Tasks -> Verdicts] :
        /\ tasks = [t \in Tasks |-> RowOf(t, auto[t], verdict[t])]
        /\ comments = [k \in Tickets |->
                         [a \in Actions |-> IF TicketOf[a] = k THEN Posted(a, auto) ELSE 0]]
  BY DEF Init
<1>3. \A a \in Actions : auto[TaskOf[a]] => Granted(a)
  BY <1>2, ApprovalAssumption DEF Granted, RowOf, ActionsOf
<1>4. \A t \in Tasks : \A b \in tasks[t].state.opened : b \in Actions /\ auto[TaskOf[b]]
  BY <1>2 DEF RowOf, DraftsOf, ActionsOf
<1>5. \A k \in Tickets, b \in Actions : comments[k][b] > 0 => auto[TaskOf[b]]
  BY <1>2 DEF Posted
<1> QED
  BY <1>1, <1>3, <1>4, <1>5 DEF EffectsInv, RequestsAsked, AutoFixed, OpenedGranted, CommentsGranted

\* Whatever the interleaving and the failures: an opened pull request or a
\* comment on a ticket belongs to an action that the gate or a client approved.
THEOREM EffectsAreApproved == Spec => []EffectsApproved
<1>1. EffectsInv => EffectsApproved
  BY ApprovalAssumption DEF EffectsInv, OpenedGranted, CommentsGranted, EffectsApproved,
                            TookEffect, Granted
<1> QED
  BY <1>1, EffectsInit, EffectsNext, PTL DEF Spec

----------------------------------------------------------------------------
(* The two copies of a status.                                               *)

\* Without a race, a request knows the present status of its task.
StatusCurrent ==
    \A th \in Threads : Busy(th) /\ TaskAt(th) \notin raced =>
        work[th].status = tasks[TaskAt(th)].status

StatusInv == DecisionInv /\ StatusCurrent /\ UnracedStatusesAgree

\* Without a race, a commit computes the new status from the present one, puts it
\* in both places and keeps the verdict.
LEMMA UpdatedUnraced ==
    ASSUME StatusInv, NEW th \in Threads, Busy(th), TaskAt(th) \notin raced
    PROVE  LET row == tasks[TaskAt(th)]
               s   == work[th].state
           IN  /\ Updated(th).status = IF AllResolved(s) THEN FinalStatus(s, row.status)
                                       ELSE row.status
               /\ Updated(th).state.status = Updated(th).status
               /\ Updated(th).state.final_verdict = row.state.final_verdict
               /\ s.final_verdict = row.state.final_verdict
<1> DEFINE t == TaskAt(th)
           row == tasks[t]
           s == work[th].state
<1>0. TypeOK
  BY DEF StatusInv, DecisionInv
<1>1. /\ t \in Tasks /\ t = TaskOf[work[th].action] /\ s \in StateJson(t)
      /\ row.state \in StateJson(t)
  BY <1>0, BusyType DEF TaskAt, TypeOK
<1>2. /\ s = Resolve(row.state, work[th].action, work[th].decision)
      /\ work[th].status = row.status /\ row.status = row.state.status
  BY <1>1 DEF StatusInv, DecisionInv, CopiesCurrent, StatusCurrent, UnracedStatusesAgree
<1>3. s.status = row.state.status /\ s.final_verdict = row.state.final_verdict
  <2> HIDE DEF t, row
  <2> QED
    BY <1>1, <1>2 DEF Resolve, StateJson
<1>4. \A v : [s EXCEPT !.status = v].status = v
             /\ [s EXCEPT !.status = v].final_verdict = s.final_verdict
  BY <1>1 DEF StateJson
<1> QED
  BY <1>2, <1>3, <1>4 DEF Updated

\* Requests in flight before a step are those after it, but for the one that the
\* step begins or ends, and the rows change only when a record is committed.
LEMMA StatusNext == StatusInv /\ [Next]_vars => StatusInv'
<1> SUFFICES ASSUME StatusInv, [Next]_vars PROVE StatusInv'
  OBVIOUS
<1>0. TypeOK /\ DecisionInv /\ DecisionInv' /\ TypeOK'
  BY DecisionNext DEF StatusInv, DecisionInv
<1>1. SUFFICES StatusCurrent' /\ UnracedStatusesAgree'
  BY <1>0 DEF StatusInv
<1> USE ApprovalAssumption
<1>2. ASSUME tasks' = tasks, raced \subseteq raced',
             \A o \in Threads : Busy(o)' /\ TaskAt(o)' \notin raced' =>
                /\ Busy(o) /\ work'[o].action = work[o].action
                /\ work'[o].status = work[o].status
      PROVE  StatusCurrent' /\ UnracedStatusesAgree'
  BY <1>2 DEF StatusInv, StatusCurrent, UnracedStatusesAgree, TaskAt
<1>3. ASSUME NEW th \in Threads, NEW a \in Actions, NEW d \in Decisions,
             LoadRecord(th, a, d)
      PROVE  StatusCurrent' /\ UnracedStatusesAgree'
  <2>1. /\ work'[th].action = a /\ work'[th].status = tasks[TaskOf[a]].status
        /\ \A o \in Threads : o # th => work'[o] = work[o]
        /\ tasks' = tasks /\ raced \subseteq raced'
    BY <1>0, <1>3 DEF LoadRecord, TypeOK
  <2>2. StatusCurrent'
    BY <2>1 DEF StatusInv, StatusCurrent, Busy, TaskAt
  <2>3. UnracedStatusesAgree'
    BY <2>1 DEF StatusInv, UnracedStatusesAgree
  <2> QED
    BY <2>2, <2>3
<1>4. ASSUME NEW th \in Threads, ReadTicket(th) \/ CommitTicket(th)
      PROVE  StatusCurrent' /\ UnracedStatusesAgree'
  <2>1. Busy(th)
    BY <1>0, <1>4, PcBusy DEF ReadTicket, CommitTicket
  <2>2. CASE ReadTicket(th)
    <3>1. work'[th].status = work[th].status /\ \A o \in Threads : o # th => work'[o] = work[o]
      BY <1>0, <2>1, <2>2, BusyType DEF ReadTicket, TypeOK, Requests
    <3> QED
      BY <1>0, <1>2, <2>1, <2>2, <3>1, InFlightSteps DEF ReadTicket
  <2>3. CASE CommitTicket(th)
    <3>1. work'[th].status = work[th].status /\ \A o \in Threads : o # th => work'[o] = work[o]
      BY <1>0, <2>1, <2>3, BusyType DEF CommitTicket, TypeOK, Requests
    <3> QED
      BY <1>0, <1>2, <2>1, <2>3, <3>1, InFlightSteps DEF CommitTicket
  <2> QED
    BY <1>4, <2>2, <2>3
<1>5. ASSUME NEW th \in Threads, ReloadRecord(th)
      PROVE  StatusCurrent' /\ UnracedStatusesAgree'
  <2>1. Busy(th)
    BY <1>0, <1>5, PcBusy DEF ReloadRecord
  <2>2. /\ work'[th].action = work[th].action
        /\ work'[th].status = tasks[TaskAt(th)].status
        /\ \A o \in Threads : o # th => work'[o] = work[o]
        /\ UNCHANGED <<tasks, raced>>
    BY <1>0, <1>5, <2>1, BusyType DEF ReloadRecord, TypeOK, Requests
  <2>3. StatusCurrent'
    BY <2>2 DEF StatusInv, StatusCurrent, Busy, TaskAt
  <2>4. UnracedStatusesAgree'
    BY <2>2 DEF StatusInv, UnracedStatusesAgree
  <2> QED
    BY <2>3, <2>4
<1>6. ASSUME NEW th \in Threads, CommitRecord(th)
      PROVE  StatusCurrent' /\ UnracedStatusesAgree'
  <2> DEFINE t == TaskAt(th)
  <2>1. Busy(th) /\ t \in Tasks
    BY <1>0, <1>6, PcBusy, BusyType DEF CommitRecord
  <2>2. /\ tasks'[t] = Updated(th) /\ \A u \in Tasks : u # t => tasks'[u] = tasks[u]
        /\ ~Busy(th)' /\ \A o \in Threads : o # th => work'[o] = work[o]
        /\ raced' = raced
    BY <1>0, <1>6, <2>1 DEF CommitRecord, TypeOK, Busy
  <2>3. StatusCurrent'
    <3> SUFFICES ASSUME NEW o \in Threads, Busy(o)', TaskAt(o)' \notin raced'
                 PROVE  work'[o].status = tasks'[TaskAt(o)'].status
      BY DEF StatusCurrent
    <3>1. o # th /\ work'[o] = work[o] /\ Busy(o) /\ TaskAt(o)' = TaskAt(o)
      BY <2>2 DEF Busy, TaskAt
    <3>2. TaskAt(o) # t /\ TaskAt(o) \in Tasks
      BY <1>0, <2>1, <2>2, <3>1, BusyType DEF DecisionInv, RacesNoticed
    <3> QED
      BY <2>2, <3>1, <3>2 DEF StatusInv, StatusCurrent
  <2>4. UnracedStatusesAgree'
    BY <2>1, <2>2, UpdatedUnraced DEF StatusInv, UnracedStatusesAgree
  <2> QED
    BY <2>3, <2>4
<1>7. ASSUME NEW th \in Threads, FailRequest(th)
      PROVE  StatusCurrent' /\ UnracedStatusesAgree'
  BY <1>0, <1>2, <1>7 DEF FailRequest, TypeOK, Busy
<1>8. CASE UNCHANGED <<tasks, work, raced>>
  BY <1>2, <1>8 DEF Busy
<1> QED
  BY <1>3, <1>4, <1>5, <1>6, <1>7, <1>8 DEF Next, RefuseResolved, vars

LEMMA StatusInit == Init => StatusInv
<1> SUFFICES ASSUME Init PROVE StatusInv
  OBVIOUS
<1>1. DecisionInv /\ StatusCurrent
  BY TypeInit DEF Init, DecisionInv, RacesNoticed, CopiesCurrent, UnracedDecisionsStick,
                  StatusCurrent, Busy
<1>2. UnracedStatusesAgree
  BY DEF Init, UnracedStatusesAgree, RowOf
<1> QED
  BY <1>1, <1>2 DEF StatusInv

\* Whatever the number of threads: the status column and the status in the blob
\* agree on every task whose requests never overlapped.
THEOREM StatusesAgreeUnlessRaced == Spec => []UnracedStatusesAgree
<1>1. StatusInv => UnracedStatusesAgree
  BY DEF StatusInv
<1> QED
  BY <1>1, StatusInit, StatusNext, PTL DEF Spec

----------------------------------------------------------------------------
(* Each undisturbed task implements the ledger.  Besides what was used so     *)
(* far, the effects of a decided approval have to be counted exactly.         *)

Performed(a) == tasks[TaskOf[a]].state.approvals[a] \in {"approve", "auto_approved"}

\* A single-repository task has a verdict.
VerdictsKnown == \A t \in Tasks \ (MultiRepo \cup raced) : tasks[t].state.final_verdict \in Verdicts

\* A draft is opened exactly by the approval of its own pull request.
OpenedCounted ==
    \A a \in Actions :
        /\ TaskOf[a] \notin raced \cup MultiRepo
        /\ KindOf[a] = "prepare_pull_request"
        => (a \in tasks[TaskOf[a]].state.opened <=> Performed(a))

\* A ticket has one comment of a performed update, and one of an update whose
\* decision is still to be recorded.
CommentsCounted ==
    \A a \in Actions :
        Clear(a) /\ KindOf[a] = "update_ticket" => comments[TicketOf[a]][a] =
             (IF Performed(a) THEN 1 ELSE 0) + (IF Recording(a) THEN 1 ELSE 0)

LedgerInv ==
    /\ StatusInv /\ TicketStepsOnly /\ TicketInv
    /\ VerdictsKnown /\ OpenedCounted /\ CommentsCounted

\* A write still to be recorded is of an approved ticket update, and of one
\* request only while its task is not raced.
LEMMA RecordingFacts ==
    ASSUME LedgerInv, NEW th \in Threads, HasWritten(th)
    PROVE  /\ Busy(th) /\ work[th].action \in Actions
           /\ KindOf[work[th].action] = "update_ticket" /\ work[th].decision = "approve"
           /\ Recording(work[th].action)
           /\ \A o \in Threads :
                /\ HasWritten(o) /\ o # th /\ TaskAt(th) \notin raced
                => work[o].action # work[th].action
<1>0. TypeOK /\ RacesNoticed
  BY DEF LedgerInv, StatusInv, DecisionInv
<1>1. Busy(th) /\ work[th].action \in Actions
  BY <1>0, PcBusy, BusyType DEF HasWritten
<1>2. Recording(work[th].action)
  BY DEF Recording
<1>3. ASSUME NEW o \in Threads, HasWritten(o), o # th, TaskAt(th) \notin raced
      PROVE  work[o].action # work[th].action
  BY <1>0, <1>1, <1>3, PcBusy DEF HasWritten, RacesNoticed, TaskAt
<1> QED
  BY <1>1, <1>2, <1>3 DEF HasWritten, WritesTicket

\* Only the commit of a record on its own task changes how a clear action
\* stands: its comments and the write still to be recorded change together.
LEMMA OthersLeaveItAlone ==
    ASSUME LedgerInv, Next, NEW a \in Actions, Clear(a)',
           ~ \E th \in Threads : CommitRecord(th) /\ TaskAt(th) = TaskOf[a]
    PROVE  /\ tasks'[TaskOf[a]] = tasks[TaskOf[a]]
           /\ KindOf[a] = "update_ticket" =>
                comments'[TicketOf[a]][a] =
                  comments[TicketOf[a]][a] + (IF Recording(a)' THEN 1 ELSE 0)
                                           - (IF Recording(a) THEN 1 ELSE 0)
<1> DEFINE Kept == /\ tasks'[TaskOf[a]] = tasks[TaskOf[a]]
                   /\ KindOf[a] = "update_ticket" =>
                        comments'[TicketOf[a]][a] =
                          comments[TicketOf[a]][a] + (IF Recording(a)' THEN 1 ELSE 0)
                                                   - (IF Recording(a) THEN 1 ELSE 0)
<1> USE ApprovalAssumption
<1>0. /\ TypeOK /\ RacesNoticed /\ CopiesCurrent /\ TicketStepsOnly /\ CommentsCurrent
      /\ TicketOf[a] \in Tickets /\ TaskOf[a] \in Tasks
      /\ comments[TicketOf[a]][a] \in Nat
  BY DEF LedgerInv, StatusInv, DecisionInv, TicketInv, TypeOK
<1>1. ASSUME tasks' = tasks, comments' = comments, Recording(a)' <=> Recording(a) PROVE Kept
  <2>1. CASE Recording(a)
    BY <1>0, <1>1, <2>1
  <2>2. CASE ~Recording(a)
    BY <1>0, <1>1, <2>2
  <2> QED
    BY <2>1, <2>2
<1>2. ASSUME NEW th \in Threads, NEW b \in Actions, NEW d \in Decisions, LoadRecord(th, b, d)
      PROVE  Kept
  <2>1. /\ \A o \in Threads : o # th => work'[o] = work[o]
        /\ work'[th].pc \in {"read_ticket", "commit_record"}
        /\ work'[th].pc = "commit_record" => ~WritesTicket(work'[th].action, work'[th].decision)
        /\ ~Busy(th)
    BY <1>0, <1>2 DEF LoadRecord, TypeOK
  <2>2. ~HasWritten(th)' /\ ~HasWritten(th)
    BY <1>0, <2>1, PcBusy DEF HasWritten, WritesTicket
  <2>3. Recording(a)' <=> Recording(a)
    BY <2>1, <2>2 DEF Recording, HasWritten
  <2> QED
    BY <1>1, <1>2, <2>3 DEF LoadRecord
<1>3. ASSUME NEW th \in Threads, ReadTicket(th) PROVE Kept
  <2>1. Busy(th)
    BY <1>0, <1>3, PcBusy DEF ReadTicket
  <2>2. /\ \A o \in Threads : o # th => work'[o] = work[o]
        /\ ~HasWritten(th)' /\ ~HasWritten(th)
    BY <1>0, <1>3, <2>1, BusyType DEF ReadTicket, TypeOK, Requests, HasWritten
  <2>3. Recording(a)' <=> Recording(a)
    BY <2>2 DEF Recording, HasWritten
  <2> QED
    BY <1>1, <1>3, <2>3 DEF ReadTicket
<1>4. ASSUME NEW th \in Threads, CommitTicket(th) PROVE Kept
  <2> DEFINE b == work[th].action
             k == TicketOf[b]
  <2>1. Busy(th) /\ b \in Actions /\ k \in Tickets /\ work[th].seen \in [Actions -> Nat]
        /\ WritesTicket(b, work[th].decision)
    BY <1>0, <1>4, PcBusy, BusyType DEF CommitTicket, TicketStepsOnly
  <2>2. /\ work'[th].pc = "reload" /\ work'[th].action = b
        /\ work'[th].decision = work[th].decision
        /\ \A o \in Threads : o # th => work'[o] = work[o]
        /\ UNCHANGED <<tasks, raced, faulted, racedTickets>>
    BY <1>0, <1>4, <2>1, BusyType DEF CommitTicket, TypeOK, Requests
  <2>3. /\ comments'[k] = [work[th].seen EXCEPT ![b] = @ + 1]
        /\ \A j \in Tickets : j # k => comments'[j] = comments[j]
    BY <1>0, <1>4, <2>1 DEF CommitTicket, TypeOK
  <2>4. ~HasWritten(th) /\ HasWritten(th)'
    BY <1>4, <2>1, <2>2 DEF CommitTicket, HasWritten, WritesTicket
  <2>5. CASE a = b
    <3>1. Recording(a)'
      BY <2>2, <2>4, <2>5 DEF Recording
    <3>2. ~Recording(a)
      BY <1>0, <2>1, <2>2, <2>4, <2>5, PcBusy DEF Recording, Clear, RacesNoticed, TaskAt, HasWritten
    <3>3. k \notin racedTickets
      BY <2>1, <2>2, <2>5 DEF Clear, WritesTicket
    <3>4. work[th].seen = comments[k]
      BY <1>0, <1>4, <3>3 DEF CommentsCurrent, CommitTicket
    <3>5. comments'[TicketOf[a]][a] = comments[TicketOf[a]][a] + 1
      <4> HIDE DEF k, b
      <4> QED
        BY <2>1, <2>3, <2>5, <3>4 DEF k
    <3> QED
      BY <1>0, <2>2, <3>1, <3>2, <3>5
  <2>6. CASE a # b
    <3>1. Recording(a)' <=> Recording(a)
      BY <2>2, <2>4, <2>6 DEF Recording, HasWritten
    <3>2. ASSUME KindOf[a] = "update_ticket"
          PROVE  comments'[TicketOf[a]][a] = comments[TicketOf[a]][a]
      <4>1. CASE TicketOf[a] = k
        <5>1. work[th].seen = comments[k]
          BY <1>0, <1>4, <2>2, <3>2, <4>1 DEF CommentsCurrent, CommitTicket, Clear
        <5> HIDE DEF k, b
        <5> QED
          BY <2>1, <2>3, <2>6, <4>1, <5>1
      <4>2. CASE TicketOf[a] # k
        BY <1>0, <2>3, <4>2
      <4> QED
        BY <4>1, <4>2
    <3>3. CASE Recording(a)
      BY <1>0, <2>2, <3>1, <3>2, <3>3
    <3>4. CASE ~Recording(a)
      BY <1>0, <2>2, <3>1, <3>2, <3>4
    <3> QED
      BY <3>3, <3>4
  <2> QED
    BY <2>5, <2>6
<1>5. ASSUME NEW th \in Threads, ReloadRecord(th) PROVE Kept
  <2>1. Busy(th) /\ WritesTicket(work[th].action, work[th].decision)
    BY <1>0, <1>5, PcBusy DEF ReloadRecord, TicketStepsOnly
  <2>2. /\ work'[th].action = work[th].action /\ work'[th].pc = "commit_record"
        /\ work'[th].decision = work[th].decision
        /\ \A o \in Threads : o # th => work'[o] = work[o]
    BY <1>0, <1>5, <2>1, BusyType DEF ReloadRecord, TypeOK, Requests
  <2>3. HasWritten(th) /\ HasWritten(th)'
    BY <1>5, <2>1, <2>2 DEF ReloadRecord, HasWritten, WritesTicket
  <2>4. Recording(a)' <=> Recording(a)
    BY <2>2, <2>3 DEF Recording, HasWritten
  <2> QED
    BY <1>1, <1>5, <2>4 DEF ReloadRecord
<1>6. ASSUME NEW th \in Threads, CommitRecord(th) PROVE Kept
  <2>1. Busy(th) /\ TaskAt(th) \in Tasks /\ TaskAt(th) # TaskOf[a] /\ work[th].action # a
    BY <1>0, <1>6, PcBusy, BusyType DEF CommitRecord, TaskAt
  <2>2. /\ tasks'[TaskOf[a]] = tasks[TaskOf[a]] /\ comments' = comments
        /\ ~HasWritten(th)' /\ \A o \in Threads : o # th => work'[o] = work[o]
    BY <1>0, <1>6, <2>1 DEF CommitRecord, TypeOK, HasWritten, Idle
  <2>3. Recording(a)' <=> Recording(a)
    BY <2>1, <2>2 DEF Recording, HasWritten
  <2>4. CASE Recording(a)
    BY <1>0, <2>2, <2>3, <2>4
  <2>5. CASE ~Recording(a)
    BY <1>0, <2>2, <2>3, <2>5
  <2> QED
    BY <2>4, <2>5
<1>7. ASSUME NEW th \in Threads, FailRequest(th) PROVE Kept
  <2>1. /\ ~HasWritten(th)' /\ \A o \in Threads : o # th => work'[o] = work[o]
        /\ HasWritten(th) => work[th].action # a
    BY <1>0, <1>7 DEF FailRequest, TypeOK, HasWritten, Idle, Clear
  <2>2. Recording(a)' <=> Recording(a)
    BY <2>1 DEF Recording, HasWritten
  <2> QED
    BY <1>1, <1>7, <2>2 DEF FailRequest
<1>8. ASSUME NEW th \in Threads, NEW b \in Actions, NEW d \in Decisions,
             RefuseResolved(th, b, d)
      PROVE  Kept
  BY <1>1, <1>8 DEF RefuseResolved, Recording, HasWritten
<1> QED
  BY <1>2, <1>3, <1>4, <1>5, <1>6, <1>7, <1>8 DEF Next

\* What the commit of a record does to an unraced task: the request's own approval
\* is decided, the status follows, and no write of the task is left unrecorded.
LEMMA CommitDecides ==
    ASSUME LedgerInv, NEW th \in Threads, CommitRecord(th), TaskAt(th) \notin raced
    PROVE  LET t == TaskAt(th)
               a == work[th].action
               d == work[th].decision
               old == tasks[t]
               new == tasks'[t]
           IN  /\ a \in Actions /\ d \in Decisions /\ t = TaskOf[a] /\ t \in Tasks
               /\ \A u \in Tasks : u # t => tasks'[u] = tasks[u]
               /\ old.state.approvals[a] = "None"
               /\ new.state.approvals = [old.state.approvals EXCEPT ![a] = d]
               /\ new.state.opened = IF d = "approve" THEN old.state.opened \cup ({a} \cap DraftsOf(t))
                                     ELSE old.state.opened
               /\ new.state.final_verdict = old.state.final_verdict
               /\ new.status = IF AllResolved(new.state) THEN FinalStatus(new.state, old.status)
                               ELSE old.status
               /\ \A b \in Actions : Recording(b)' <=> Recording(b) /\ b # a
               /\ Recording(a) <=> KindOf[a] = "update_ticket" /\ d = "approve"
               /\ UNCHANGED <<comments, raced, faulted, racedTickets>>
<1> DEFINE t == TaskAt(th)
           a == work[th].action
           d == work[th].decision
           old == tasks[t]
           s == work[th].state
<1>0. TypeOK /\ StatusInv /\ DecisionInv /\ RacesNoticed /\ CopiesCurrent
  BY DEF LedgerInv, StatusInv, DecisionInv
<1>1. Busy(th) /\ a \in Actions /\ d \in Decisions /\ t = TaskOf[a] /\ t \in Tasks
  BY <1>0, PcBusy, BusyType DEF CommitRecord, TaskAt
<1>2. /\ tasks'[t] = Updated(th) /\ \A u \in Tasks : u # t => tasks'[u] = tasks[u]
      /\ ~HasWritten(th)' /\ \A o \in Threads : o # th => work'[o] = work[o]
      /\ UNCHANGED <<comments, raced, faulted, racedTickets>>
  BY <1>0, <1>1 DEF CommitRecord, TypeOK, HasWritten, Idle
<1>3. old.state \in StateJson(t) /\ s = Resolve(old.state, a, d)
      /\ old.state.approvals[a] = "None"
  BY <1>0, <1>1 DEF CopiesCurrent, TypeOK
<1>4. /\ s.approvals = [old.state.approvals EXCEPT ![a] = d]
      /\ s.opened = IF d = "approve" THEN old.state.opened \cup ({a} \cap DraftsOf(t))
                    ELSE old.state.opened
  <2> HIDE DEF old, a, d, t
  <2> QED
    BY <1>1, <1>3 DEF Resolve, StateJson
<1>5. /\ Updated(th).state.approvals = s.approvals
      /\ Updated(th).state.opened = s.opened
  BY <1>0, <1>1, UpdatedType
<1>6. /\ Updated(th).status = IF AllResolved(s) THEN FinalStatus(s, old.status) ELSE old.status
      /\ Updated(th).state.final_verdict = old.state.final_verdict
      /\ s.final_verdict = old.state.final_verdict
  BY <1>0, <1>1, UpdatedUnraced
<1>7. /\ AllResolved(Updated(th).state) <=> AllResolved(s)
      /\ FinalStatus(Updated(th).state, old.status) = FinalStatus(s, old.status)
  BY <1>5, <1>6 DEF AllResolved, FinalStatus, AnyRejected
<1>8. \A o \in Threads : o # th /\ HasWritten(o) => work[o].action # a
  BY <1>0, <1>1, PcBusy DEF HasWritten, RacesNoticed, TaskAt
<1>9. \A o \in Threads : HasWritten(o)' <=> o # th /\ HasWritten(o)
  BY <1>2 DEF HasWritten
<1>10. ASSUME NEW b \in Actions PROVE Recording(b)' <=> Recording(b) /\ b # a
  BY <1>2, <1>8, <1>9 DEF Recording
<1>11. Recording(a) <=> KindOf[a] = "update_ticket" /\ d = "approve"
  BY <1>8 DEF Recording, HasWritten, WritesTicket, CommitRecord
<1> HIDE DEF s
<1> QED
  BY <1>1, <1>2, <1>3, <1>4, <1>5, <1>6, <1>7, <1>10, <1>11

\* The effects counted so far are those of the performed approvals.
LEMMA WritesExact ==
    LedgerInv => \A a \in Actions :
        Clear(a) /\ TaskOf[a] \notin MultiRepo =>
            WritesDone(a) = IF Performed(a) THEN 1 ELSE 0
<1> SUFFICES ASSUME LedgerInv, NEW a \in Actions, Clear(a), TaskOf[a] \notin MultiRepo
             PROVE  WritesDone(a) = IF Performed(a) THEN 1 ELSE 0
  OBVIOUS
<1>1. CASE KindOf[a] = "prepare_pull_request"
  <2>1. a \in tasks[TaskOf[a]].state.opened <=> Performed(a)
    BY <1>1 DEF LedgerInv, OpenedCounted, Clear
  <2>2. CASE Performed(a)
    <3>1. {a} \cap tasks[TaskOf[a]].state.opened = {a}
      BY <2>1, <2>2
    <3> QED
      BY <1>1, <2>2, <3>1, FS_Singleton DEF WritesDone
  <2>3. CASE ~Performed(a)
    <3>1. {a} \cap tasks[TaskOf[a]].state.opened = {}
      BY <2>1, <2>3
    <3> QED
      BY <1>1, <2>3, <3>1, FS_EmptySet DEF WritesDone
  <2> QED
    BY <2>2, <2>3
<1>2. CASE KindOf[a] = "update_ticket"
  <2>1. comments[TicketOf[a]][a] = (IF Performed(a) THEN 1 ELSE 0) + (IF Recording(a) THEN 1 ELSE 0)
    BY <1>2 DEF LedgerInv, CommentsCounted
  <2>2. WritesDone(a) = comments[TicketOf[a]][a] - (IF Recording(a) THEN 1 ELSE 0)
    BY <1>2 DEF WritesDone
  <2>3. CASE Recording(a)
    BY <2>1, <2>2, <2>3
  <2>4. CASE ~Recording(a)
    BY <2>1, <2>2, <2>4
  <2> QED
    BY <2>3, <2>4
<1> QED
  BY <1>1, <1>2, ApprovalAssumption DEF Kinds

\* Races and faults are remembered, and a row changes only when a request on its
\* task commits.
LEMMA LedgerFrame ==
    ASSUME LedgerInv, [Next]_vars
    PROVE  /\ raced \subseteq raced' /\ racedTickets \subseteq racedTickets'
           /\ faulted \subseteq faulted'
           /\ \A t \in Tasks :
                ~(\E th \in Threads : CommitRecord(th) /\ TaskAt(th) = t) => tasks'[t] = tasks[t]
<1>0. TypeOK
  BY DEF LedgerInv, TicketInv
<1>1. /\ raced \subseteq raced' /\ racedTickets \subseteq racedTickets'
      /\ faulted \subseteq faulted'
  BY DEF Next, vars, RefuseResolved, LoadRecord, ReadTicket, CommitTicket, ReloadRecord,
         CommitRecord, FailRequest
<1>2. tasks' = tasks \/ \E th \in Threads : CommitRecord(th)
  BY DEF Next, vars, RefuseResolved, LoadRecord, ReadTicket, CommitTicket, ReloadRecord,
         FailRequest
<1>3. ASSUME NEW th \in Threads, CommitRecord(th), NEW t \in Tasks, TaskAt(th) # t
      PROVE  tasks'[t] = tasks[t]
  BY <1>0, <1>3 DEF CommitRecord, TypeOK
<1> QED
  BY <1>1, <1>2, <1>3

LEMMA LedgerNext == LedgerInv /\ [Next]_vars => LedgerInv'
<1> SUFFICES ASSUME LedgerInv, [Next]_vars PROVE LedgerInv'
  OBVIOUS
<1>0. StatusInv' /\ TicketStepsOnly' /\ TicketInv' /\ TypeOK
  BY StatusNext, TicketStepsNext, TicketNext DEF LedgerInv, TicketInv
<1>1. CASE UNCHANGED vars
  <2>1. VerdictsKnown' /\ OpenedCounted'
    BY <1>1 DEF LedgerInv, VerdictsKnown, OpenedCounted, Performed, vars
  <2>2. CommentsCounted'
    BY <1>1 DEF LedgerInv, CommentsCounted, Performed, Clear, Recording, HasWritten, vars
  <2> QED
    BY <1>0, <2>1, <2>2 DEF LedgerInv
<1>2. CASE Next
  <2>0. /\ raced \subseteq raced' /\ racedTickets \subseteq racedTickets' /\ faulted \subseteq faulted'
        /\ \A t \in Tasks :
             ~(\E th \in Threads : CommitRecord(th) /\ TaskAt(th) = t) => tasks'[t] = tasks[t]
        /\ \A a \in Actions : Clear(a)' => Clear(a)
    BY LedgerFrame DEF Clear
  <2>1. VerdictsKnown'
    <3> SUFFICES ASSUME NEW t \in Tasks \ (MultiRepo \cup raced')
                 PROVE  tasks'[t].state.final_verdict \in Verdicts
      BY DEF VerdictsKnown
    <3>1. tasks[t].state.final_verdict \in Verdicts
      BY <2>0 DEF LedgerInv, VerdictsKnown
    <3>2. ASSUME NEW th \in Threads, CommitRecord(th), TaskAt(th) = t
          PROVE  tasks'[t].state.final_verdict = tasks[t].state.final_verdict
      BY <2>0, <3>2, CommitDecides
    <3> QED
      BY <2>0, <3>1, <3>2
  <2>2. OpenedCounted'
    <3> SUFFICES ASSUME NEW a \in Actions, TaskOf[a] \notin raced' \cup MultiRepo,
                        KindOf[a] = "prepare_pull_request"
                 PROVE  a \in tasks'[TaskOf[a]].state.opened <=> Performed(a)'
      BY DEF OpenedCounted
    <3> DEFINE t == TaskOf[a]
    <3>1. t \in Tasks /\ t \notin raced /\ (a \in tasks[t].state.opened <=> Performed(a))
          /\ tasks[t].state.approvals \in [ActionsOf(t) -> Resolutions] /\ a \in ActionsOf(t)
      BY <1>0, <2>0, ApprovalAssumption DEF LedgerInv, OpenedCounted, TypeOK, StateJson, ActionsOf
    <3>2. ASSUME NEW th \in Threads, CommitRecord(th), TaskAt(th) = t
          PROVE  a \in tasks'[t].state.opened <=> Performed(a)'
      <4> DEFINE b == work[th].action
                 d == work[th].decision
      <4>1. /\ b \in Actions /\ d \in Decisions /\ t = TaskOf[b]
            /\ tasks'[t].state.approvals = [tasks[t].state.approvals EXCEPT ![b] = d]
            /\ tasks'[t].state.opened = IF d = "approve"
                                          THEN tasks[t].state.opened \cup ({b} \cap DraftsOf(t))
                                          ELSE tasks[t].state.opened
            /\ tasks[t].state.approvals[b] = "None"
        <5>1. TaskAt(th) \notin raced
          BY <3>1, <3>2
        <5> QED
          BY <3>2, <5>1, CommitDecides
      <4>2. a \in DraftsOf(t)
        BY <3>1 DEF DraftsOf
      <4> HIDE DEF b, d
      <4>3. CASE a = b
        BY <3>1, <4>1, <4>2, <4>3 DEF Performed, Decisions
      <4>4. CASE a # b
        BY <3>1, <4>1, <4>4 DEF Performed
      <4> QED
        BY <4>3, <4>4
    <3> QED
      BY <2>0, <3>1, <3>2 DEF Performed
  <2>3. CommentsCounted'
    <3> SUFFICES ASSUME NEW a \in Actions, Clear(a)', KindOf[a] = "update_ticket"
                 PROVE  comments'[TicketOf[a]][a] = (IF Performed(a)' THEN 1 ELSE 0)
                                                    + (IF Recording(a)' THEN 1 ELSE 0)
      BY DEF CommentsCounted
    <3> DEFINE t == TaskOf[a]
               n == comments[TicketOf[a]][a]
    <3>0. Clear(a) /\ n = (IF Performed(a) THEN 1 ELSE 0) + (IF Recording(a) THEN 1 ELSE 0)
      BY <2>0 DEF LedgerInv, CommentsCounted
    <3>1. /\ t \in Tasks /\ t \notin raced /\ n \in Nat
          /\ n = (IF Performed(a) THEN 1 ELSE 0) + (IF Recording(a) THEN 1 ELSE 0)
          /\ tasks[t].state.approvals \in [ActionsOf(t) -> Resolutions] /\ a \in ActionsOf(t)
      <4>1. t \in Tasks /\ a \in ActionsOf(t) /\ TicketOf[a] \in Tickets
        BY ApprovalAssumption DEF ActionsOf
      <4>2. n \in Nat
        BY <1>0, <4>1 DEF TypeOK
      <4>3. tasks[t].state.approvals \in [ActionsOf(t) -> Resolutions]
        BY <1>0, <4>1 DEF TypeOK, StateJson
      <4> QED
        BY <3>0, <4>1, <4>2, <4>3 DEF Clear
    <3>2. CASE ~ \E th \in Threads : CommitRecord(th) /\ TaskAt(th) = t
      <4>1. /\ tasks'[t] = tasks[t]
            /\ comments'[TicketOf[a]][a] = n + (IF Recording(a)' THEN 1 ELSE 0)
                                             - (IF Recording(a) THEN 1 ELSE 0)
        BY <1>2, <3>2, OthersLeaveItAlone
      <4>2. Performed(a)' <=> Performed(a)
        BY <4>1 DEF Performed
      <4> HIDE DEF n
      <4>3. CASE Recording(a)
        BY <3>1, <4>1, <4>2, <4>3
      <4>4. CASE ~Recording(a)
        BY <3>1, <4>1, <4>2, <4>4
      <4> QED
        BY <4>3, <4>4
    <3>3. ASSUME NEW th \in Threads, CommitRecord(th), TaskAt(th) = t
          PROVE  comments'[TicketOf[a]][a] = (IF Performed(a)' THEN 1 ELSE 0)
                                             + (IF Recording(a)' THEN 1 ELSE 0)
      <4> DEFINE b == work[th].action
                 d == work[th].decision
      <4>1. /\ b \in Actions /\ d \in Decisions
            /\ tasks'[t].state.approvals = [tasks[t].state.approvals EXCEPT ![b] = d]
            /\ tasks[t].state.approvals[b] = "None"
            /\ Recording(b) <=> KindOf[b] = "update_ticket" /\ d = "approve"
            /\ Recording(a)' <=> Recording(a) /\ a # b
            /\ comments' = comments
        BY <3>1, <3>3, CommitDecides
      <4> HIDE DEF b, d
      <4>2. CASE a = b
        <5>1. ~Performed(a) /\ ~Recording(a)' /\ (Performed(a)' <=> d = "approve")
              /\ (Recording(a) <=> d = "approve")
          BY <3>1, <4>1, <4>2 DEF Performed, Decisions
        <5> QED
          BY <3>1, <4>1, <5>1
      <4>3. CASE a # b
        <5>1. (Performed(a)' <=> Performed(a)) /\ (Recording(a)' <=> Recording(a))
          BY <3>1, <4>1, <4>3 DEF Performed
        <5> QED
          BY <3>1, <4>1, <5>1
      <4> QED
        BY <4>2, <4>3
    <3> QED
      BY <3>2, <3>3
  <2> QED
    BY <1>0, <2>1, <2>2, <2>3 DEF LedgerInv
<1> QED
  BY <1>1, <1>2

LEMMA LedgerInvInit == Init => LedgerInv
<1> SUFFICES ASSUME Init PROVE LedgerInv
  OBVIOUS
<1>0. /\ StatusInv /\ TypeOK /\ \A th \in Threads : work[th] = Idle
  BY StatusInit, TypeInit DEF Init
<1>1. TicketStepsOnly /\ TicketInv
  BY <1>0 DEF Init, TicketStepsOnly, TicketInv, TicketRacesNoticed, CommentsCurrent,
              WrittenIsThere, AckedWritesStay, HasWritten, Idle
<1>2. PICK auto \in [Tasks -> BOOLEAN], verdict \in [Tasks -> Verdicts] :
        /\ tasks = [t \in Tasks |-> RowOf(t, auto[t], verdict[t])]
        /\ comments = [k \in Tickets |->
                         [a \in Actions |-> IF TicketOf[a] = k THEN Posted(a, auto) ELSE 0]]
  BY DEF Init
<1> USE ApprovalAssumption
<1>3. VerdictsKnown
  BY <1>2 DEF VerdictsKnown, RowOf
<1>4. \A a \in Actions : Performed(a) <=> auto[TaskOf[a]]
  BY <1>2 DEF Performed, RowOf, ActionsOf
<1>5. OpenedCounted
  BY <1>2, <1>4 DEF OpenedCounted, RowOf, DraftsOf, ActionsOf
<1>6. \A a \in Actions : ~Recording(a)
  BY <1>0 DEF Recording, HasWritten, Idle
<1>7. \A a \in Actions : KindOf[a] = "update_ticket" =>
         comments[TicketOf[a]][a] = IF auto[TaskOf[a]] THEN 1 ELSE 0
  BY <1>2 DEF Posted
<1>8. CommentsCounted
  <2> SUFFICES ASSUME NEW a \in Actions, KindOf[a] = "update_ticket"
               PROVE  comments[TicketOf[a]][a] = (IF Performed(a) THEN 1 ELSE 0)
                                                 + (IF Recording(a) THEN 1 ELSE 0)
    BY DEF CommentsCounted
  <2>1. CASE auto[TaskOf[a]]
    BY <1>4, <1>6, <1>7, <2>1
  <2>2. CASE ~auto[TaskOf[a]]
    BY <1>4, <1>6, <1>7, <2>2
  <2> QED
    BY <2>1, <2>2
<1> QED
  BY <1>0, <1>1, <1>3, <1>5, <1>8 DEF LedgerInv

\* A task starts as the ledger does: let through with its writes, or waiting.
LEMMA StartsLikeLedger ==
    ASSUME Init, NEW t \in Tasks \ MultiRepo
    PROVE  LedgerOf(t)!Init
<1>1. PICK auto \in [Tasks -> BOOLEAN], verdict \in [Tasks -> Verdicts] :
        tasks = [u \in Tasks |-> RowOf(u, auto[u], verdict[u])]
  BY DEF Init
<1>2. LedgerInv /\ raced = {} /\ racedTickets = {} /\ faulted = {}
  BY LedgerInvInit DEF Init
<1> USE ApprovalAssumption
<1>3. \A a \in ActionsOf(t) : WritesDone(a) = IF Performed(a) THEN 1 ELSE 0
  BY <1>2, WritesExact DEF Clear, ActionsOf
<1>4. \A a \in ActionsOf(t) : Performed(a) <=> auto[t]
  BY <1>1 DEF Performed, RowOf, ActionsOf
<1>5. CASE auto[t]
  <2>1. [a \in ActionsOf(t) |-> WritesDone(a)] = [a \in ActionsOf(t) |-> 1]
    BY <1>3, <1>4, <1>5
  <2>2. /\ tasks[t].state.final_verdict = verdict[t] /\ tasks[t].status = verdict[t]
        /\ tasks[t].state.approvals = [a \in ActionsOf(t) |-> "auto_approved"]
    BY <1>1, <1>5 DEF RowOf
  <2> QED
    BY <2>1, <2>2 DEF LedgerOf!Init
<1>6. CASE ~auto[t]
  <2>1. [a \in ActionsOf(t) |-> WritesDone(a)] = [a \in ActionsOf(t) |-> 0]
    BY <1>3, <1>4, <1>6
  <2>2. /\ tasks[t].state.final_verdict = verdict[t] /\ tasks[t].status = "APPROVAL_REQUIRED"
        /\ tasks[t].state.approvals = [a \in ActionsOf(t) |-> "None"]
    BY <1>1, <1>6 DEF RowOf
  <2> QED
    BY <2>1, <2>2 DEF LedgerOf!Init
<1> QED
  BY <1>5, <1>6

\* A step leaves the ledger of an undisturbed task alone, or commits one decision.
LEMMA StepsLikeLedger ==
    ASSUME LedgerInv, [Next]_vars, NEW t \in Tasks \ MultiRepo, Undisturbed(t)'
    PROVE  [LedgerOf(t)!Next]_(LedgerOf(t)!vars)
<1> DEFINE dec == tasks[t].state.approvals
           val(x) == IF x \in {"approve", "auto_approved"} THEN 1 ELSE 0
<1>0. LedgerInv' /\ TypeOK /\ TypeOK'
  BY LedgerNext DEF LedgerInv, TicketInv
<1>1. /\ t \notin raced /\ t \notin raced'
      /\ \A a \in ActionsOf(t) : /\ a \in Actions /\ TaskOf[a] = t /\ Clear(a) /\ Clear(a)'
  BY LedgerFrame DEF Undisturbed, ActionsOf, Clear
<1>2. \A a \in ActionsOf(t) : WritesDone(a) = val(dec[a])
  BY <1>1, WritesExact DEF Performed
<1>3. \A a \in ActionsOf(t) : WritesDone(a)' = val(dec'[a])
  <2>1. (LedgerInv => \A a \in Actions :
           Clear(a) /\ TaskOf[a] \notin MultiRepo =>
             WritesDone(a) = IF Performed(a) THEN 1 ELSE 0)'
    BY WritesExact, PTL
  <2> QED
    BY <1>0, <1>1, <2>1 DEF Performed
<1>4. CASE ~ \E th \in Threads : CommitRecord(th) /\ TaskAt(th) = t
  <2>1. tasks'[t] = tasks[t]
    BY <1>4, LedgerFrame
  <2>2. [a \in ActionsOf(t) |-> WritesDone(a)]' = [a \in ActionsOf(t) |-> WritesDone(a)]
    BY <1>2, <1>3, <2>1
  <2> QED
    BY <2>1, <2>2 DEF LedgerOf!vars
<1>5. ASSUME NEW th \in Threads, CommitRecord(th), TaskAt(th) = t
      PROVE  LedgerOf(t)!Next
  <2> DEFINE a == work[th].action
             d == work[th].decision
  <2>1. /\ a \in ActionsOf(t) /\ d \in Decisions
        /\ dec[a] = "None"
        /\ dec' = [dec EXCEPT ![a] = d]
        /\ tasks'[t].state.final_verdict = tasks[t].state.final_verdict
        /\ tasks'[t].status = IF AllResolved(tasks'[t].state)
                              THEN FinalStatus(tasks'[t].state, tasks[t].status)
                              ELSE tasks[t].status
    BY <1>1, <1>5, CommitDecides DEF ActionsOf
  <2>2. dec \in [ActionsOf(t) -> Resolutions] /\ dec' \in [ActionsOf(t) -> Resolutions]
    BY <1>0 DEF TypeOK, StateJson
  <2>3. tasks[t].state.final_verdict # "None"
    BY <1>1 DEF LedgerInv, VerdictsKnown, Verdicts
  <2> HIDE DEF a, d
  <2>4. [b \in ActionsOf(t) |-> WritesDone(b)]' =
          [[b \in ActionsOf(t) |-> WritesDone(b)] EXCEPT ![a] = IF d = "approve" THEN 1 ELSE 0]
    <3>1. dec'[a] = d /\ \A b \in ActionsOf(t) : b # a => dec'[b] = dec[b]
      <4> HIDE DEF dec
      <4> QED
        BY <2>1, <2>2
    <3>2. val(d) = IF d = "approve" THEN 1 ELSE 0
      BY <2>1 DEF Decisions
    <3> HIDE DEF val
    <3>3. \A b \in ActionsOf(t) :
            WritesDone(b)' = IF b = a THEN IF d = "approve" THEN 1 ELSE 0 ELSE WritesDone(b)
      BY <1>2, <1>3, <3>1, <3>2
    <3> QED
      BY <3>3
  <2>5. tasks'[t].status = IF LedgerOf(t)!Decided(dec')
                           THEN LedgerOf(t)!StatusAfter(dec') ELSE tasks[t].status
    BY <2>1, <2>2, <2>3 DEF AllResolved, FinalStatus, AnyRejected,
                            LedgerOf!Decided, LedgerOf!StatusAfter, LedgerOf!Refused
  <2>6. LedgerOf(t)!Decide(a, d)
    BY <2>1, <2>4, <2>5 DEF LedgerOf!Decide
  <2> QED
    BY <2>1, <2>6 DEF LedgerOf!Next, Decisions
<1> QED
  BY <1>4, <1>5

\* Whatever the number of threads, and whatever races or fails elsewhere: each
\* single-repository task implements the ledger, where an approval is decided once
\* and has its external write once, until a race or a fault touches that very task.
THEOREM UndisturbedTasksRefine == Spec => UndisturbedTasksImplementLedger
<1> DEFINE Step == \A t \in Tasks \ MultiRepo :
                     Undisturbed(t)' => [LedgerOf(t)!Next]_(LedgerOf(t)!vars)
<1>1. Init => \A t \in Tasks \ MultiRepo : LedgerOf(t)!Init
  BY StartsLikeLedger
<1>2. LedgerInv /\ [Next]_vars => [Step]_vars
  BY StepsLikeLedger
<1> QED
  BY <1>1, <1>2, LedgerInvInit, LedgerNext, PTL DEF Spec, UndisturbedTasksImplementLedger

----------------------------------------------------------------------------
(* What the overlap of requests and the failure between two commits do, and   *)
(* nothing else does: without them the endpoint keeps what is said of it.     *)

\* A pool of one thread, which takes one request after the other.
OneThread == \A x, y \in Threads : x = y

Serial == raced = {} /\ racedTickets = {}

\* Two requests in flight are what both histories note.
LEMMA SerialNext ==
    ASSUME OneThread, TypeOK, Serial, [Next]_vars
    PROVE  Serial'
<1>1. ASSUME NEW th \in Threads, NEW a \in Actions, NEW d \in Decisions, LoadRecord(th, a, d)
      PROVE  Serial'
  <2>1. ~Busy(th) /\ racedTickets' = racedTickets
    BY <1>1 DEF LoadRecord
  <2>2. ~ \E other \in Threads : Busy(other) /\ TaskAt(other) = TaskOf[a]
    BY <2>1 DEF OneThread
  <2>3. raced' = raced
    BY <1>1, <2>2 DEF LoadRecord
  <2> QED
    BY <2>1, <2>3 DEF Serial
<1>2. ASSUME NEW th \in Threads, ReadTicket(th) PROVE Serial'
  <2>1. work[th].pc = "read_ticket" /\ raced' = raced
    BY <1>2 DEF ReadTicket
  <2>2. ~ \E other \in Threads :
            /\ work[other].pc = "commit_ticket"
            /\ TicketOf[work[other].action] = TicketOf[work[th].action]
    BY <2>1 DEF OneThread
  <2>3. racedTickets' = racedTickets
    BY <1>2, <2>2 DEF ReadTicket
  <2> QED
    BY <2>1, <2>3 DEF Serial
<1>3. CASE UNCHANGED <<raced, racedTickets>>
  BY <1>3 DEF Serial
<1> QED
  BY <1>1, <1>2, <1>3 DEF Next, vars, RefuseResolved, CommitTicket, ReloadRecord, CommitRecord,
                          FailRequest

LEMMA SerialInvariant ==
    ASSUME OneThread
    PROVE  Spec => []Serial
<1>1. Init => Serial
  BY DEF Init, Serial
<1>2. TypeOK /\ Serial /\ [Next]_vars => Serial'
  BY SerialNext
<1> QED
  BY <1>1, <1>2, TypeCorrect, PTL DEF Spec

\* DecisionsStick, of the 409 answer (main.py 263-264): the loss of an answered
\* decision needs two requests in flight at once. With one thread each of them
\* stays, whatever fails, for any number of tasks and requests.
THEOREM SerialDecisionsStick ==
    ASSUME OneThread
    PROVE  Spec => []DecisionsStick
<1>1. Serial /\ UnracedDecisionsStick => DecisionsStick
  BY DEF Serial, UnracedDecisionsStick, DecisionsStick
<1> QED
  BY <1>1, SerialInvariant, DecisionsStickUnlessRaced, PTL

NoneFaulted == faulted = {}

\* A request is noted as failed after its write only where that may happen.
LEMMA UnfaultedInvariant ==
    ASSUME "after_write" \notin Faults
    PROVE  Spec => []NoneFaulted
<1>1. Init => NoneFaulted
  BY DEF Init, NoneFaulted
<1>2. NoneFaulted /\ [Next]_vars => NoneFaulted'
  <2> SUFFICES ASSUME faulted = {}, [Next]_vars PROVE faulted' = {}
    BY DEF NoneFaulted
  <2>1. ASSUME NEW th \in Threads, FailRequest(th) PROVE faulted' = {}
    BY <2>1 DEF FailRequest
  <2> QED
    BY <2>1 DEF Next, vars, RefuseResolved, LoadRecord, ReadTicket, CommitTicket, ReloadRecord,
                CommitRecord
<1> QED
  BY <1>1, <1>2, PTL DEF Spec

\* WritesOnce, of "double-approval correctly rejected" (CLAIMS.md 46): a second
\* comment needs two requests in flight at once, or a failure between the
\* commit of the ticket and that of the record (main.py 280-304).
THEOREM SerialWritesOnce ==
    ASSUME OneThread, "after_write" \notin Faults
    PROVE  Spec => []WritesOnce
<1>1. Serial /\ NoneFaulted /\ UnracedWritesOnce => WritesOnce
  BY DEF Serial, NoneFaulted, UnracedWritesOnce, WritesOnce
<1>2. Spec => []NoneFaulted
  BY UnfaultedInvariant
<1> QED
  BY <1>1, <1>2, SerialInvariant, WritesOnceUnlessRaced, PTL

\* The refinement without its premise on the task: where requests come one after
\* the other and none fails between its two commits, every single-repository
\* task is a behaviour of the ledger, from its first state on.
THEOREM SerialEndpointIsTheLedger ==
    ASSUME OneThread, "after_write" \notin Faults, NEW t \in Tasks \ MultiRepo
    PROVE  Spec => LedgerOf(t)!Init /\ [][LedgerOf(t)!Next]_(LedgerOf(t)!vars)
<1>1. Init => LedgerOf(t)!Init
  BY StartsLikeLedger
<1>2. Serial /\ NoneFaulted => Undisturbed(t)
  BY DEF Serial, NoneFaulted, Undisturbed, Clear, ActionsOf
<1>3. Spec => []NoneFaulted
  BY UnfaultedInvariant
<1>4. LedgerInv /\ [Next]_vars /\ Undisturbed(t)' => [LedgerOf(t)!Next]_(LedgerOf(t)!vars)
  BY StepsLikeLedger
<1> QED
  BY <1>1, <1>2, <1>3, <1>4, SerialInvariant, LedgerInvInit, LedgerNext, PTL
     DEF Spec

----------------------------------------------------------------------------
(* The status follows the approvals.                                         *)

\* A single-repository task waits exactly while one of its approvals is open.
StatusTellsOpen ==
    \A t \in Tasks \ (MultiRepo \cup raced) : ActionsOf(t) # {} =>
        (tasks[t].status = "APPROVAL_REQUIRED" <=> ~AllResolved(tasks[t].state))

LEMMA StatusTellsOpenInit == Init => StatusTellsOpen
<1> SUFFICES ASSUME Init, NEW t \in Tasks \ MultiRepo, ActionsOf(t) # {}
             PROVE  tasks[t].status = "APPROVAL_REQUIRED" <=> ~AllResolved(tasks[t].state)
  BY DEF StatusTellsOpen
<1>1. PICK auto \in [Tasks -> BOOLEAN], verdict \in [Tasks -> Verdicts] :
        tasks = [u \in Tasks |-> RowOf(u, auto[u], verdict[u])]
  BY DEF Init
<1>2. verdict[t] # "APPROVAL_REQUIRED"
  BY DEF Verdicts
<1>3. CASE auto[t]
  BY <1>1, <1>2, <1>3 DEF RowOf, AllResolved
<1>4. CASE ~auto[t]
  BY <1>1, <1>4 DEF RowOf, AllResolved
<1> QED
  BY <1>3, <1>4

LEMMA StatusTellsOpenNext ==
    ASSUME LedgerInv, StatusTellsOpen, [Next]_vars
    PROVE  StatusTellsOpen'
<1> SUFFICES ASSUME NEW t \in Tasks \ (MultiRepo \cup raced'), ActionsOf(t) # {}
             PROVE  tasks'[t].status = "APPROVAL_REQUIRED" <=> ~AllResolved(tasks'[t].state)
  BY DEF StatusTellsOpen
<1>1. t \notin raced /\ TypeOK /\ StatusInv
  BY LedgerFrame DEF LedgerInv, TicketInv
<1>2. tasks[t].status = "APPROVAL_REQUIRED" <=> ~AllResolved(tasks[t].state)
  BY <1>1 DEF StatusTellsOpen
<1>3. CASE ~ \E th \in Threads : CommitRecord(th) /\ TaskAt(th) = t
  BY <1>2, <1>3, LedgerFrame
<1>4. ASSUME NEW th \in Threads, CommitRecord(th), TaskAt(th) = t
      PROVE  tasks'[t].status = "APPROVAL_REQUIRED" <=> ~AllResolved(tasks'[t].state)
  <2>1. Busy(th)
    BY <1>1, <1>4, PcBusy DEF CommitRecord
  <2>2. tasks'[t] = Updated(th)
    BY <1>1, <1>4 DEF CommitRecord, TypeOK
  <2> DEFINE s == work[th].state
             row == tasks[t]
  <2>3. /\ Updated(th).status = IF AllResolved(s) THEN FinalStatus(s, row.status) ELSE row.status
        /\ s.final_verdict = row.state.final_verdict
    BY <1>1, <1>4, <2>1, UpdatedUnraced
  <2>4. Updated(th).state.approvals = s.approvals
    BY <1>1, <2>1, UpdatedType
  <2>5. AllResolved(Updated(th).state) <=> AllResolved(s)
    BY <2>4 DEF AllResolved
  <2>6. row.state.final_verdict \in Verdicts
    BY <1>1 DEF LedgerInv, VerdictsKnown
  <2>7. FinalStatus(s, row.status) # "APPROVAL_REQUIRED"
    BY <2>3, <2>6 DEF FinalStatus, Verdicts
  <2>8. ~AllResolved(row.state)
    <3>1. /\ work[th].action \in ActionsOf(t)
          /\ row.state.approvals[work[th].action] = "None"
      BY <1>1, <1>4, <2>1, BusyType DEF StatusInv, DecisionInv, CopiesCurrent, TaskAt, ActionsOf
    <3>2. DOMAIN row.state.approvals = ActionsOf(t)
      BY <1>1 DEF TypeOK, StateJson
    <3> QED
      BY <3>1, <3>2 DEF AllResolved
  <2> QED
    BY <1>2, <2>2, <2>3, <2>5, <2>7, <2>8
<1> QED
  BY <1>3, <1>4

\* "if every approval is now resolved, the task's overall status can move past
\* APPROVAL_REQUIRED" (main.py 294): on a task of one repository whose requests
\* never overlapped it does, with the last decision and not before, whatever
\* requests failed on the way.
THEOREM StatusesFollowApprovals == Spec => []StatusTellsOpen
BY StatusTellsOpenInit, StatusTellsOpenNext, LedgerInvInit, LedgerNext, PTL DEF Spec

\* A multi-repository task has no final_verdict: it waits, unless an approval was
\* rejected or the gate asked for none.
MultiRepoWaits ==
    \A t \in MultiRepo \ raced :
        /\ tasks[t].state.final_verdict = "None"
        /\ \/ tasks[t].status = "APPROVAL_REQUIRED"
           \/ AnyRejected(tasks[t].state)
           \/ \A a \in ActionsOf(t) : tasks[t].state.approvals[a] = "auto_approved"

LEMMA MultiRepoWaitsInit == Init => MultiRepoWaits
<1> SUFFICES ASSUME Init, NEW t \in MultiRepo
             PROVE  /\ tasks[t].state.final_verdict = "None"
                    /\ \/ tasks[t].status = "APPROVAL_REQUIRED"
                       \/ \A a \in ActionsOf(t) : tasks[t].state.approvals[a] = "auto_approved"
  BY DEF MultiRepoWaits
<1>1. PICK auto \in [Tasks -> BOOLEAN], verdict \in [Tasks -> Verdicts] :
        tasks = [u \in Tasks |-> RowOf(u, auto[u], verdict[u])]
  BY DEF Init
<1>2. t \in Tasks
  BY ApprovalAssumption
<1>3. CASE auto[t]
  BY <1>1, <1>2, <1>3 DEF RowOf
<1>4. CASE ~auto[t]
  BY <1>1, <1>2, <1>4 DEF RowOf
<1> QED
  BY <1>3, <1>4

LEMMA MultiRepoWaitsNext ==
    ASSUME LedgerInv, MultiRepoWaits, [Next]_vars
    PROVE  MultiRepoWaits'
<1> DEFINE Waits(row, t) ==
        /\ row.state.final_verdict = "None"
        /\ \/ row.status = "APPROVAL_REQUIRED"
           \/ AnyRejected(row.state)
           \/ \A a \in ActionsOf(t) : row.state.approvals[a] = "auto_approved"
<1> SUFFICES ASSUME NEW t \in MultiRepo, t \notin raced'
             PROVE  Waits(tasks'[t], t)
  BY DEF MultiRepoWaits, AnyRejected
<1>1. t \in Tasks /\ t \notin raced /\ TypeOK /\ StatusInv
  BY LedgerFrame, ApprovalAssumption DEF LedgerInv, TicketInv
<1>2. Waits(tasks[t], t)
  BY <1>1 DEF MultiRepoWaits
<1>3. CASE ~ \E th \in Threads : CommitRecord(th) /\ TaskAt(th) = t
  <2>1. tasks'[t] = tasks[t]
    BY <1>1, <1>3, LedgerFrame
  <2> QED
    BY <1>2, <2>1
<1>4. ASSUME NEW th \in Threads, CommitRecord(th), TaskAt(th) = t
      PROVE  Waits(tasks'[t], t)
  <2> DEFINE s == work[th].state
             row == tasks[t]
             a == work[th].action
  <2>1. Busy(th)
    BY <1>1, <1>4, PcBusy DEF CommitRecord
  <2>2. tasks'[t] = Updated(th)
    BY <1>1, <1>4 DEF CommitRecord, TypeOK
  <2>3. /\ Updated(th).status = IF AllResolved(s) THEN FinalStatus(s, row.status) ELSE row.status
        /\ s.final_verdict = row.state.final_verdict
        /\ Updated(th).state.final_verdict = row.state.final_verdict
        /\ Updated(th).state.approvals = s.approvals
    BY <1>1, <1>4, <2>1, UpdatedUnraced, UpdatedType
  <2>4. AnyRejected(Updated(th).state) <=> AnyRejected(s)
    BY <2>3 DEF AnyRejected
  <2>5. /\ a \in Actions /\ TaskOf[a] = t /\ work[th].decision \in Decisions
        /\ row.state.approvals[a] = "None" /\ row.state \in StateJson(TaskOf[a])
        /\ s = Resolve(row.state, a, work[th].decision)
    BY <1>1, <1>4, <2>1, BusyType DEF StatusInv, DecisionInv, CopiesCurrent, TaskAt, TypeOK
  <2>6. a \in ActionsOf(t)
    BY <2>5 DEF ActionsOf
  <2>7. AnyRejected(row.state) => AnyRejected(s)
    <3> SUFFICES ASSUME NEW b \in DOMAIN row.state.approvals,
                        row.state.approvals[b] = "reject"
                 PROVE  AnyRejected(s)
      BY DEF AnyRejected
    <3>1. DOMAIN row.state.approvals = ActionsOf(t)
      BY <2>5 DEF StateJson
    <3>2. b # a /\ b \in Actions /\ TaskOf[b] = TaskOf[a]
      BY <2>5, <3>1 DEF ActionsOf
    <3>3. DOMAIN s.approvals = ActionsOf(t) /\ s.approvals[b] = "reject"
      BY <2>5, <3>1, <3>2 DEF Resolve
    <3> QED
      BY <3>1, <3>3 DEF AnyRejected
  <2>8. row.status = "APPROVAL_REQUIRED" \/ AnyRejected(s)
    BY <1>2, <2>5, <2>6, <2>7
  <2>9. Updated(th).status = "APPROVAL_REQUIRED" \/ AnyRejected(s)
    BY <1>2, <2>3, <2>8 DEF FinalStatus
  <2> QED
    BY <1>2, <2>2, <2>3, <2>4, <2>9
<1> QED
  BY <1>3, <1>4

\* Where the status "can move past APPROVAL_REQUIRED" (main.py 294) it does not:
\* with every approval of a multi-repository task resolved, one of them by a
\* client and none rejected, the task still waits.
ApprovedMultiRepoWaits ==
    \A t \in MultiRepo \ raced :
        /\ AllResolved(tasks[t].state) /\ ~AnyRejected(tasks[t].state)
        /\ \E a \in ActionsOf(t) : tasks[t].state.approvals[a] = "approve"
        => tasks[t].status = "APPROVAL_REQUIRED"

\* The rest of main.py 294: a multi-repository task whose last approval is given
\* keeps waiting, always, and not only in the case that a run shows.
THEOREM ApprovedMultiReposStay == Spec => []ApprovedMultiRepoWaits
<1>1. MultiRepoWaits => ApprovedMultiRepoWaits
  BY DEF MultiRepoWaits, ApprovedMultiRepoWaits
<1> QED
  BY <1>1, MultiRepoWaitsInit, MultiRepoWaitsNext, LedgerInvInit, LedgerNext, PTL DEF Spec

----------------------------------------------------------------------------
(* Recorded decisions are decisions that somebody made.                      *)

\* The decisions in a row, and those in the copy that a request will write over
\* it, were sent by a client for that very approval.
RecordedWereSent ==
    \A a \in Actions :
        /\ tasks[TaskOf[a]].state.approvals[a] \in Decisions =>
              <<a, tasks[TaskOf[a]].state.approvals[a]>> \in asked
        /\ \A th \in Threads :
              /\ Busy(th) /\ TaskAt(th) = TaskOf[a]
              /\ work[th].state.approvals[a] \in Decisions
              => <<a, work[th].state.approvals[a]>> \in asked

LEMMA RecordedWereSentNext ==
    ASSUME TypeOK, RecordedWereSent, [Next]_vars
    PROVE  RecordedWereSent'
<1> USE ApprovalAssumption
<1>0. TypeOK' /\ asked \subseteq asked'
  BY TypeNext DEF Next, vars, RefuseResolved, LoadRecord, Send, ReadTicket, CommitTicket,
                  ReloadRecord, CommitRecord, FailRequest
<1>1. ASSUME tasks' = tasks,
             \A o \in Threads : Busy(o)' => /\ Busy(o)
                                            /\ work'[o].action = work[o].action
                                            /\ work'[o].state = work[o].state
      PROVE  RecordedWereSent'
  BY <1>0, <1>1 DEF RecordedWereSent, TaskAt
<1>2. ASSUME NEW th \in Threads, NEW a \in Actions, NEW d \in Decisions,
             LoadRecord(th, a, d)
      PROVE  RecordedWereSent'
  <2> DEFINE s == tasks[TaskOf[a]].state
  <2>1. /\ work'[th].action = a /\ work'[th].state = Resolve(s, a, d)
        /\ \A o \in Threads : o # th => work'[o] = work[o]
        /\ tasks' = tasks /\ <<a, d>> \in asked'
        /\ s \in StateJson(TaskOf[a])
    BY <1>0, <1>2 DEF LoadRecord, Send, TypeOK
  <2>2. /\ Resolve(s, a, d).approvals[a] = d
        /\ \A b \in Actions : b # a /\ TaskOf[b] = TaskOf[a] =>
              Resolve(s, a, d).approvals[b] = s.approvals[b]
    <3> HIDE DEF s
    <3> QED
      BY <2>1, ResolveApprovals
  <2> SUFFICES ASSUME NEW b \in Actions, NEW o \in Threads, Busy(o)', TaskAt(o)' = TaskOf[b],
                      work'[o].state.approvals[b] \in Decisions
               PROVE  <<b, work'[o].state.approvals[b]>> \in asked'
    BY <1>0, <2>1 DEF RecordedWereSent
  <2>3. CASE o = th
    BY <1>0, <2>1, <2>2, <2>3 DEF RecordedWereSent, TaskAt
  <2>4. CASE o # th
    BY <1>0, <2>1, <2>4 DEF RecordedWereSent, TaskAt, Busy
  <2> QED
    BY <2>3, <2>4
<1>3. ASSUME NEW th \in Threads, CommitRecord(th)
      PROVE  RecordedWereSent'
  <2> DEFINE t == TaskAt(th)
  <2>1. Busy(th) /\ t \in Tasks
    BY <1>3, PcBusy, BusyType DEF CommitRecord
  <2>2. /\ tasks'[t].state.approvals = work[th].state.approvals
        /\ \A u \in Tasks : u # t => tasks'[u] = tasks[u]
        /\ ~Busy(th)' /\ \A o \in Threads : o # th => work'[o] = work[o]
    BY <1>3, <2>1, UpdatedType DEF CommitRecord, TypeOK, Busy
  <2>3. ASSUME NEW b \in Actions, tasks'[TaskOf[b]].state.approvals[b] \in Decisions
        PROVE  <<b, tasks'[TaskOf[b]].state.approvals[b]>> \in asked'
    <3>1. CASE TaskOf[b] = t
      BY <1>0, <2>1, <2>2, <2>3, <3>1 DEF RecordedWereSent
    <3>2. CASE TaskOf[b] # t
      <4>1. tasks'[TaskOf[b]] = tasks[TaskOf[b]]
        BY <2>2, <3>2
      <4> QED
        BY <1>0, <2>3, <4>1 DEF RecordedWereSent
    <3> QED
      BY <3>1, <3>2
  <2>4. ASSUME NEW b \in Actions, NEW o \in Threads, Busy(o)', TaskAt(o)' = TaskOf[b],
               work'[o].state.approvals[b] \in Decisions
        PROVE  <<b, work'[o].state.approvals[b]>> \in asked'
    <3>1. o # th /\ work'[o] = work[o] /\ Busy(o) /\ TaskAt(o)' = TaskAt(o)
      BY <2>2, <2>4 DEF Busy, TaskAt
    <3> QED
      BY <1>0, <2>4, <3>1 DEF RecordedWereSent
  <2> QED
    BY <2>3, <2>4 DEF RecordedWereSent
<1>4. ASSUME NEW th \in Threads, ReadTicket(th) \/ CommitTicket(th) \/ ReloadRecord(th)
      PROVE  RecordedWereSent'
  BY <1>1, <1>4, InFlightSteps DEF ReadTicket, CommitTicket, ReloadRecord
<1>5. ASSUME NEW th \in Threads, FailRequest(th)
      PROVE  RecordedWereSent'
  BY <1>1, <1>5 DEF FailRequest, TypeOK, Busy
<1>6. CASE tasks' = tasks /\ work' = work
  BY <1>1, <1>6 DEF Busy
<1> QED
  BY <1>2, <1>3, <1>4, <1>5, <1>6 DEF Next, RefuseResolved, vars

\* The resolutions that resolve_approval writes (main.py 254-304): whichever
\* copies of a blob overwrite each other, and whatever fails, no approval is
\* recorded as approved or rejected unless a client said so of that approval.
THEOREM RecordedDecisionsWereSent == Spec => []RecordedWereSent
<1>1. Init => RecordedWereSent
  <2> SUFFICES ASSUME Init PROVE RecordedWereSent
    OBVIOUS
  <2>1. PICK auto \in [Tasks -> BOOLEAN], verdict \in [Tasks -> Verdicts] :
          tasks = [t \in Tasks |-> RowOf(t, auto[t], verdict[t])]
    BY DEF Init
  <2>2. \A a \in Actions : tasks[TaskOf[a]].state.approvals[a] \notin Decisions
    BY <2>1, ApprovalAssumption DEF RowOf, ActionsOf, Decisions
  <2>3. \A th \in Threads : ~Busy(th)
    BY DEF Init, Busy
  <2> QED
    BY <2>2, <2>3 DEF RecordedWereSent
<1>2. TypeOK /\ RecordedWereSent /\ [Next]_vars => RecordedWereSent'
  BY RecordedWereSentNext
<1> QED
  BY <1>1, <1>2, TypeCorrect, PTL DEF Spec

=============================================================================
