\* A multi-repository task with its only approval resolved.
SPECIFICATION Spec
CONSTANTS
    t1 = t1
    t2 = t2
    tm = tm
    p1 = p1
    k1 = k1
    p2 = p2
    k2 = k2
    m1 = m1
    x1 = x1
    th1 = th1
    th2 = th2
    Threads = {th1}
    Tasks = {tm}
    MultiRepo = {tm}
    Actions = {m1}
    Tickets = {x1}
    TaskOf <- MCTaskOf
    KindOf <- MCKindOf
    TicketOf <- MCTicketOf
    Faults = {}
    MaxRequests = 2
INVARIANT
    ResolvedTaskMovesOn
CHECK_DEADLOCK FALSE
