\* Two decisions on one task, resolved at the same time: the later commit drops the other.
SPECIFICATION Spec
CONSTANTS
    t1 = t1
    t2 = t2
    tm = tm
    p1 = p1
    k1 = k1
    p2 = p2
    k2 = k2
    m1 = m1
    x1 = x1
    th1 = th1
    th2 = th2
    Threads = {th1, th2}
    Tasks = {t1}
    MultiRepo = {}
    Actions = {p1, k1}
    Tickets = {x1}
    TaskOf <- MCTaskOf
    KindOf <- MCKindOf
    TicketOf <- MCTicketOf
    Faults = {}
    MaxRequests = 2
INVARIANT
    DecisionsStick
CHECK_DEADLOCK FALSE
