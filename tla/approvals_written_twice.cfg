\* One thread that fails between the commit of the ticket and that of the record.
SPECIFICATION Spec
CONSTANTS
    t1 = t1
    t2 = t2
    tm = tm
    p1 = p1
    k1 = k1
    p2 = p2
    k2 = k2
    m1 = m1
    x1 = x1
    th1 = th1
    th2 = th2
    Threads = {th1}
    Tasks = {t1}
    MultiRepo = {}
    Actions = {p1, k1}
    Tickets = {x1}
    TaskOf <- MCTaskOf
    KindOf <- MCKindOf
    TicketOf <- MCTicketOf
    Faults = {"after_write"}
    MaxRequests = 2
INVARIANT
    WritesOnce
CHECK_DEADLOCK FALSE
