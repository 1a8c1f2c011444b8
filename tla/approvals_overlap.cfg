\* Two threads, failures at both moments: what holds in every interleaving.
SPECIFICATION Spec
CONSTANTS
    t1 = t1
    t2 = t2
    tm = tm
    p1 = p1
    k1 = k1
    p2 = p2
    k2 = k2
    m1 = m1
    x1 = x1
    th1 = th1
    th2 = th2
    Threads = {th1, th2}
    Tasks = {t1, t2, tm}
    MultiRepo = {tm}
    Actions = {p1, k1, k2, p2, m1}
    Tickets = {x1}
    TaskOf <- MCTaskOf
    KindOf <- MCKindOf
    TicketOf <- MCTicketOf
    Faults = {"before_write", "after_write"}
    MaxRequests = 3
INVARIANTS
    TypeOK
    EffectsApproved
    UnracedDecisionsStick
    UnracedWritesOnce
    AckedWritesStay
    UnracedStatusesAgree
PROPERTIES
    StatusNeverReopens
    UndisturbedTasksImplementLedger
SYMMETRY ThreadSymmetry
CHECK_DEADLOCK FALSE
