\* A dispatch and a run of the same ticket, retried, on a server that restarts.
SPECIFICATION Spec
CONSTANTS
    c1 = c1
    c2 = c2
    r1 = r1
    e1 = e1
    x1 = x1
    NoEvent = NoEvent
    NoTicket = NoTicket
    Clicks = {c1, r1}
    Events = {e1}
    Tickets = {x1}
    EventOf <- MCEventOf
    TicketOf <- MCTicketOf
    Retries = 1
    MaxCrashes = 1
INVARIANTS
    TypeOK
    MarkedIffRecorded
    CommentsRecorded
    RepliesTrue
    UnracedDispatchedOnce
PROPERTIES
    ClicksEnd
    JobsEnd
CHECK_DEADLOCK FALSE
