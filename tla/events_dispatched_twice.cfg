\* One click on DISPATCH with its two retries.
SPECIFICATION Spec
CONSTANTS
    c1 = c1
    c2 = c2
    r1 = r1
    e1 = e1
    x1 = x1
    NoEvent = NoEvent
    NoTicket = NoTicket
    Clicks = {c1}
    Events = {e1}
    Tickets = {x1}
    EventOf <- MCEventOf
    TicketOf <- MCTicketOf
    Retries = 2
    MaxCrashes = 0
INVARIANT
    DispatchedOnce
CHECK_DEADLOCK FALSE
