\* One gateway process; the queue holds events of an earlier hour.
SPECIFICATION CalmSpec
CONSTANTS
    Events = {e1, e2, e3}
    Scheduled = {e1, e2, e3}
    Procs = {p1}
    MaxEvents = 2
    QueueTail = 3
    LedgerTail = 6
    CheckTail = 4
    MaxSends = 4
    MaxQueue = 3
INVARIANTS
    HourlyRateLimit
