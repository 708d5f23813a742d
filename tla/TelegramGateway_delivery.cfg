\* Two runs of the loop's run-once and two scheduled reports; an hour takes one.
SPECIFICATION DeliverySpec
CONSTANTS
    Events = {e1, e2}
    Scheduled = {e1, e2}
    Procs = {p1, p2}
    MaxEvents = 1
    QueueTail = 3
    LedgerTail = 2
    CheckTail = 2
    MaxSends = 1
    MaxQueue = 3
INVARIANTS
    QueueNearlyUnique
PROPERTIES
    QueuedIsDelivered
