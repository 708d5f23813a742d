\* Two overlapping processes that send reports of this and of past hours.
SPECIFICATION GSpec
CONSTANTS
    Events = {e1, e2}
    Scheduled = {}
    Procs = {p1, p2}
    MaxEvents = 1
    QueueTail = 1
    LedgerTail = 3
    CheckTail = 3
    MaxSends = 1
    MaxQueue = 1
SYMMETRY Symmetry
INVARIANTS
    GTypeOK
    ReceiptsReal
    DuplicatesBounded
    FreshRateBounded
