\* One order, two processes that compete for it and for the write lock.
SPECIFICATION FairSpec
CONSTANTS
    Orders = {o1}
    Procs = {p1, p2}
    Nobody = Nobody
    Priorities = {5}
    Stamps = {1}
    MaxAttempts = 1
    MaxBatch = 1
    MaxLedger = 4
INVARIANTS
    TypeOK
    IndInv
    NoStrandedOrder
    AttemptsMatchAudit
    AttemptsBounded
    EvidenceChain
    SimulatedHasNoTicket
PROPERTIES
    ClosedStaysClosed
    CallsTerminate
    ImplementsContract
