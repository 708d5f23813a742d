\* One run, interrupted after it has cut the ledger.
SPECIFICATION LSpec
CONSTANTS
    Procs = {m1}
    Scheduled = {m1}
    MaxActive = 1
    KeepLines = 2
    MaxArchive = 3
    CutMayFail = TRUE
    Quotas <- RunQuotas
    MaxFaults = 1
    MaxByHand = 0
INVARIANTS
    NothingLost
