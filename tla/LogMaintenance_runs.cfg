\* Two runs that may overlap, and one fault.
SPECIFICATION FairLSpec
CONSTANTS
    Procs = {m1, m2}
    Scheduled = {m1}
    MaxActive = 1
    KeepLines = 2
    MaxArchive = 3
    CutMayFail = FALSE
    Quotas <- RunQuotas
    MaxFaults = 1
    MaxByHand = 1
INVARIANTS
    LTypeOK
    NothingLost
    LegacyKept
    NoHoles
    OldestGoFirst
PROPERTIES
    StaysSmall
