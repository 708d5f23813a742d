\* Starts do not overlap; processes are killed anywhere; by-hand and
\* supervised loops may run in shells that differ in BASHPID.
SPECIFICATION FairASpec
CONSTANTS
    Loops = {l1, l2}
    Tasks = {t1, t2, t3}
    Overlap = FALSE
    BashPid = {FALSE, TRUE}
    MaxEvents = 3
INVARIANTS
    ATypeOK
    OneLoop
    OneHeavy
    OneLogMaintainer
PROPERTIES
    LoopKeptAlive
