\* Two starts overlap.
SPECIFICATION ASpec
CONSTANTS
    Loops = {l1, l2}
    Tasks = {t1}
    Overlap = TRUE
    BashPid = {FALSE}
    MaxEvents = 2
INVARIANTS
    OneLoop
