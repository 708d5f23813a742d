\* Two overlapping runs over changing files.
SPECIFICATION WSpec
CONSTANTS
    i1 = i1
    i2 = i2
    Intents = {i1, i2}
    Procs = {p1, p2}
    Files <- RaceFiles
    MaxIntents = 2
    Copies = 2
    MaxRows = 7
    MaxMisreads = 1
SYMMETRY Symmetry
INVARIANTS
    WTypeOK
    AcceptanceBacked
    StreakBounded
    OutputBacked
