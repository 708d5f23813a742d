\* One run after the other over an unchanged file with one intent.
SPECIFICATION WSpec
CONSTANTS
    i1 = i1
    i2 = i2
    Intents = {i1}
    Procs = {p1}
    Files <- TestFiles
    MaxIntents = 20
    Copies = 1
    MaxRows = 3
    MaxMisreads = 0
INVARIANTS
    AcceptedOnce
