-------------------------- MODULE MC_PendingWorker --------------------------
(* Instances of PendingWorker for TLC.                                     *)
EXTENDS PendingWorker, TLC

CONSTANTS i1, i2

ok(i) == [id |-> i, valid |-> TRUE, dry |-> TRUE]
live(i) == [id |-> i, valid |-> TRUE, dry |-> FALSE]
bad(i) == [id |-> i, valid |-> FALSE, dry |-> TRUE]

\* A repeated intent; an invalid one before a live one, with an intent past the
\* limit; and an invalid one that shares its id with a good one.
RaceFiles == {<<ok(i1), ok(i1)>>, <<bad(i2), live(i1), ok(i2)>>, <<bad(i1), ok(i1)>>}

\* One intent, as the repository's test writes it.
TestFiles == {<<ok(i1)>>}

Symmetry == Permutations(Procs)
=============================================================================
