-------------------------- MODULE LogArchiveProofs --------------------------
(***************************************************************************)
(* Proofs about LogMaintenance: its types, that a compaction leaves no     *)
(* hole in the ledger, that a legacy archive survives its move, and that   *)
(* the oldest lines are deleted first.  Unlike the proof that no line is   *)
(* lost they need no assumption about exceptions after the cut; the last   *)
(* two are about runs that do not overlap.                                 *)
(***************************************************************************)
EXTENDS LogMaintenanceProofs, FiniteSetTheorems

TaskNames == Files \cup {"none", "logdir", "ledgerdir"}

StageNames == {"list", "drop", "target", "open", "copy", "check", "cut", "tail",
               "expire", "prune"}

\* Where a run about t can be.
Fits(t, s) ==
    /\ t = "none" => s = "list"
    /\ s \in {"drop", "target"} => t = "legacy"
    /\ s \in {"open", "copy", "check", "cut"} => t \in Files
    /\ s = "tail" => t \in Active
    /\ s \in {"expire", "prune"} => t \in {"logdir", "ledgerdir"}

Tasks == \A p \in Procs : Fits(task[p], stage[p])

\* What a run notes apart from the files and archives.
AsideOK ==
    /\ clash \subseteq Procs
    /\ sweep \in [Procs -> SUBSET Nat]
    /\ lockLeft \in BOOLEAN
    /\ byHand \in 0..MaxByHand
    /\ \A p \in Procs : IsFiniteSet(sweep[p])

\* The inductive invariant: after the last archive there is always a next one.
TInv == LTypeOK /\ Tasks /\ AsideOK /\ IsFiniteSet(archives)
-----------------------------------------------------------------------------
(* Archives: the newest, and what becomes of one.                          *)

LEMMA GreatestIn ==
    ASSUME NEW S \in SUBSET Nat, IsFiniteSet(S), S # {}
    PROVE  Max(S) \in S /\ \A y \in S : Max(S) >= y
<1> DEFINE From(x) == {y \in S : y >= x}
           Froms == {From(x) : x \in S}
<1>1. Froms \subseteq SUBSET S /\ Froms # {}
  OBVIOUS
<1>2. IsWellFoundedOn(StrictSubsetOrdering(S), SUBSET S)
  BY FS_StrictSubsetOrderingWellFounded, FS_FiniteSubsetsOfFinite
<1>3. PICK F \in Froms :
        \A G \in Froms : <<G, F>> \notin StrictSubsetOrdering(S)
  <2> HIDE DEF Froms
  <2> QED
    BY <1>1, <1>2, WFMin
<1>4. PICK x \in S : F = From(x)
  BY <1>3
<1>5. \A y \in S : x >= y
  <2> SUFFICES ASSUME NEW y \in S, ~(x >= y) PROVE FALSE
    OBVIOUS
  <2>1. x \in Nat /\ y \in Nat /\ y > x
    OBVIOUS
  <2>2. From(y) \subseteq From(x)
    <3> SUFFICES ASSUME NEW z \in S, z >= y PROVE z >= x
      OBVIOUS
    <3>1. z \in Nat
      OBVIOUS
    <3> QED
      BY <2>1, <3>1
  <2>3. x \in From(x) /\ x \notin From(y)
    BY <2>1
  <2>4. <<From(y), From(x)>> \in StrictSubsetOrdering(S)
    BY <2>2, <2>3 DEF StrictSubsetOrdering
  <2>5. From(y) \in Froms
    OBVIOUS
  <2> QED
    BY <1>3, <1>4, <2>4, <2>5
<1> QED
  BY <1>5 DEF Max

LEMMA FiniteImage ==
    ASSUME NEW S, IsFiniteSet(S), NEW T, NEW f \in [S -> T],
           \A t \in T : \E s \in S : f[s] = t
    PROVE  IsFiniteSet(T)
<1>1. f \in Surjection(S, T)
  BY DEF Surjection
<1> QED
  BY <1>1, FS_Surjection

LEMMA NewestBounds ==
    ASSUME archives \subseteq Archive, IsFiniteSet(archives), AsideOK
    PROVE  Newest \in Nat /\ \A a \in archives : a.at \in Nat /\ a.at <= Newest
<1> DEFINE Times == {a.at : a \in archives}
           Sweeps == {sweep[p] : p \in Procs}
           Swept == UNION Sweeps
           All == {0} \cup Times \cup Swept
<1>1. \A a \in archives : a.at \in Nat
  BY DEF Archive
<1>2. PICK f : f = [a \in archives |-> a.at]
  OBVIOUS
<1>3. /\ f \in [archives -> Times]
      /\ \A t \in Times : \E a \in archives : f[a] = t
  BY <1>2
<1>4. IsFiniteSet(Times)
  <2> HIDE DEF Times
  <2> QED
    BY <1>3, FiniteImage
<1>5. IsFiniteSet(Swept)
  <2>1. /\ sweep \in [Procs -> Sweeps]
        /\ \A T \in Sweeps : \E p \in Procs : sweep[p] = T
    BY DEF AsideOK
  <2>2. \A T \in Sweeps : IsFiniteSet(T)
    BY DEF AsideOK
  <2> HIDE DEF Sweeps
  <2>3. IsFiniteSet(Sweeps)
    BY <2>1, FiniteImage, RunsAreFinite
  <2> QED
    BY <2>2, <2>3, FS_UNION
<1>6. IsFiniteSet(All)
  <2> HIDE DEF Times, Swept
  <2>1. IsFiniteSet({0} \cup Times)
    BY <1>4, FS_Singleton, FS_Union
  <2> QED
    BY <1>5, <2>1, FS_Union
<1>7. All \in SUBSET Nat /\ All # {}
  <2>1. \A t \in Swept : t \in Nat
    BY DEF AsideOK
  <2>2. \A t \in Times : t \in Nat
    BY <1>1
  <2> HIDE DEF Times, Swept
  <2> QED
    BY <2>1, <2>2
<1>8. \A a \in archives : a.at \in All
  OBVIOUS
<1>9. Newest = Max(All)
  BY DEF Newest
<1> HIDE DEF All
<1>10. Newest \in Nat /\ \A t \in All : Newest >= t
  BY <1>6, <1>7, <1>9, GreatestIn
<1>11. \A x, y \in Nat : x >= y => y <= x
  OBVIOUS
<1> QED
  BY <1>1, <1>8, <1>10, <1>11

\* Retention passes for an archive; its run settles it.
Aged(a) == [a EXCEPT !.old = TRUE]

Settle(a, p) == IF a.by = p THEN [a EXCEPT !.by = Nobody] ELSE a

LEMMA ArchiveFields ==
    ASSUME NEW a \in Archive
    PROVE  /\ a = [of |-> a.of, lines |-> a.lines, done |-> a.done,
                   old |-> a.old, by |-> a.by, at |-> a.at]
           /\ a.of \in Files /\ a.lines \in SUBSET Lines
           /\ a.done \in BOOLEAN /\ a.old \in BOOLEAN
           /\ a.by \in Procs \cup {Nobody} /\ a.at \in Nat
  BY DEF Archive

LEMMA AgedType ==
    ASSUME NEW a \in Archive
    PROVE  /\ Aged(a) \in Archive
           /\ Aged(a).of = a.of /\ Aged(a).lines = a.lines
           /\ Aged(a).done = a.done /\ Aged(a).by = a.by
           /\ Aged(a).at = a.at /\ Aged(a).old
<1>1. PICK b : b = Aged(a)
  OBVIOUS
<1>0. a = [of |-> a.of, lines |-> a.lines, done |-> a.done,
           old |-> a.old, by |-> a.by, at |-> a.at]
  BY ArchiveFields
<1>2. b = [of |-> a.of, lines |-> a.lines, done |-> a.done, old |-> TRUE,
           by |-> a.by, at |-> a.at]
  BY <1>0, <1>1 DEF Aged
<1>3. /\ b.of = a.of /\ b.lines = a.lines /\ b.done = a.done /\ b.by = a.by
      /\ b.at = a.at /\ b.old
  BY <1>2
<1>4. b \in Archive
  BY <1>2, ArchiveFields DEF Archive
<1> QED
  BY <1>1, <1>3, <1>4

LEMMA SettleType ==
    ASSUME NEW a \in Archive, NEW p
    PROVE  /\ Settle(a, p) \in Archive
           /\ Settle(a, p).of = a.of /\ Settle(a, p).lines = a.lines
           /\ Settle(a, p).done = a.done /\ Settle(a, p).old = a.old
           /\ Settle(a, p).at = a.at
           /\ Settle(a, p).by = IF a.by = p THEN Nobody ELSE a.by
<1>1. CASE a.by # p
  BY <1>1 DEF Settle
<1>2. CASE a.by = p
  <2>1. PICK b : b = Settle(a, p)
    OBVIOUS
  <2>2. b = [of |-> a.of, lines |-> a.lines, done |-> a.done,
             old |-> a.old, by |-> Nobody, at |-> a.at]
    BY <1>2, <2>1, ArchiveFields DEF Settle
  <2>3. /\ b.of = a.of /\ b.lines = a.lines /\ b.done = a.done
        /\ b.old = a.old /\ b.at = a.at /\ b.by = Nobody
    BY <2>2
  <2>4. b \in Archive
    BY <2>2, ArchiveFields DEF Archive
  <2> QED
    BY <1>2, <2>1, <2>3, <2>4
<1> QED
  BY <1>1, <1>2

LEMMA SettledIs ==
    ASSUME NEW p PROVE Settled(p) = {Settle(a, p) : a \in archives}
  BY DEF Settled, Settle, Mine

\* The archives after a step that only ages or settles them.
LEMMA AgedArchives ==
    ASSUME archives \subseteq Archive, IsFiniteSet(archives), RetentionPasses
    PROVE  /\ archives' = {Aged(a) : a \in archives}
           /\ archives' \subseteq Archive /\ IsFiniteSet(archives')
<1>1. archives' = {Aged(a) : a \in archives}
  BY DEF RetentionPasses, Aged
<1>2. PICK f : f = [a \in archives |-> Aged(a)]
  OBVIOUS
<1>3. /\ f \in [archives -> archives']
      /\ \A b \in archives' : \E a \in archives : f[a] = b
  BY <1>1, <1>2
<1>4. IsFiniteSet(archives')
  BY <1>3, FiniteImage
<1> QED
  BY <1>1, <1>4, AgedType

LEMMA SettledArchives ==
    ASSUME archives \subseteq Archive, IsFiniteSet(archives), NEW p,
           archives' = Settled(p)
    PROVE  /\ archives' = {Settle(a, p) : a \in archives}
           /\ archives' \subseteq Archive /\ IsFiniteSet(archives')
<1>1. archives' = {Settle(a, p) : a \in archives}
  BY SettledIs
<1>2. PICK f : f = [a \in archives |-> Settle(a, p)]
  OBVIOUS
<1>3. /\ f \in [archives -> archives']
      /\ \A b \in archives' : \E a \in archives : f[a] = b
  BY <1>1, <1>2
<1>4. IsFiniteSet(archives')
  BY <1>3, FiniteImage
<1> QED
  BY <1>1, <1>4, SettleType
-----------------------------------------------------------------------------
(* The types.                                                              *)

LEMMA AfterType ==
    \A t \in TaskNames \ {"none"} : After[t] \in TaskNames
  BY DEF After, TaskNames, Files, Active

\* A run moves on.
LEMMA GotoTypes ==
    ASSUME TInv, NEW p \in Procs, NEW t \in TaskNames, NEW s \in StageNames,
           Goto(p, t, s), Fits(t, s)
    PROVE  /\ task' \in [Procs -> TaskNames]
           /\ stage' \in [Procs -> StageNames]
           /\ Tasks'
           /\ task'[p] = t /\ stage'[p] = s
           /\ \A q \in Procs \ {p} : task'[q] = task[q] /\ stage'[q] = stage[q]
<1>1. task \in [Procs -> TaskNames] /\ stage \in [Procs -> StageNames]
  BY DEF TInv, LTypeOK, TaskNames, StageNames
<1>2. /\ task' = [task EXCEPT ![p] = t]
      /\ stage' = [stage EXCEPT ![p] = s]
  BY DEF Goto
<1>3. /\ task'[p] = t /\ stage'[p] = s
      /\ \A q \in Procs \ {p} : task'[q] = task[q] /\ stage'[q] = stage[q]
  BY <1>1, <1>2
<1>4. \A q \in Procs : Fits(task'[q], stage'[q])
  BY <1>3 DEF TInv, Tasks
<1> QED
  BY <1>1, <1>2, <1>3, <1>4 DEF Tasks

\* It goes on to the next task, or gives up.
LEMMA NextFits ==
    ASSUME TInv, NEW p \in Procs, task[p] # "none"
    PROVE  /\ After[task[p]] \in TaskNames /\ Fits(After[task[p]], "list")
           /\ "none" \in TaskNames /\ Fits("none", "list")
           /\ "list" \in StageNames
<1>1. task[p] \in TaskNames \ {"none"}
  BY DEF TInv, LTypeOK, TaskNames
<1>2. \A t : Fits(t, "list")
  BY DEF Fits
<1> QED
  BY <1>1, <1>2, AfterType DEF TaskNames, StageNames

LEMMA ChangedGoes ==
    ASSUME TInv, NEW p \in Procs, task[p] # "none", Changed(p)
    PROVE  \E t \in TaskNames : Goto(p, t, "list") /\ Fits(t, "list")
<1>1. CASE task[p] = "legacy"
  BY <1>1, NextFits DEF Changed, GiveUp
<1>2. CASE task[p] # "legacy"
  BY <1>2, NextFits DEF Changed, NextTask
<1> QED
  BY <1>1, <1>2

LEMMA AsideStays ==
    ASSUME TInv, clash' \subseteq Procs, UNCHANGED <<sweep, lockLeft, byHand>>
    PROVE  AsideOK'
  BY DEF TInv, AsideOK

LEMMA AllAsideStays == ASSUME TInv, UNCHANGED asideVars PROVE AsideOK'
  BY DEF TInv, AsideOK, asideVars

\* What a run is going to delete can be shortened.
LEMMA SweepShortened ==
    ASSUME TInv, NEW p \in Procs, NEW S, S \subseteq sweep[p],
           sweep' = [sweep EXCEPT ![p] = S], clash' \subseteq Procs,
           lockLeft' \in BOOLEAN, byHand' = byHand
    PROVE  AsideOK'
<1>1. S \in SUBSET Nat /\ IsFiniteSet(S)
  BY FS_Subset DEF TInv, AsideOK
<1> QED
  BY <1>1 DEF TInv, AsideOK

LEMMA SweepDropped ==
    ASSUME TInv, NEW p \in Procs, sweep' = [sweep EXCEPT ![p] = {}],
           clash' \subseteq Procs, lockLeft' \in BOOLEAN, byHand' = byHand
    PROVE  AsideOK'
  BY FS_EmptySet DEF TInv, AsideOK

\* Nothing is left to show when a run moves on and the files and archives
\* keep their types.
LEMMA TypesMoveOn ==
    ASSUME TInv, NEW p \in Procs,
           \E t \in TaskNames : \E s \in StageNames :
             Goto(p, t, s) /\ Fits(t, s),
           quota' = quota, written' = written, raced' = raced,
           file' \in [Files -> SUBSET Lines],
           retired' \in [Files -> SUBSET Lines],
           tail' \in [Procs -> SUBSET Lines],
           legacyOld' \in BOOLEAN, overlapped' \in BOOLEAN,
           faults' \in 0..MaxFaults, fresh' \subseteq Procs,
           archives' \subseteq Archive, IsFiniteSet(archives'), AsideOK'
    PROVE  TInv'
<1>1. /\ task' \in [Procs -> TaskNames] /\ stage' \in [Procs -> StageNames]
      /\ Tasks'
  BY GotoTypes
<1>2. LTypeOK'
  BY <1>1 DEF TInv, LTypeOK, AsideOK, TaskNames, StageNames
<1> QED
  BY <1>1, <1>2 DEF TInv

LEMMA InitTypes == ASSUME LInit PROVE TInv
<1>1. /\ quota \in [Files -> Nat]
      /\ written = [f \in Files |-> IF f = "legacy" THEN quota[f] ELSE 0]
      /\ file = [f \in Files |-> 1..written[f]]
      /\ legacyOld = FALSE /\ archives = {} /\ fresh = {}
      /\ task = [p \in Procs |-> "none"] /\ stage = [p \in Procs |-> "list"]
      /\ tail = [p \in Procs |-> {}] /\ overlapped = FALSE /\ faults = 0
      /\ retired = [f \in Files |-> {}] /\ raced = [f \in Files |-> {}]
      /\ clash = {} /\ sweep = [p \in Procs |-> {}]
      /\ lockLeft = FALSE /\ byHand = 0
      /\ MaxFaults \in Nat /\ MaxByHand \in Nat
  BY MaintenanceBounds DEF LInit
<1>2. written \in [Files -> Nat]
  BY <1>1
<1>3. \A n \in Nat : 1..n \subseteq Lines
  BY DEF Lines
<1>4. file \in [Files -> SUBSET Lines]
  BY <1>1, <1>2, <1>3
<1>5. LTypeOK
  <2>1. task \in [Procs -> Files \cup {"none", "logdir", "ledgerdir"}]
    BY <1>1
  <2>2. stage \in [Procs -> StageNames]
    BY <1>1 DEF StageNames
  <2>3. /\ tail \in [Procs -> SUBSET Lines]
        /\ retired \in [Files -> SUBSET Lines]
        /\ raced \in [Files -> SUBSET Lines]
    BY <1>1
  <2>4. faults \in 0..MaxFaults /\ byHand \in 0..MaxByHand
    BY <1>1
  <2>5. sweep \in [Procs -> SUBSET Nat]
    BY <1>1
  <2> QED
    BY <1>1, <1>2, <1>4, <2>1, <2>2, <2>3, <2>4, <2>5 DEF LTypeOK, StageNames
<1>6. Tasks
  BY <1>1 DEF Tasks, Fits
<1>7. AsideOK
  BY <1>1, <1>5, FS_EmptySet DEF AsideOK, LTypeOK
<1> QED
  BY <1>1, <1>5, <1>6, <1>7, FS_EmptySet DEF TInv

LEMMA AppendLineTypes ==
    ASSUME TInv, NEW g \in Files, AppendLine(g) PROVE TInv'
<1>1. PICK new : new = written[g] + 1
  OBVIOUS
<1>2. /\ written' = [written EXCEPT ![g] = new]
      /\ file' = [file EXCEPT ![g] = @ \cup {new}]
      /\ fresh' = fresh \ Stale(g)
      /\ raced' = IF Cutting(g) = {} THEN raced
                  ELSE [raced EXCEPT ![g] = @ \cup {new}]
      /\ UNCHANGED <<quota, legacyOld, archives, task, stage, tail,
                     overlapped, faults, retired>>
      /\ UNCHANGED asideVars
  BY <1>1 DEF AppendLine
<1>3. new \in Nat /\ new \in Lines
  BY <1>1 DEF TInv, LTypeOK, Lines
<1>4. /\ written' \in [Files -> Nat] /\ file' \in [Files -> SUBSET Lines]
      /\ raced' \in [Files -> SUBSET Lines]
  BY <1>2, <1>3 DEF TInv, LTypeOK
<1>5. LTypeOK'
  BY <1>2, <1>4 DEF TInv, LTypeOK, asideVars
<1> QED
  BY <1>2, <1>5, AllAsideStays DEF TInv, Tasks

LEMMA RetentionTypes == ASSUME TInv, RetentionPasses PROVE TInv'
<1>1. /\ archives' \subseteq Archive /\ IsFiniteSet(archives')
  BY AgedArchives DEF TInv, LTypeOK
<1>2. /\ legacyOld' \in BOOLEAN
      /\ UNCHANGED <<quota, file, written, task, stage, fresh, tail,
                     overlapped, faults, retired, raced>>
      /\ UNCHANGED asideVars
  BY DEF RetentionPasses
<1>3. LTypeOK'
  BY <1>1, <1>2 DEF TInv, LTypeOK, asideVars
<1> QED
  BY <1>1, <1>2, <1>3, AllAsideStays DEF TInv, Tasks

LEMMA StartRunTypes ==
    ASSUME TInv, NEW p \in Procs, StartRun(p) PROVE TInv'
<1>1. Goto(p, "log", "list") /\ "log" \in TaskNames /\ "list" \in StageNames
  BY DEF StartRun, Goto, TaskNames, StageNames, Files, Active
<1>2. Fits("log", "list")
  BY DEF Fits
<1>3. /\ overlapped' \in BOOLEAN
      /\ UNCHANGED <<quota, file, written, legacyOld, archives, fresh, tail,
                     faults, retired, raced>>
  BY DEF StartRun, TInv, LTypeOK
<1>4. AsideOK'
  BY MaintenanceBounds DEF StartRun, TInv, AsideOK
<1> QED
  BY <1>1, <1>2, <1>3, <1>4, TypesMoveOn DEF TInv, LTypeOK

LEMMA ListActiveTypes ==
    ASSUME TInv, NEW p \in Procs, ListActive(p) \/ SkipRecent(p) PROVE TInv'
<1>1. task[p] \in Files /\ task[p] # "none"
  BY DEF ListActive, SkipRecent, Files, Active
<1>2. fresh' \subseteq Procs
  BY DEF ListActive, SkipRecent, TInv, LTypeOK
<1>3. NextTask(p) \/ Goto(p, task[p], "open")
  BY DEF ListActive, SkipRecent
<1>4. Fits(task[p], "open") /\ task[p] \in TaskNames /\ "open" \in StageNames
  BY <1>1 DEF Fits, TaskNames, StageNames
<1>5. \E t \in TaskNames : \E s \in StageNames : Goto(p, t, s) /\ Fits(t, s)
  BY <1>1, <1>3, <1>4, NextFits DEF NextTask
<1>6. /\ UNCHANGED <<quota, file, written, legacyOld, archives, tail,
                     overlapped, faults, retired, raced>>
      /\ UNCHANGED asideVars
  BY DEF ListActive, SkipRecent
<1> QED
  BY <1>2, <1>5, <1>6, AllAsideStays, TypesMoveOn DEF TInv, LTypeOK

LEMMA ListLegacyTypes ==
    ASSUME TInv, NEW p \in Procs, ListLegacy(p) \/ DropLegacy(p) PROVE TInv'
<1>1. task[p] = "legacy" /\ "legacy" \in Files
  BY DEF ListLegacy, DropLegacy, Files, TInv, Tasks, Fits
<1>2. \/ NextTask(p) \/ Goto(p, "legacy", "target") \/ Goto(p, "legacy", "drop")
      \/ Goto(p, "none", "list")
  BY DEF ListLegacy, DropLegacy, GiveUp
<1>3. /\ Fits("legacy", "target") /\ Fits("legacy", "drop")
      /\ "legacy" \in TaskNames
      /\ "target" \in StageNames /\ "drop" \in StageNames
  BY <1>1 DEF Fits, TaskNames, StageNames
<1>4. \E t \in TaskNames : \E s \in StageNames : Goto(p, t, s) /\ Fits(t, s)
  BY <1>1, <1>2, <1>3, NextFits DEF NextTask
<1>5. /\ file' \in [Files -> SUBSET Lines]
      /\ retired' \in [Files -> SUBSET Lines] /\ fresh' \subseteq Procs
      /\ UNCHANGED <<quota, written, legacyOld, archives, tail, overlapped,
                     faults, raced>>
      /\ UNCHANGED asideVars
  BY <1>1 DEF ListLegacy, DropLegacy, TInv, LTypeOK
<1> QED
  BY <1>4, <1>5, AllAsideStays, TypesMoveOn DEF TInv, LTypeOK

LEMMA UnlinkTargetTypes ==
    ASSUME TInv, NEW p \in Procs, UnlinkTarget(p) PROVE TInv'
<1>1. /\ archives' \subseteq archives
      /\ Goto(p, "legacy", "open") \/ Goto(p, "none", "list")
      /\ UNCHANGED <<quota, file, written, legacyOld, fresh, tail, overlapped,
                     faults, retired, raced>>
      /\ UNCHANGED asideVars
  BY DEF UnlinkTarget, GiveUp
<1>2. /\ Fits("legacy", "open") /\ "legacy" \in TaskNames
      /\ "open" \in StageNames
      /\ Fits("none", "list") /\ "none" \in TaskNames /\ "list" \in StageNames
  BY DEF Fits, TaskNames, StageNames, Files
<1>3. IsFiniteSet(archives')
  BY <1>1, FS_Subset DEF TInv
<1> QED
  BY <1>1, <1>2, <1>3, AllAsideStays, TypesMoveOn DEF TInv, LTypeOK

\* A new archive: torn or finished, the newest of all.
LEMMA NewArchive ==
    ASSUME TInv, NEW p \in Procs, NEW f \in Files, NEW S \in SUBSET Lines,
           NEW d \in BOOLEAN
    PROVE  [of |-> f, lines |-> S, done |-> d, old |-> FALSE, by |-> p,
            at |-> Newest + 1] \in Archive
<1>1. PICK n : n = Newest + 1
  OBVIOUS
<1>2. n \in Nat
  BY <1>1, NewestBounds DEF TInv, LTypeOK
<1>3. [of |-> f, lines |-> S, done |-> d, old |-> FALSE, by |-> p,
       at |-> n] \in Archive
  BY <1>2 DEF Archive
<1> QED
  BY <1>1, <1>3

LEMMA CreateArchiveTypes ==
    ASSUME TInv, NEW p \in Procs, CreateArchive(p) PROVE TInv'
<1>1. /\ stage[p] = "open" /\ Fits(task[p], stage[p])
      /\ UNCHANGED <<quota, file, written, legacyOld, fresh, tail, overlapped,
                     faults, retired, raced>>
  BY DEF CreateArchive, TInv, Tasks
<1>2. task[p] \in Files /\ task[p] # "none" /\ task[p] \in TaskNames
  BY <1>1 DEF Fits, Files, Active, TaskNames
<1>3. AsideOK'
  <2>1. clash' \subseteq Procs /\ UNCHANGED <<sweep, lockLeft, byHand>>
    BY DEF CreateArchive, TInv, AsideOK
  <2> QED
    BY <2>1, AsideStays
<1>4. CASE archives' # archives
  <2>1. PICK torn : /\ archives' = archives \cup {torn}
                    /\ torn = [of |-> task[p], lines |-> {}, done |-> FALSE,
                               old |-> FALSE, by |-> p, at |-> Newest + 1]
    BY <1>4 DEF CreateArchive
  <2>2. torn \in Archive
    BY <1>2, <2>1, NewArchive
  <2>3. /\ Goto(p, task[p], "copy") /\ Fits(task[p], "copy")
        /\ "copy" \in StageNames
    BY <1>2, <1>4 DEF CreateArchive, Fits, StageNames
  <2>4. IsFiniteSet(archives')
    BY <2>1, FS_AddElement DEF TInv
  <2>5. archives' \subseteq Archive
    BY <2>1, <2>2 DEF TInv, LTypeOK
  <2> QED
    BY <1>1, <1>2, <1>3, <2>3, <2>4, <2>5, TypesMoveOn DEF TInv, LTypeOK
<1>5. CASE archives' = archives
  <2>1. Changed(p) \/ Goto(p, "none", "list") \/ Goto(p, task[p], "copy")
    BY DEF CreateArchive, GiveUp
  <2>2. /\ "list" \in StageNames /\ "copy" \in StageNames
        /\ Fits(task[p], "copy")
    BY <1>2 DEF StageNames, Fits
  <2>3. \E t \in TaskNames : \E s \in StageNames : Goto(p, t, s) /\ Fits(t, s)
    BY <1>2, <2>1, <2>2, ChangedGoes, NextFits
  <2> QED
    BY <1>1, <1>3, <1>5, <2>3, TypesMoveOn DEF TInv, LTypeOK
<1> QED
  BY <1>4, <1>5

LEMMA FinishCopyTypes ==
    ASSUME TInv, NEW p \in Procs, FinishCopy(p) PROVE TInv'
<1>1. /\ stage[p] = "copy" /\ Fits(task[p], stage[p])
      /\ UNCHANGED <<quota, file, written, legacyOld, fresh, tail, overlapped,
                     faults, retired, raced>>
      /\ AsideOK'
  BY AllAsideStays DEF FinishCopy, TInv, Tasks
<1>2. task[p] \in Files /\ task[p] # "none" /\ task[p] \in TaskNames
  BY <1>1 DEF Fits, Files, Active, TaskNames
<1>3. CASE Mine(p) = {}
  <2>1. Goto(p, "none", "list") /\ archives' = archives
    BY <1>3 DEF FinishCopy, GiveUp
  <2> QED
    BY <1>1, <1>2, <2>1, NextFits, TypesMoveOn DEF TInv, LTypeOK
<1>4. CASE Mine(p) # {}
  <2>1. PICK copied : copied = IF p \in fresh THEN file[task[p]] ELSE {}
    OBVIOUS
  <2>2. PICK new : /\ archives' = (archives \ Mine(p)) \cup {new}
                   /\ new = [of |-> task[p], lines |-> copied, done |-> TRUE,
                             old |-> FALSE, by |-> p, at |-> Newest + 1]
    BY <1>4, <2>1 DEF FinishCopy
  <2>3. copied \in SUBSET Lines
    BY <1>2, <2>1 DEF TInv, LTypeOK
  <2>4. new \in Archive
    BY <1>2, <2>2, <2>3, NewArchive
  <2>5. /\ Goto(p, task[p], "check") /\ Fits(task[p], "check")
        /\ "check" \in StageNames
    BY <1>2, <1>4 DEF FinishCopy, Fits, StageNames
  <2>6. IsFiniteSet(archives \ Mine(p))
    BY FS_Difference DEF TInv
  <2>7. IsFiniteSet(archives')
    BY <2>2, <2>6, FS_AddElement
  <2>8. archives' \subseteq Archive
    BY <2>2, <2>4 DEF TInv, LTypeOK
  <2> QED
    BY <1>1, <1>2, <2>5, <2>7, <2>8, TypesMoveOn DEF TInv, LTypeOK
<1> QED
  BY <1>3, <1>4

LEMMA CheckIdentityTypes ==
    ASSUME TInv, NEW p \in Procs, CheckIdentity(p) PROVE TInv'
<1>1. /\ stage[p] = "check" /\ Fits(task[p], stage[p])
      /\ UNCHANGED <<quota, file, written, legacyOld, fresh, overlapped,
                     faults, retired, raced>>
      /\ AsideOK'
  BY AllAsideStays DEF CheckIdentity, TInv, Tasks
<1>2. task[p] \in Files /\ task[p] # "none" /\ task[p] \in TaskNames
  BY <1>1 DEF Fits, Files, Active, TaskNames
<1>3. CASE p \in fresh
  <2>1. PICK T \in TailsOf(task[p]) : tail' = [tail EXCEPT ![p] = T]
    BY <1>3 DEF CheckIdentity
  <2>2. T \subseteq file[task[p]] /\ file[task[p]] \subseteq Lines
    BY <1>2, <2>1 DEF TailsOf, Tails, TInv, LTypeOK
  <2>3. tail' \in [Procs -> SUBSET Lines]
    BY <2>1, <2>2 DEF TInv, LTypeOK
  <2>4. /\ Goto(p, task[p], "cut") /\ Fits(task[p], "cut")
        /\ "cut" \in StageNames /\ archives' = archives
    BY <1>2, <1>3 DEF CheckIdentity, Fits, StageNames
  <2> QED
    BY <1>1, <1>2, <2>3, <2>4, TypesMoveOn DEF TInv, LTypeOK
<1>4. CASE p \notin fresh
  <2>1. /\ Changed(p) \/ Goto(p, "none", "list")
        /\ archives' = archives \ Mine(p) /\ tail' = tail
    BY <1>4 DEF CheckIdentity, GiveUp
  <2>2. "list" \in StageNames
    BY DEF StageNames
  <2>3. IsFiniteSet(archives')
    BY <2>1, FS_Difference DEF TInv
  <2> QED
    BY <1>1, <1>2, <2>1, <2>2, <2>3, ChangedGoes, NextFits, TypesMoveOn
       DEF TInv, LTypeOK
<1> QED
  BY <1>3, <1>4

LEMMA CutTypes == ASSUME TInv, NEW p \in Procs, Cut(p) PROVE TInv'
<1>1. /\ stage[p] = "cut" /\ Fits(task[p], stage[p])
      /\ file' = [file EXCEPT ![task[p]] = {}] /\ fresh' \subseteq fresh
      /\ UNCHANGED <<quota, written, legacyOld, tail, overlapped, faults,
                     retired, raced>>
      /\ AsideOK'
  BY AllAsideStays DEF Cut, TInv, Tasks
<1>2. task[p] \in Files /\ task[p] # "none" /\ task[p] \in TaskNames
  BY <1>1 DEF Fits, Files, Active, TaskNames
<1>3. file' \in [Files -> SUBSET Lines] /\ fresh' \subseteq Procs
  BY <1>1 DEF TInv, LTypeOK
<1>4. CASE task[p] \in Active
  <2>1. /\ Goto(p, task[p], "tail") /\ archives' = archives
        /\ Fits(task[p], "tail") /\ "tail" \in StageNames
    BY <1>2, <1>4 DEF Cut, Fits, StageNames
  <2> QED
    BY <1>1, <1>2, <1>3, <2>1, TypesMoveOn DEF TInv, LTypeOK
<1>5. CASE task[p] \notin Active
  <2>1. NextTask(p) /\ archives' = Settled(p)
    BY <1>5 DEF Cut
  <2>2. archives' \subseteq Archive /\ IsFiniteSet(archives')
    BY <2>1, SettledArchives DEF TInv, LTypeOK
  <2>3. \E t \in TaskNames : \E s \in StageNames : Goto(p, t, s) /\ Fits(t, s)
    BY <1>2, <2>1, NextFits DEF NextTask
  <2> QED
    BY <1>1, <1>3, <2>2, <2>3, TypesMoveOn DEF TInv, LTypeOK
<1> QED
  BY <1>4, <1>5

LEMMA WriteTailTypes ==
    ASSUME TInv, NEW p \in Procs, WriteTail(p) PROVE TInv'
<1>1. /\ stage[p] = "tail" /\ Fits(task[p], stage[p]) /\ NextTask(p)
      /\ fresh' \subseteq fresh /\ tail' = [tail EXCEPT ![p] = {}]
      /\ archives' = Settled(p)
      /\ UNCHANGED <<quota, written, legacyOld, overlapped, faults, retired,
                     raced>>
      /\ AsideOK'
  BY AllAsideStays DEF WriteTail, TInv, Tasks
<1>2. task[p] \in Files /\ task[p] # "none"
  BY <1>1 DEF Fits, Files, Active
<1>3. PICK rest \in SUBSET file[task[p]] :
        file' = [file EXCEPT ![task[p]] = tail[p] \cup rest]
  BY DEF WriteTail
<1>4. tail[p] \cup rest \in SUBSET Lines
  BY <1>2, <1>3 DEF TInv, LTypeOK
<1>5. /\ file' \in [Files -> SUBSET Lines] /\ fresh' \subseteq Procs
      /\ tail' \in [Procs -> SUBSET Lines]
  BY <1>1, <1>3, <1>4 DEF TInv, LTypeOK
<1>6. archives' \subseteq Archive /\ IsFiniteSet(archives')
  BY <1>1, SettledArchives DEF TInv, LTypeOK
<1>7. \E t \in TaskNames : \E s \in StageNames : Goto(p, t, s) /\ Fits(t, s)
  BY <1>1, <1>2, NextFits DEF NextTask
<1> QED
  BY <1>1, <1>5, <1>6, <1>7, TypesMoveOn DEF TInv, LTypeOK

\* A directory is listed: there are only finitely many archives.
LEMMA NotedOK ==
    ASSUME TInv, NEW p \in Procs, NEW S \in SUBSET archives, Noted(p, S),
           UNCHANGED <<clash, lockLeft, byHand>>
    PROVE  AsideOK'
<1> DEFINE Times == {a.at : a \in S}
<1>1. sweep' = [sweep EXCEPT ![p] = Times]
  BY DEF Noted
<1>2. Times \in SUBSET Nat
  BY DEF TInv, LTypeOK, Archive
<1>3. PICK f : f = [a \in S |-> a.at]
  OBVIOUS
<1>4. f \in [S -> Times] /\ \A t \in Times : \E a \in S : f[a] = t
  BY <1>3
<1>5. IsFiniteSet(S)
  BY FS_Subset DEF TInv
<1> HIDE DEF Times
<1>6. IsFiniteSet(Times)
  BY <1>4, <1>5, FiniteImage
<1> QED
  BY <1>1, <1>2, <1>6 DEF TInv, AsideOK

LEMMA InSomeDirectory ==
    ASSUME NEW d
    PROVE  OverCap(d) \subseteq InDirectory(d) /\ InDirectory(d) \subseteq archives
  BY DEF OverCap, InDirectory

LEMMA ListingTypes ==
    ASSUME TInv, NEW p \in Procs, ListExpired(p) \/ ListOverCap(p) PROVE TInv'
<1>1. /\ UNCHANGED <<quota, file, written, legacyOld, archives, fresh, tail,
                     overlapped, faults, retired, raced>>
      /\ UNCHANGED <<clash, lockLeft, byHand>>
  BY DEF ListExpired, ListOverCap
<1>2. AsideOK'
  <2>1. PICK S \in SUBSET archives : Noted(p, S)
    BY InSomeDirectory DEF ListExpired, ListOverCap
  <2> QED
    BY <1>1, <2>1, NotedOK
<1>3. task[p] \in {"logdir", "ledgerdir"}
  BY DEF ListExpired, ListOverCap, TInv, Tasks, Fits
<1>4. Goto(p, task[p], "expire") \/ Goto(p, task[p], "prune")
  BY DEF ListExpired, ListOverCap
<1>5. /\ Fits(task[p], "expire") /\ Fits(task[p], "prune")
      /\ task[p] \in TaskNames
      /\ "expire" \in StageNames /\ "prune" \in StageNames
  BY <1>3 DEF Fits, TaskNames, StageNames
<1> QED
  BY <1>1, <1>2, <1>4, <1>5, TypesMoveOn DEF TInv, LTypeOK

\* An unlink in a sweep leaves the run where it is.
LEMMA UnlinkDueStays ==
    ASSUME TInv, NEW p \in Procs, UnlinkDue(p)
    PROVE  Goto(p, task[p], stage[p])
  BY DEF UnlinkDue, Goto, TInv, LTypeOK

LEMMA UnlinkDueTypes ==
    ASSUME TInv, NEW p \in Procs, UnlinkDue(p) PROVE TInv'
<1>1. PICK a \in archives :
        /\ archives' = archives \ {a}
        /\ retired' = [retired EXCEPT ![a.of] =
                          IF a.done THEN @ \cup a.lines ELSE @]
        /\ sweep' = [sweep EXCEPT ![p] = @ \ {a.at}]
  BY InSomeDirectory DEF UnlinkDue
<1>2. /\ UNCHANGED <<quota, file, written, legacyOld, fresh, tail, overlapped,
                     faults, raced>>
      /\ UNCHANGED <<clash, lockLeft, byHand>>
  BY DEF UnlinkDue
<1>3. a \in Archive
  BY DEF TInv, LTypeOK
<1>4. retired' \in [Files -> SUBSET Lines]
  BY <1>1, <1>3, ArchiveFields DEF TInv, LTypeOK
<1>5. archives' \subseteq Archive /\ IsFiniteSet(archives')
  BY <1>1, FS_Difference DEF TInv, LTypeOK
<1>6. AsideOK'
  <2>1. /\ sweep' = [sweep EXCEPT ![p] = sweep[p] \ {a.at}]
        /\ sweep[p] \ {a.at} \subseteq sweep[p]
        /\ clash' \subseteq Procs /\ lockLeft' \in BOOLEAN
    BY <1>1, <1>2 DEF TInv, AsideOK
  <2> QED
    BY <1>2, <2>1, SweepShortened
<1>7. /\ Goto(p, task[p], stage[p]) /\ Fits(task[p], stage[p])
      /\ task[p] \in TaskNames /\ stage[p] \in StageNames
  BY UnlinkDueStays DEF TInv, Tasks, LTypeOK, TaskNames, StageNames
<1> QED
  BY <1>2, <1>4, <1>5, <1>6, <1>7, TypesMoveOn DEF TInv, LTypeOK

LEMMA SweepEndTypes ==
    ASSUME TInv, NEW p \in Procs, MissDue(p) \/ EndSweep(p) PROVE TInv'
<1>1. UNCHANGED <<quota, file, written, legacyOld, archives, fresh, tail,
                  overlapped, faults, retired, raced>>
  BY DEF MissDue, EndSweep
<1>2. task[p] # "none"
  BY DEF MissDue, EndSweep, TInv, Tasks, Fits
<1>3. \E t \in TaskNames : \E s \in StageNames : Goto(p, t, s) /\ Fits(t, s)
  BY <1>2, NextFits DEF MissDue, EndSweep, NextTask, GiveUp
<1>4. AsideOK'
  <2>1. CASE EndSweep(p)
    BY <2>1, AllAsideStays DEF EndSweep
  <2>2. CASE MissDue(p)
    <3>1. /\ sweep' = [sweep EXCEPT ![p] = {}]
          /\ clash' \subseteq Procs /\ lockLeft' \in BOOLEAN
          /\ byHand' = byHand
      BY <2>2 DEF MissDue, TInv, AsideOK
    <3> QED
      BY <3>1, SweepDropped
  <2> QED
    BY <2>1, <2>2
<1> QED
  BY <1>1, <1>3, <1>4, TypesMoveOn DEF TInv, LTypeOK

\* What the two interruptions have in common.
LEMMA StopTypes ==
    ASSUME TInv, NEW p \in Procs, Fail(p) \/ Crash(p) PROVE TInv'
<1>1. /\ Goto(p, "none", "list") /\ task[p] # "none"
      /\ fresh' \subseteq fresh /\ tail' = [tail EXCEPT ![p] = {}]
      /\ faults' = faults + 1 /\ faults < MaxFaults
      /\ archives' = archives \ Mine(p) \/ archives' = Settled(p)
      /\ UNCHANGED <<quota, file, written, legacyOld, overlapped, retired,
                     raced>>
      /\ sweep' = [sweep EXCEPT ![p] = {}] /\ byHand' = byHand
      /\ clash' = clash \ {p}
      /\ lockLeft' = lockLeft
         \/ \E shell \in BOOLEAN : lockLeft' = (lockLeft \/ (shell /\ p \in Scheduled))
  BY DEF Fail, Crash, GiveUp
<1>2. faults' \in 0..MaxFaults
  BY <1>1, MaintenanceBounds DEF TInv, LTypeOK
<1>3. tail' \in [Procs -> SUBSET Lines] /\ fresh' \subseteq Procs
  BY <1>1 DEF TInv, LTypeOK
<1>4. archives' \subseteq Archive /\ IsFiniteSet(archives')
  <2>1. archives \subseteq Archive /\ IsFiniteSet(archives)
    BY DEF TInv, LTypeOK
  <2>2. archives \ Mine(p) \subseteq Archive /\ IsFiniteSet(archives \ Mine(p))
    BY <2>1, FS_Difference
  <2> QED
    BY <1>1, <2>1, <2>2, SettledArchives
<1>5. AsideOK'
  <2>1. clash' \subseteq Procs
    BY <1>1 DEF TInv, AsideOK
  <2>2. lockLeft' \in BOOLEAN
    BY <1>1 DEF TInv, AsideOK
  <2> QED
    BY <1>1, <2>1, <2>2, SweepDropped
<1> QED
  BY <1>1, <1>2, <1>3, <1>4, <1>5, NextFits, TypesMoveOn DEF TInv, LTypeOK

LEMMA KillShellTypes ==
    ASSUME TInv, NEW p \in Procs, KillShell(p) PROVE TInv'
<1>1. /\ UNCHANGED <<quota, file, written, legacyOld, archives, task, stage>>
      /\ UNCHANGED <<fresh, tail, clash, sweep, byHand, overlapped, retired>>
      /\ raced' = raced /\ lockLeft' = TRUE
      /\ faults' = faults + 1 /\ faults < MaxFaults
  BY DEF KillShell
<1>2. faults' \in 0..MaxFaults
  BY <1>1, MaintenanceBounds DEF TInv, LTypeOK
<1> QED
  BY <1>1, <1>2 DEF TInv, LTypeOK, Tasks, AsideOK

LEMMA StutterTypes == ASSUME TInv, UNCHANGED lvars PROVE TInv'
<1>1. /\ UNCHANGED <<quota, file, written, legacyOld, archives, task, stage>>
      /\ UNCHANGED <<fresh, tail, overlapped, faults, retired, raced>>
      /\ UNCHANGED asideVars
  BY DEF lvars
<1>2. UNCHANGED <<clash, sweep, lockLeft, byHand>>
  BY <1>1 DEF asideVars
<1> QED
  BY <1>1, <1>2 DEF TInv, LTypeOK, Tasks, AsideOK

LEMMA TypesInductive == ASSUME TInv, [LNext]_lvars PROVE TInv'
<1>1. ASSUME NEW f \in Active, AppendLine(f) PROVE TInv'
  BY <1>1, AppendLineTypes DEF Files
<1>2. CASE RetentionPasses
  BY <1>2, RetentionTypes
<1>3. ASSUME NEW p \in Procs,
             \/ StartRun(p) \/ MaintainStep(p)
             \/ Fail(p) \/ Crash(p) \/ KillShell(p)
      PROVE  TInv'
  BY <1>3, StartRunTypes, ListActiveTypes, ListLegacyTypes, UnlinkTargetTypes,
     CreateArchiveTypes, FinishCopyTypes, CheckIdentityTypes, CutTypes,
     WriteTailTypes, ListingTypes, UnlinkDueTypes, SweepEndTypes, StopTypes,
     KillShellTypes DEF MaintainStep
<1>4. CASE UNCHANGED lvars
  BY <1>4, StutterTypes
<1> QED
  BY <1>1, <1>2, <1>3, <1>4 DEF LNext

\* Files, archives and runs keep their types, for any number of runs: there
\* is always a newest archive, and a run only does what its task allows.
THEOREM LTypesHold == LSpec => []LTypeOK
<1>1. LInit => TInv
  BY InitTypes
<1>2. TInv /\ [LNext]_lvars => TInv'
  BY TypesInductive
<1>3. TInv => LTypeOK
  BY DEF TInv
<1> QED
  BY <1>1, <1>2, <1>3, PTL DEF LSpec
-----------------------------------------------------------------------------
(* What the steps of one run leave to the others.                          *)

LEMMA GotoMoves ==
    ASSUME TInv, NEW p, NEW t, NEW s, Goto(p, t, s)
    PROVE  /\ \A q \in Procs \ {p} : /\ task'[q] = task[q]
                                     /\ stage'[q] = stage[q]
           /\ p \in Procs => task'[p] = t /\ stage'[p] = s
  BY DEF TInv, LTypeOK, Goto

LEMMA ChangedMoves ==
    ASSUME NEW p, Changed(p)
    PROVE  \E t : Goto(p, t, "list")
  BY DEF Changed, NextTask, GiveUp

LEMMA OthersStay ==
    ASSUME TInv, NEW p \in Procs,
           StartRun(p) \/ MaintainStep(p) \/ Fail(p) \/ Crash(p)
    PROVE  \A q \in Procs \ {p} :
             /\ task'[q] = task[q] /\ stage'[q] = stage[q]
             /\ tail'[q] = tail[q] /\ (q \in fresh' => q \in fresh)
<1>1. \E t, s : Goto(p, t, s)
  <2>1. CASE StartRun(p)
    BY <2>1 DEF StartRun, Goto
  <2>2. CASE MaintainStep(p)
    <3>1. CASE UnlinkDue(p)
      BY <3>1, UnlinkDueStays
    <3>2. CASE ListExpired(p) \/ ListOverCap(p) \/ MissDue(p) \/ EndSweep(p)
      BY <3>2 DEF ListExpired, ListOverCap, MissDue, EndSweep, NextTask, GiveUp
    <3>3. CASE ~(\/ UnlinkDue(p) \/ ListExpired(p) \/ ListOverCap(p)
                 \/ MissDue(p) \/ EndSweep(p))
      BY <2>2, <3>3, ChangedMoves
         DEF MaintainStep, ListActive, SkipRecent, ListLegacy, DropLegacy,
             UnlinkTarget, CreateArchive, FinishCopy, CheckIdentity, Cut,
             WriteTail, NextTask, GiveUp
    <3> QED
      BY <3>1, <3>2, <3>3
  <2>3. CASE Fail(p) \/ Crash(p)
    BY <2>3 DEF Fail, Crash, GiveUp
  <2> QED
    BY <2>1, <2>2, <2>3
<1>2. /\ fresh' \subseteq fresh \cup {p}
      /\ tail' = tail \/ \E T : tail' = [tail EXCEPT ![p] = T]
  <2>1. CASE StartRun(p)
    BY <2>1 DEF StartRun
  <2>2. CASE MaintainStep(p)
    BY <2>2
       DEF MaintainStep, ListActive, SkipRecent, ListLegacy, DropLegacy,
           UnlinkTarget, CreateArchive, FinishCopy, CheckIdentity, Cut,
           WriteTail, ListExpired, ListOverCap, UnlinkDue, MissDue, EndSweep
  <2>3. CASE Fail(p) \/ Crash(p)
    BY <2>3 DEF Fail, Crash
  <2> QED
    BY <2>1, <2>2, <2>3
<1>3. tail \in [Procs -> SUBSET Lines]
  BY DEF TInv, LTypeOK
<1> QED
  BY <1>1, <1>2, <1>3, GotoMoves

LEMMA RunIsAtWork ==
    ASSUME TInv, NEW p \in Procs, MaintainStep(p) \/ Fail(p) \/ Crash(p)
    PROVE  task[p] # "none" /\ overlapped' = overlapped
<1>1. task[p] = "none" => stage[p] = "list"
  BY DEF TInv, Tasks, Fits
<1>2. CASE MaintainStep(p)
  BY <1>1, <1>2
     DEF MaintainStep, ListActive, SkipRecent, ListLegacy, DropLegacy,
         UnlinkTarget, CreateArchive, FinishCopy, CheckIdentity, Cut,
         WriteTail, ListExpired, ListOverCap, UnlinkDue, MissDue, EndSweep,
         Active
<1>3. CASE Fail(p) \/ Crash(p)
  BY <1>3 DEF Fail, Crash
<1> QED
  BY <1>2, <1>3

\* When the shell is killed, or nothing happens, all but its directory and the
\* count of such faults stays as it is.
LEMMA RunsUntouched ==
    ASSUME UNCHANGED lvars \/ \E p \in Procs : KillShell(p)
    PROVE  /\ UNCHANGED <<quota, file, written, legacyOld, archives, task, stage>>
           /\ UNCHANGED <<fresh, tail, clash, sweep, overlapped, retired, raced>>
  BY DEF lvars, asideVars, KillShell

-----------------------------------------------------------------------------
(* The ledger has no holes.                                                *)

\* The tail a compaction is going to write back has none either, and only a
\* run that is rewriting the ledger has a tail.
TailClosed ==
    \A p \in Procs : tail[p] # {} =>
        /\ task[p] = "ledger" /\ stage[p] \in {"cut", "tail"}
        /\ \A l \in tail[p] : \A m \in l..written["ledger"] :
              m \in tail[p] \cup raced["ledger"]

NInv == TInv /\ NoHoles /\ TailClosed

\* When the ledger stays as it is or is emptied.
LEMMA SameLedger ==
    ASSUME NInv, TInv', NEW p, written' = written, raced' = raced,
           file'["ledger"] \in {file["ledger"], {}},
           \A q \in Procs \ {p} : /\ task'[q] = task[q]
                                  /\ stage'[q] = stage[q]
                                  /\ tail'[q] = tail[q],
           p \in Procs => \/ tail'[p] = {}
                          \/ /\ tail'[p] = tail[p] /\ task'[p] = task[p]
                             /\ stage'[p] \in {"cut", "tail"}
    PROVE  NInv'
<1>1. NoHoles'
  BY DEF NInv, NoHoles
<1>2. TailClosed'
  <2> SUFFICES ASSUME NEW q \in Procs, tail'[q] # {}
               PROVE  /\ task'[q] = "ledger" /\ stage'[q] \in {"cut", "tail"}
                      /\ \A l \in tail'[q] : \A m \in l..written'["ledger"] :
                            m \in tail'[q] \cup raced'["ledger"]
    BY DEF TailClosed
  <2>1. tail'[q] = tail[q]
    OBVIOUS
  <2> QED
    BY <2>1 DEF NInv, TailClosed
<1> QED
  BY <1>1, <1>2 DEF NInv

\* A run that is not rewriting the ledger has no tail.
LEMMA NoTail ==
    ASSUME NInv, NEW p \in Procs, stage[p] \notin {"cut", "tail"}
    PROVE  tail[p] = {}
  BY DEF NInv, TailClosed

LEMMA AppendLineHoles ==
    ASSUME NInv, TInv', NEW g \in Files, AppendLine(g) PROVE NInv'
<1>0. PICK new : new = written[g] + 1
  OBVIOUS
<1>1. /\ g \in Active
      /\ written' = [written EXCEPT ![g] = new]
      /\ file' = [file EXCEPT ![g] = @ \cup {new}]
      /\ raced' = IF Cutting(g) = {} THEN raced
                  ELSE [raced EXCEPT ![g] = @ \cup {new}]
      /\ UNCHANGED <<task, stage, tail>>
  BY <1>0 DEF AppendLine
<1>2. /\ written \in [Files -> Nat] /\ file \in [Files -> SUBSET Lines]
      /\ raced \in [Files -> SUBSET Lines] /\ tail \in [Procs -> SUBSET Lines]
      /\ "ledger" \in Files
  BY DEF NInv, TInv, LTypeOK, Files, Active
<1>3. CASE g # "ledger"
  <2>1. /\ written'["ledger"] = written["ledger"]
        /\ file'["ledger"] = file["ledger"]
        /\ raced'["ledger"] = raced["ledger"]
    BY <1>1, <1>2, <1>3
  <2> QED
    BY <1>1, <2>1 DEF NInv, NoHoles, TailClosed
<1>4. CASE g = "ledger"
  <2>1. /\ written'[g] = new /\ file'[g] = file[g] \cup {new}
        /\ raced[g] \subseteq raced'[g]
        /\ Cutting(g) # {} => new \in raced'[g]
    BY <1>1, <1>2
  <2>2. \A l \in Lines : \A m \in l..new : m = new \/ m \in l..written[g]
    BY <1>0, <1>2 DEF Lines
  <2>3. NoHoles'
    <3> SUFFICES ASSUME NEW l \in file'[g], NEW m \in l..new
                 PROVE  m \in file'[g] \cup raced'[g]
      BY <1>4, <2>1 DEF NoHoles
    <3>1. CASE l \in file[g]
      <4>1. l \in Lines
        BY <1>2, <3>1
      <4> QED
        BY <1>4, <2>1, <2>2, <3>1, <4>1 DEF NInv, NoHoles
    <3>2. CASE l = new
      <4>1. m = new
        BY <1>0, <1>2, <3>2
      <4> QED
        BY <2>1, <4>1
    <3> QED
      BY <2>1, <3>1, <3>2
  <2>4. TailClosed'
    <3> SUFFICES ASSUME NEW q \in Procs, tail[q] # {}
                 PROVE  /\ task[q] = "ledger" /\ stage[q] \in {"cut", "tail"}
                        /\ \A l \in tail[q] : \A m \in l..new :
                              m \in tail[q] \cup raced'[g]
      BY <1>1, <1>4, <2>1 DEF TailClosed
    <3>1. /\ task[q] = "ledger" /\ stage[q] \in {"cut", "tail"}
          /\ \A l \in tail[q] : \A m \in l..written[g] :
                m \in tail[q] \cup raced[g]
      BY <1>4 DEF NInv, TailClosed
    <3>2. q \in Cutting(g)
      BY <1>4, <3>1 DEF Cutting
    <3>3. \A l \in tail[q] : l \in Lines
      BY <1>2
    <3> QED
      BY <2>1, <2>2, <3>1, <3>2, <3>3
  <2> QED
    BY <2>3, <2>4 DEF NInv
<1> QED
  BY <1>3, <1>4

LEMMA RetentionHoles == ASSUME NInv, TInv', RetentionPasses PROVE NInv'
<1>1. UNCHANGED <<file, written, task, stage, tail, raced>>
  BY DEF RetentionPasses
<1> QED
  BY <1>1 DEF NInv, NoHoles, TailClosed

\* The last lines of a file without holes have no holes.
LEMMA CheckIdentityHoles ==
    ASSUME NInv, TInv', NEW p \in Procs, CheckIdentity(p) PROVE NInv'
<1>1. UNCHANGED <<file, written, raced>> /\ stage[p] = "check"
  BY DEF CheckIdentity
<1>2. \A q \in Procs \ {p} : /\ task'[q] = task[q] /\ stage'[q] = stage[q]
                             /\ tail'[q] = tail[q]
  BY OthersStay DEF MaintainStep, NInv
<1>3. CASE p \notin fresh
  <2>1. tail'[p] = {}
    BY <1>1, <1>3, NoTail DEF CheckIdentity
  <2> QED
    BY <1>1, <1>2, <2>1, SameLedger
<1>4. CASE p \in fresh
  <2>1. PICK T \in TailsOf(task[p]) : tail' = [tail EXCEPT ![p] = T]
    BY <1>4 DEF CheckIdentity
  <2>2. tail'[p] = T
    BY <2>1 DEF NInv, TInv, LTypeOK
  <2>3. task'[p] = task[p] /\ stage'[p] = "cut"
    BY <1>4, GotoMoves DEF CheckIdentity, NInv
  <2>4. CASE T = {}
    BY <1>1, <1>2, <2>2, <2>4, SameLedger
  <2>5. CASE T # {}
    <3>1. /\ task[p] = "ledger" /\ T \subseteq file["ledger"]
          /\ \A l \in T, m \in file["ledger"] : m > l => m \in T
      BY <2>1, <2>5 DEF TailsOf, Tails
    <3>2. ASSUME NEW l \in T, NEW m \in l..written["ledger"]
          PROVE  m \in T \cup raced["ledger"]
      <4>1. m \in file["ledger"] \cup raced["ledger"]
        BY <3>1 DEF NInv, NoHoles
      <4>2. l \in Nat /\ (m = l \/ m > l)
        <5>1. l \in Lines
          BY <3>1 DEF NInv, TInv, LTypeOK, Files, Active
        <5> QED
          BY <5>1 DEF Lines
      <4> QED
        BY <3>1, <4>1, <4>2
    <3>3. TailClosed'
      <4> SUFFICES ASSUME NEW q \in Procs, tail'[q] # {}
                   PROVE /\ task'[q] = "ledger"
                         /\ stage'[q] \in {"cut", "tail"}
                         /\ \A l \in tail'[q] : \A m \in l..written["ledger"] :
                               m \in tail'[q] \cup raced["ledger"]
        BY <1>1 DEF TailClosed
      <4>1. CASE q = p
        BY <2>2, <2>3, <3>1, <3>2, <4>1
      <4>2. CASE q # p
        BY <1>2, <4>2 DEF NInv, TailClosed
      <4> QED
        BY <4>1, <4>2
    <3> QED
      BY <1>1, <3>3 DEF NInv, NoHoles
  <2> QED
    BY <2>4, <2>5
<1> QED
  BY <1>3, <1>4

\* What survives beyond the tail was written last.
LEMMA WriteTailHoles ==
    ASSUME NInv, TInv', NEW p \in Procs, WriteTail(p) PROVE NInv'
<1>0. PICK f : f = task[p]
  OBVIOUS
<1>1. /\ UNCHANGED <<written, raced>> /\ stage[p] = "tail"
      /\ tail' = [tail EXCEPT ![p] = {}]
  BY DEF WriteTail
<1>2. PICK rest \in SUBSET file[f] :
        /\ tail[p] = {} => rest = file[f]
        /\ \A l \in rest, m \in file[f] : m > l => m \in rest
        /\ file' = [file EXCEPT ![f] = tail[p] \cup rest]
  BY <1>0 DEF WriteTail
<1>3. \A q \in Procs \ {p} : /\ task'[q] = task[q] /\ stage'[q] = stage[q]
                             /\ tail'[q] = tail[q]
  BY OthersStay DEF MaintainStep, NInv
<1>4. /\ tail'[p] = {} /\ f \in Files /\ file \in [Files -> SUBSET Lines]
      /\ "ledger" \in Files
  BY <1>0, <1>1 DEF NInv, TInv, LTypeOK, Tasks, Fits, Files, Active
<1>5. CASE f # "ledger" \/ tail[p] = {}
  <2>1. file'["ledger"] = file["ledger"]
    BY <1>2, <1>4, <1>5
  <2> QED
    BY <1>1, <1>3, <1>4, <2>1, SameLedger
<1>6. CASE f = "ledger" /\ tail[p] # {}
  <2>1. file'["ledger"] = tail[p] \cup rest
    BY <1>2, <1>4, <1>6
  <2>2. \A l \in tail[p] : \A m \in l..written["ledger"] :
          m \in tail[p] \cup raced["ledger"]
    BY <1>6 DEF NInv, TailClosed
  <2>3. ASSUME NEW l \in rest, NEW m \in l..written["ledger"]
        PROVE  m \in rest \cup raced["ledger"]
    <3>1. m \in file["ledger"] \cup raced["ledger"]
      BY <1>6 DEF NInv, NoHoles
    <3>2. l \in Nat /\ (m = l \/ m > l)
      <4>1. l \in Lines
        BY <1>4
      <4> QED
        BY <4>1 DEF Lines
    <3> QED
      BY <1>2, <1>6, <3>1, <3>2
  <2>4. NoHoles'
    BY <1>1, <2>1, <2>2, <2>3 DEF NoHoles
  <2>5. TailClosed'
    BY <1>1, <1>3, <1>4 DEF NInv, TailClosed
  <2> QED
    BY <2>4, <2>5 DEF NInv
<1> QED
  BY <1>5, <1>6

\* All the others leave the ledger as it is, or empty it.
LEMMA RunHoles ==
    ASSUME NInv, TInv', NEW p \in Procs,
           \/ StartRun(p) \/ ListActive(p) \/ SkipRecent(p) \/ ListLegacy(p)
           \/ DropLegacy(p) \/ UnlinkTarget(p)
           \/ CreateArchive(p) \/ FinishCopy(p) \/ Cut(p)
           \/ ListExpired(p) \/ ListOverCap(p) \/ UnlinkDue(p)
           \/ MissDue(p) \/ EndSweep(p) \/ Fail(p) \/ Crash(p)
    PROVE  NInv'
<1>1. \A q \in Procs \ {p} : /\ task'[q] = task[q] /\ stage'[q] = stage[q]
                             /\ tail'[q] = tail[q]
  BY OthersStay DEF MaintainStep, NInv
<1>2. /\ written' = written /\ raced' = raced
      /\ file' = file \/ file' = [file EXCEPT !["legacy"] = {}]
         \/ file' = [file EXCEPT ![task[p]] = {}]
  BY DEF StartRun, ListActive, SkipRecent, ListLegacy, DropLegacy,
         UnlinkTarget, CreateArchive, FinishCopy, Cut, ListExpired,
         ListOverCap, UnlinkDue, MissDue, EndSweep, Fail, Crash
<1>3. file'["ledger"] \in {file["ledger"], {}}
  BY <1>2 DEF NInv, TInv, LTypeOK, Files, Active
<1>4. CASE Cut(p) /\ task[p] \in Active
  <2>1. tail' = tail /\ task'[p] = task[p] /\ stage'[p] = "tail"
    BY <1>4, GotoMoves DEF Cut, NInv
  <2> QED
    BY <1>1, <1>2, <1>3, <2>1, SameLedger
<1>5. CASE Cut(p) /\ task[p] \notin Active
  <2>1. tail'[p] = {}
    BY <1>5 DEF Cut, NInv, TailClosed, Active
  <2> QED
    BY <1>1, <1>2, <1>3, <2>1, SameLedger
<1>6. CASE Fail(p) \/ Crash(p)
  <2>1. tail'[p] = {}
    BY <1>6 DEF Fail, Crash, NInv, TInv, LTypeOK
  <2> QED
    BY <1>1, <1>2, <1>3, <2>1, SameLedger
<1>7. CASE ~(Cut(p) \/ Fail(p) \/ Crash(p))
  <2>1. tail' = tail /\ stage[p] \notin {"cut", "tail"}
    BY <1>7 DEF StartRun, ListActive, SkipRecent, ListLegacy, DropLegacy,
       UnlinkTarget, CreateArchive, FinishCopy, ListExpired, ListOverCap,
       UnlinkDue, MissDue, EndSweep, NInv, TInv, Tasks, Fits
  <2>2. tail'[p] = {}
    BY <2>1, NoTail
  <2> QED
    BY <1>1, <1>2, <1>3, <2>2, SameLedger
<1> QED
  BY <1>4, <1>5, <1>6, <1>7

LEMMA InitHoles == ASSUME LInit PROVE NInv
<1>1. /\ written = [f \in Files |-> IF f = "legacy" THEN quota[f] ELSE 0]
      /\ file = [f \in Files |-> 1..written[f]]
      /\ tail = [p \in Procs |-> {}] /\ "ledger" \in Files
  BY DEF LInit, Files, Active
<1>2. file["ledger"] = {}
  BY <1>1
<1> QED
  BY <1>1, <1>2, InitTypes DEF NInv, NoHoles, TailClosed

LEMMA HolesInductive == ASSUME NInv, [LNext]_lvars PROVE NInv'
<1>1. TInv'
  BY TypesInductive DEF NInv
<1>2. ASSUME NEW f \in Active, AppendLine(f) PROVE NInv'
  BY <1>1, <1>2, AppendLineHoles DEF Files
<1>3. CASE RetentionPasses
  BY <1>1, <1>3, RetentionHoles
<1>4. ASSUME NEW p \in Procs,
             StartRun(p) \/ MaintainStep(p) \/ Fail(p) \/ Crash(p)
      PROVE  NInv'
  BY <1>1, <1>4, CheckIdentityHoles, WriteTailHoles, RunHoles
     DEF MaintainStep
<1>5. CASE UNCHANGED lvars \/ \E p \in Procs : KillShell(p)
  BY <1>1, <1>5, RunsUntouched DEF NInv, NoHoles, TailClosed
<1> QED
  BY <1>2, <1>3, <1>4, <1>5 DEF LNext

\* A reader of the ledger who sees a line sees all the later ones, but for
\* those written while it was being rewritten: for any number of overlapping
\* compactions, interrupted anywhere.
THEOREM NoHolesHolds == LSpec => []NoHoles
<1>1. LInit => NInv
  BY InitHoles
<1>2. NInv /\ [LNext]_lvars => NInv'
  BY HolesInductive
<1>3. NInv => NoHoles
  BY DEF NInv
<1> QED
  BY <1>1, <1>2, <1>3, PTL DEF LSpec
-----------------------------------------------------------------------------
(* What archives and files hold, and when archives were written.           *)

\* Only lines that were written.
Below ==
    /\ \A f \in Files : file[f] \cup retired[f] \subseteq 1..written[f]
    /\ \A a \in archives : a.lines \subseteq 1..written[a.of]
    /\ \A p \in Procs : tail[p] \subseteq 1..written["ledger"]

\* No two archives at the same time, and retention passes for the oldest first.
Stamped ==
    \A a, b \in archives : /\ a.at = b.at => a = b
                           /\ a.old /\ b.at <= a.at => b.old

Whole == 1..written["legacy"]

\* A legacy archive is copied as a whole or not at all.
WholeLegacy ==
    /\ file["legacy"] \in {{}, Whole}
    /\ \A a \in archives : a.of = "legacy" => a.lines \in {{}, Whole}

BInv == NInv /\ Below /\ Stamped /\ WholeLegacy

LEMMA StampedFewer ==
    ASSUME Stamped, archives' \subseteq archives PROVE Stamped'
  BY DEF Stamped

LEMMA StampedNew ==
    ASSUME Stamped, TInv, NEW A \in SUBSET archives, NEW new,
           archives' = A \cup {new}, new.at = Newest + 1, ~new.old
    PROVE  Stamped'
<1>1. Newest \in Nat /\ \A a \in archives : a.at \in Nat /\ a.at <= Newest
  BY NewestBounds DEF TInv, LTypeOK
<1>2. \A a \in archives : a.at < new.at /\ a.at # new.at /\ ~(new.at <= a.at)
  BY <1>1
<1> QED
  BY <1>2 DEF Stamped

LEMMA StampedSettled ==
    ASSUME Stamped, TInv, NEW p, archives' = Settled(p) PROVE Stamped'
<1>1. archives' = {Settle(a, p) : a \in archives} /\ archives \subseteq Archive
  BY SettledIs DEF TInv, LTypeOK
<1>2. ASSUME NEW b1 \in archives', NEW b2 \in archives'
      PROVE  /\ b1.at = b2.at => b1 = b2
             /\ b1.old /\ b2.at <= b1.at => b2.old
  <2>1. PICK a1 \in archives : b1 = Settle(a1, p)
    BY <1>1
  <2>2. PICK a2 \in archives : b2 = Settle(a2, p)
    BY <1>1
  <2>3. /\ b1.at = a1.at /\ b1.old = a1.old
        /\ b2.at = a2.at /\ b2.old = a2.old
    BY <1>1, <2>1, <2>2, SettleType
  <2> QED
    BY <2>1, <2>2, <2>3 DEF Stamped
<1> QED
  BY <1>2 DEF Stamped

LEMMA StampedAged ==
    ASSUME Stamped, TInv, RetentionPasses PROVE Stamped'
<1>1. archives' = {Aged(a) : a \in archives} /\ archives \subseteq Archive
  BY AgedArchives DEF TInv, LTypeOK
<1>2. ASSUME NEW b1 \in archives', NEW b2 \in archives'
      PROVE  /\ b1.at = b2.at => b1 = b2
             /\ b1.old /\ b2.at <= b1.at => b2.old
  <2>1. PICK a1 \in archives : b1 = Aged(a1)
    BY <1>1
  <2>2. PICK a2 \in archives : b2 = Aged(a2)
    BY <1>1
  <2>3. b1.at = a1.at /\ b2.at = a2.at /\ b2.old
    BY <1>1, <2>1, <2>2, AgedType
  <2> QED
    BY <2>1, <2>2, <2>3 DEF Stamped
<1> QED
  BY <1>2 DEF Stamped

\* An archive that is there after a step was there before, with the same
\* lines.
Descends(b) ==
    \E a \in archives : /\ b.of = a.of /\ b.lines = a.lines
                        /\ b.done = a.done /\ b.at = a.at

\* Or it is the one a run has just created or finished.
Fresh(b, p) ==
    /\ b.of = task[p] /\ task[p] \in Files
    /\ \/ CreateArchive(p) /\ b.lines = {} /\ ~b.done
       \/ /\ FinishCopy(p) /\ b.done /\ b.at = Newest + 1
          /\ b.lines = IF p \in fresh THEN file[task[p]] ELSE {}

LEMMA SettledDescend ==
    ASSUME TInv, NEW p, archives' = Settled(p)
    PROVE  \A b \in archives' : Descends(b)
<1>1. archives' = {Settle(a, p) : a \in archives} /\ archives \subseteq Archive
  BY SettledIs DEF TInv, LTypeOK
<1> QED
  BY <1>1, SettleType DEF Descends

LEMMA AgedDescend ==
    ASSUME TInv, RetentionPasses
    PROVE  \A b \in archives' : Descends(b)
<1>1. archives' = {Aged(a) : a \in archives} /\ archives \subseteq Archive
  BY AgedArchives DEF TInv, LTypeOK
<1> QED
  BY <1>1, AgedType DEF Descends

LEMMA ArchivesStep ==
    ASSUME TInv, Stamped, NEW p \in Procs,
           StartRun(p) \/ MaintainStep(p) \/ Fail(p) \/ Crash(p)
    PROVE  Stamped' /\ \A b \in archives' : Descends(b) \/ Fresh(b, p)
<1>1. CASE archives' \subseteq archives
  BY <1>1, StampedFewer DEF Descends
<1>2. CASE archives' = Settled(p)
  BY <1>2, StampedSettled, SettledDescend
<1>3. Fits(task[p], stage[p])
  BY DEF TInv, Tasks
<1>4. CASE CreateArchive(p) /\ archives' # archives
  <2>1. PICK torn : /\ archives' = archives \cup {torn}
                    /\ torn = [of |-> task[p], lines |-> {}, done |-> FALSE,
                               old |-> FALSE, by |-> p, at |-> Newest + 1]
    BY <1>4 DEF CreateArchive
  <2>2. /\ torn.of = task[p] /\ torn.lines = {} /\ ~torn.done /\ ~torn.old
        /\ torn.at = Newest + 1
    BY <2>1
  <2>3. task[p] \in Files
    BY <1>3, <1>4 DEF CreateArchive, Fits
  <2>4. \A b \in archives' : Descends(b) \/ Fresh(b, p)
    BY <1>4, <2>1, <2>2, <2>3 DEF Descends, Fresh
  <2> QED
    BY <2>1, <2>2, <2>4, StampedNew
<1>5. CASE FinishCopy(p) /\ Mine(p) # {}
  <2>1. PICK copied : copied = IF p \in fresh THEN file[task[p]] ELSE {}
    OBVIOUS
  <2>2. PICK new : /\ archives' = (archives \ Mine(p)) \cup {new}
                   /\ new = [of |-> task[p], lines |-> copied, done |-> TRUE,
                             old |-> FALSE, by |-> p, at |-> Newest + 1]
    BY <1>5, <2>1 DEF FinishCopy
  <2>3. /\ new.of = task[p] /\ new.lines = copied /\ new.done /\ ~new.old
        /\ new.at = Newest + 1
    BY <2>2
  <2>4. task[p] \in Files
    BY <1>3, <1>5 DEF FinishCopy, Fits
  <2>5. \A b \in archives' : Descends(b) \/ Fresh(b, p)
    BY <1>5, <2>1, <2>2, <2>3, <2>4 DEF Descends, Fresh
  <2>6. archives \ Mine(p) \in SUBSET archives
    OBVIOUS
  <2> QED
    BY <2>2, <2>3, <2>5, <2>6, StampedNew
<1>6. \/ archives' \subseteq archives \/ archives' = Settled(p)
      \/ CreateArchive(p) /\ archives' # archives
      \/ FinishCopy(p) /\ Mine(p) # {}
  <2>1. CASE \/ StartRun(p) \/ ListActive(p) \/ SkipRecent(p)
             \/ ListLegacy(p) \/ DropLegacy(p)
    BY <2>1 DEF StartRun, ListActive, SkipRecent, ListLegacy, DropLegacy
  <2>2. CASE UnlinkTarget(p) \/ CheckIdentity(p)
    BY <2>2 DEF UnlinkTarget, CheckIdentity
  <2>3. CASE CreateArchive(p) \/ FinishCopy(p)
    BY <2>3 DEF CreateArchive, FinishCopy
  <2>4. CASE Cut(p) \/ WriteTail(p)
    BY <2>4 DEF Cut, WriteTail
  <2>5. CASE \/ ListExpired(p) \/ ListOverCap(p) \/ UnlinkDue(p)
             \/ MissDue(p) \/ EndSweep(p)
    BY <2>5 DEF ListExpired, ListOverCap, UnlinkDue, MissDue, EndSweep
  <2>6. CASE Fail(p) \/ Crash(p)
    BY <2>6 DEF Fail, Crash
  <2> QED
    BY <2>1, <2>2, <2>3, <2>4, <2>5, <2>6 DEF MaintainStep
<1> QED
  BY <1>1, <1>2, <1>4, <1>5, <1>6

\* What a run does to the files.
LEMMA FilesStep ==
    ASSUME BInv, NEW p \in Procs,
           StartRun(p) \/ MaintainStep(p) \/ Fail(p) \/ Crash(p)
    PROVE  /\ written' = written
           /\ \A f \in Files : \/ file'[f] \in {file[f], {}}
                               \/ /\ f = task[p] /\ f # "legacy"
                                  /\ WriteTail(p)
                                  /\ tail[p] # {} => f = "ledger"
                                  /\ file'[f] \subseteq file[f] \cup tail[p]
<1>1. written' = written
  BY DEF StartRun, MaintainStep, ListActive, SkipRecent, ListLegacy,
         DropLegacy, UnlinkTarget, CreateArchive, FinishCopy, CheckIdentity,
         Cut, WriteTail, ListExpired, ListOverCap, UnlinkDue, MissDue,
         EndSweep, Fail, Crash
<1>2. file \in [Files -> SUBSET Lines]
  BY DEF BInv, NInv, TInv, LTypeOK
<1>3. CASE WriteTail(p)
  <2>1. PICK rest \in SUBSET file[task[p]] :
          file' = [file EXCEPT ![task[p]] = tail[p] \cup rest]
    BY <1>3 DEF WriteTail
  <2>2. task[p] \in Active
    BY <1>3 DEF WriteTail, BInv, NInv, TInv, Tasks, Fits
  <2>3. tail[p] # {} => task[p] = "ledger"
    BY DEF BInv, NInv, TailClosed
  <2> QED
    BY <1>1, <1>2, <1>3, <2>1, <2>2, <2>3 DEF Active
<1>4. CASE ~WriteTail(p)
  <2>1. \/ file' = file \/ file' = [file EXCEPT !["legacy"] = {}]
        \/ file' = [file EXCEPT ![task[p]] = {}]
    BY <1>4
       DEF StartRun, MaintainStep, ListActive, SkipRecent, ListLegacy,
           DropLegacy, UnlinkTarget, CreateArchive, FinishCopy, CheckIdentity,
           Cut, ListExpired, ListOverCap, UnlinkDue, MissDue, EndSweep, Fail,
           Crash
  <2> QED
    BY <1>1, <1>2, <2>1
<1> QED
  BY <1>3, <1>4

LEMMA RetiredStep ==
    ASSUME BInv, NEW p \in Procs,
           StartRun(p) \/ MaintainStep(p) \/ Fail(p) \/ Crash(p)
    PROVE  \A f \in Files : retired'[f] \subseteq 1..written[f]
<1>1. \A f \in Files : file[f] \cup retired[f] \subseteq 1..written[f]
  BY DEF BInv, Below
<1>2. retired \in [Files -> SUBSET Lines]
  BY DEF BInv, NInv, TInv, LTypeOK
<1>3. CASE retired' = retired
  BY <1>1, <1>3
<1>4. CASE DropLegacy(p) /\ retired' # retired
  <2>1. retired' = [retired EXCEPT !["legacy"] = @ \cup file["legacy"]]
    BY <1>4 DEF DropLegacy
  <2> QED
    BY <1>1, <1>2, <2>1
<1>5. CASE UnlinkDue(p)
  <2>1. PICK a \in archives :
          retired' = [retired EXCEPT ![a.of] =
                        IF a.done THEN @ \cup a.lines ELSE @]
    BY <1>5, InSomeDirectory DEF UnlinkDue
  <2>2. a.lines \subseteq 1..written[a.of]
    BY DEF BInv, Below
  <2> QED
    BY <1>1, <1>2, <2>1, <2>2
<1>6. \/ retired' = retired \/ DropLegacy(p) \/ UnlinkDue(p)
  BY DEF StartRun, MaintainStep, ListActive, SkipRecent, ListLegacy,
         UnlinkTarget, CreateArchive, FinishCopy, CheckIdentity, Cut,
         WriteTail, ListExpired, ListOverCap, MissDue, EndSweep, Fail, Crash
<1> QED
  BY <1>3, <1>4, <1>5, <1>6

LEMMA TailStep ==
    ASSUME BInv, NEW p \in Procs,
           StartRun(p) \/ MaintainStep(p) \/ Fail(p) \/ Crash(p)
    PROVE  \A q \in Procs : tail'[q] \subseteq 1..written["ledger"]
<1>1. \A q \in Procs : tail[q] \subseteq 1..written["ledger"]
  BY DEF BInv, Below
<1>2. tail \in [Procs -> SUBSET Lines]
  BY DEF BInv, NInv, TInv, LTypeOK
<1>3. CASE CheckIdentity(p) /\ tail' # tail
  <2>1. PICK T \in TailsOf(task[p]) : tail' = [tail EXCEPT ![p] = T]
    BY <1>3 DEF CheckIdentity
  <2>2. T = {} \/ T \subseteq file["ledger"]
    BY <2>1 DEF TailsOf, Tails
  <2>3. T \subseteq 1..written["ledger"]
    BY <2>2 DEF BInv, Below, Files, Active
  <2> QED
    BY <1>1, <1>2, <2>1, <2>3
<1>4. \/ tail' = tail \/ CheckIdentity(p)
      \/ tail' = [tail EXCEPT ![p] = {}]
  BY DEF StartRun, MaintainStep, ListActive, SkipRecent, ListLegacy,
         DropLegacy, UnlinkTarget, CreateArchive, FinishCopy, Cut, WriteTail,
         ListExpired, ListOverCap, UnlinkDue, MissDue, EndSweep, Fail, Crash
<1> QED
  BY <1>1, <1>2, <1>3, <1>4

LEMMA RunBelow ==
    ASSUME BInv, NInv', NEW p \in Procs,
           StartRun(p) \/ MaintainStep(p) \/ Fail(p) \/ Crash(p)
    PROVE  BInv'
<1>1. Stamped' /\ \A b \in archives' : Descends(b) \/ Fresh(b, p)
  BY ArchivesStep DEF BInv, NInv
<1>2. written' = written
  BY FilesStep
<1>3. \A f \in Files : file'[f] \subseteq 1..written[f]
  BY FilesStep DEF BInv, Below
<1>4. \A b \in archives' : b.lines \subseteq 1..written[b.of]
  BY <1>1 DEF BInv, Below, Descends, Fresh
<1>5. Below'
  BY <1>2, <1>3, <1>4, RetiredStep, TailStep DEF Below
<1>6. file'["legacy"] \in {{}, Whole}
  <2>1. file'["legacy"] \in {file["legacy"], {}}
    BY FilesStep DEF Files
  <2> QED
    BY <2>1 DEF BInv, WholeLegacy
<1>7. \A b \in archives' : b.of = "legacy" => b.lines \in {{}, Whole}
  BY <1>1 DEF BInv, WholeLegacy, Descends, Fresh
<1>8. WholeLegacy'
  BY <1>2, <1>6, <1>7 DEF WholeLegacy, Whole
<1> QED
  BY <1>1, <1>5, <1>8 DEF BInv

LEMMA AppendLineBelow ==
    ASSUME BInv, NInv', NEW g \in Files, AppendLine(g) PROVE BInv'
<1>0. PICK new : new = written[g] + 1
  OBVIOUS
<1>1. /\ g \in Active
      /\ written' = [written EXCEPT ![g] = new]
      /\ file' = [file EXCEPT ![g] = @ \cup {new}]
      /\ UNCHANGED <<archives, tail, retired>>
  BY <1>0 DEF AppendLine
<1>2. /\ written \in [Files -> Nat] /\ file \in [Files -> SUBSET Lines]
      /\ archives \subseteq Archive
  BY DEF BInv, NInv, TInv, LTypeOK
<1>3. /\ \A f \in Files : f # g => /\ written'[f] = written[f]
                                   /\ file'[f] = file[f]
      /\ written'[g] = new /\ file'[g] = file[g] \cup {new}
  BY <1>1, <1>2
<1>4. \A f \in Files : 1..written[f] \subseteq 1..written'[f]
  BY <1>0, <1>2, <1>3
<1>5. new \in 1..written'[g]
  BY <1>0, <1>2, <1>3
<1>6. Below'
  <2>1. \A f \in Files : file'[f] \cup retired'[f] \subseteq 1..written'[f]
    BY <1>1, <1>3, <1>4, <1>5 DEF BInv, Below
  <2>2. \A a \in archives' : a.lines \subseteq 1..written'[a.of]
    BY <1>1, <1>2, <1>4, ArchiveFields DEF BInv, Below
  <2>3. \A q \in Procs : tail'[q] \subseteq 1..written'["ledger"]
    BY <1>1, <1>4 DEF BInv, Below, Files, Active
  <2> QED
    BY <2>1, <2>2, <2>3 DEF Below
<1>7. WholeLegacy'
  <2>1. "legacy" \in Files /\ g # "legacy"
    BY <1>1 DEF Files, Active
  <2>2. file'["legacy"] = file["legacy"] /\ Whole' = Whole
    BY <1>3, <2>1 DEF Whole
  <2> QED
    BY <1>1, <2>2 DEF BInv, WholeLegacy
<1>8. Stamped'
  BY <1>1 DEF BInv, Stamped
<1> QED
  BY <1>6, <1>7, <1>8 DEF BInv

LEMMA RetentionBelow == ASSUME BInv, NInv', RetentionPasses PROVE BInv'
<1>1. UNCHANGED <<file, written, tail, retired>>
  BY DEF RetentionPasses
<1>2. \A b \in archives' : Descends(b)
  BY AgedDescend DEF BInv, NInv
<1>3. Below' /\ WholeLegacy'
  BY <1>1, <1>2 DEF BInv, Below, WholeLegacy, Whole, Descends
<1>4. Stamped'
  BY StampedAged DEF BInv, NInv
<1> QED
  BY <1>3, <1>4 DEF BInv

LEMMA InitBelow == ASSUME LInit PROVE BInv
<1>1. /\ written = [f \in Files |-> IF f = "legacy" THEN quota[f] ELSE 0]
      /\ file = [f \in Files |-> 1..written[f]] /\ archives = {}
      /\ tail = [p \in Procs |-> {}] /\ retired = [f \in Files |-> {}]
      /\ "legacy" \in Files
  BY DEF LInit, Files, Active
<1>2. Below
  BY <1>1 DEF Below
<1>3. WholeLegacy /\ Stamped
  BY <1>1 DEF WholeLegacy, Whole, Stamped
<1> QED
  BY <1>2, <1>3, InitHoles DEF BInv

LEMMA BelowInductive == ASSUME BInv, [LNext]_lvars PROVE BInv'
<1>1. NInv'
  BY HolesInductive DEF BInv
<1>2. ASSUME NEW f \in Active, AppendLine(f) PROVE BInv'
  BY <1>1, <1>2, AppendLineBelow DEF Files
<1>3. CASE RetentionPasses
  BY <1>1, <1>3, RetentionBelow
<1>4. ASSUME NEW p \in Procs,
             StartRun(p) \/ MaintainStep(p) \/ Fail(p) \/ Crash(p)
      PROVE  BInv'
  BY <1>1, <1>4, RunBelow
<1>5. CASE UNCHANGED lvars \/ \E p \in Procs : KillShell(p)
  BY <1>1, <1>5, RunsUntouched DEF BInv, Below, Stamped, WholeLegacy, Whole
<1> QED
  BY <1>2, <1>3, <1>4, <1>5 DEF LNext
-----------------------------------------------------------------------------
(* Runs that do not overlap.                                               *)

Alone ==
    \A p, q \in Procs : task[p] # "none" /\ task[q] # "none" => p = q

\* A line of the legacy archive is in an archive nobody removes any more.
Stored(l) ==
    \E a \in archives : /\ a.of = "legacy" /\ a.done /\ a.by = Nobody
                        /\ l \in a.lines

\* The run has a complete copy.
Copied(p) ==
    \E a \in archives : /\ a.of = "legacy" /\ a.done /\ a.by = p
                        /\ a.lines = Whole

\* A run that moves the legacy archive finds it complete until it unlinks it,
\* and unlinks it when it has a complete copy.
Moving(p) ==
    task[p] = "legacy" =>
        /\ stage[p] # "list" => file["legacy"] = Whole
        /\ \/ stage[p] = "check" /\ p \in fresh
           \/ stage[p] = "cut"
           => Copied(p)

LegacySafe ==
    /\ \A l \in Whole :
          l \in file["legacy"] \cup retired["legacy"] \/ Stored(l)
    /\ \A p \in Procs : Moving(p)

\* No line of T is younger than the youngest of S.
Covers(S, T) == \A l \in T : \E m \in S : l <= m

Gone(f) == LinesOf(archives, f) \cup retired[f]

\* Lines leave a file for the archives and the archives for good in the order
\* in which they were written.
Ordered ==
    /\ \A a, b \in archives :
          /\ a.of = b.of /\ a.done /\ b.done /\ b.lines # {} /\ a.at <= b.at
          => Covers(b.lines, a.lines)
    /\ \A a \in archives :
          a.done /\ a.lines # {} => Covers(a.lines, retired[a.of])
    /\ \A f \in Files : file[f] # {} => Covers(file[f], Gone(f))
    /\ \A p \in Procs : tail[p] # {} => Covers(tail[p], Gone("ledger"))

\* What a run has still to delete of a directory is older than what it leaves
\* there.
Lined ==
    \A p \in Procs : stage[p] \in {"expire", "prune"} =>
        \A a, b \in InDirectory(task[p]) :
            a.at \in sweep[p] /\ b.at <= a.at => b.at \in sweep[p]

Guarded == ~overlapped => Alone /\ LegacySafe /\ Ordered /\ Lined

GInv == BInv /\ Guarded

\* In a step that leaves no overlap behind no one else is at work.
LEMMA NobodyElse ==
    ASSUME GInv, ~overlapped', NEW p \in Procs,
           StartRun(p) \/ MaintainStep(p) \/ Fail(p) \/ Crash(p)
    PROVE  /\ Alone /\ LegacySafe /\ Ordered /\ Lined /\ Alone'
           /\ \A q \in Procs \ {p} : task[q] = "none" /\ task'[q] = "none"
<1>1. /\ ~overlapped
      /\ StartRun(p) => \A q \in Procs : task[q] = "none"
      /\ ~StartRun(p) => task[p] # "none"
  BY RunIsAtWork DEF StartRun, GInv, BInv, NInv
<1>2. Alone /\ LegacySafe /\ Ordered /\ Lined
  BY <1>1 DEF GInv, Guarded
<1>3. \A q \in Procs \ {p} : task[q] = "none"
  BY <1>1, <1>2 DEF Alone
<1>4. \A q \in Procs \ {p} : task'[q] = "none"
  BY <1>3, OthersStay DEF GInv, BInv, NInv
<1>5. Alone'
  BY <1>4 DEF Alone
<1> QED
  BY <1>2, <1>3, <1>4, <1>5

LEMMA NobodyElseMoves ==
    ASSUME NEW p \in Procs, \A q \in Procs \ {p} : task'[q] = "none"
    PROVE  \A q \in Procs \ {p} : Moving(q)'
  BY DEF Moving

\* Where a run goes next.
LEMMA RunGoes ==
    ASSUME GInv, NEW p \in Procs, NEW t, NEW s, Goto(p, t, s)
    PROVE  task'[p] = t /\ stage'[p] = s
  BY GotoMoves DEF GInv, BInv, NInv
-----------------------------------------------------------------------------
(* The legacy archive survives.                                            *)

\* When the file and what is deleted stay as they are and stored archives
\* are not touched.
LEMMA StillStored ==
    ASSUME LegacySafe, Whole' = Whole,
           file'["legacy"] = file["legacy"],
           retired["legacy"] \subseteq retired'["legacy"],
           \A a \in archives : a.of = "legacy" /\ a.done /\ a.by = Nobody =>
             a \in archives' \/ a.lines \subseteq retired'["legacy"]
    PROVE  \A l \in Whole' :
             l \in file'["legacy"] \cup retired'["legacy"] \/ Stored(l)'
<1> SUFFICES ASSUME NEW l \in Whole
             PROVE  \/ l \in file["legacy"] \cup retired'["legacy"]
                    \/ Stored(l)'
  OBVIOUS
<1>1. CASE l \in file["legacy"] \cup retired["legacy"]
  BY <1>1
<1>2. CASE Stored(l)
  <2>1. PICK a \in archives : /\ a.of = "legacy" /\ a.done /\ a.by = Nobody
                              /\ l \in a.lines
    BY <1>2 DEF Stored
  <2> QED
    BY <2>1 DEF Stored
<1> QED
  BY <1>1, <1>2 DEF LegacySafe

LEMMA SettledStays ==
    ASSUME NEW p \in Procs, archives' = Settled(p)
    PROVE  \A a \in archives : a.by # p => a \in archives'
  BY DEF Settled, Mine

LEMMA LegacyStep ==
    ASSUME GInv, BInv', ~overlapped', NEW p \in Procs,
           StartRun(p) \/ MaintainStep(p) \/ Fail(p) \/ Crash(p)
    PROVE  LegacySafe'
<1> USE DEF GInv, BInv, NInv
<1>1. /\ LegacySafe
      /\ \A q \in Procs \ {p} : Moving(q)'
  BY NobodyElse, NobodyElseMoves
<1>2. Whole' = Whole
  BY FilesStep DEF Whole
<1>3. /\ file \in [Files -> SUBSET Lines]
      /\ retired \in [Files -> SUBSET Lines]
      /\ "legacy" \in Files /\ "legacy" \notin Active
      /\ Fits(task[p], stage[p]) /\ p # Nobody
      /\ file["legacy"] \in {{}, Whole}
  BY NobodyIsNoRun DEF TInv, LTypeOK, Files, Active, Tasks, WholeLegacy
<1>4. Moving(p)
  BY <1>1 DEF LegacySafe
<1>5. task'[p] # "legacy" \/ stage'[p] = "list" => Moving(p)'
  BY DEF Moving
<1>6. Moving(p)' => \A q \in Procs : Moving(q)'
  BY <1>1
<1>7. CASE StartRun(p) \/ ListActive(p) \/ SkipRecent(p)
  <2>1. UNCHANGED <<file, archives, retired>>
    BY <1>7 DEF StartRun, ListActive, SkipRecent
  <2>2. task'[p] # "legacy" \/ stage'[p] = "list"
    <3>1. StartRun(p) => Goto(p, "log", "list")
      BY DEF StartRun, Goto
    <3>2. ListActive(p) => \/ Goto(p, After[task[p]], "list")
                           \/ Goto(p, task[p], "open") /\ task[p] \in Active
      BY DEF ListActive, NextTask
    <3>3. SkipRecent(p) => Goto(p, After[task[p]], "list")
      BY DEF SkipRecent, NextTask
    <3> QED
      BY <1>3, <1>7, <3>1, <3>2, <3>3, RunGoes
  <2> QED
    BY <1>1, <1>2, <1>5, <1>6, <2>1, <2>2, StillStored DEF LegacySafe
<1>8. CASE ListLegacy(p)
  <2>1. UNCHANGED <<archives, file, retired>>
    BY <1>8 DEF ListLegacy
  <2>2. Moving(p)'
    <3>1. CASE file["legacy"] = {}
      BY <1>5, <1>8, <3>1, RunGoes DEF ListLegacy, NextTask
    <3>2. CASE file["legacy"] # {}
      <4>1. Goto(p, "legacy", "drop") \/ Goto(p, "legacy", "target")
        BY <1>8, <3>2 DEF ListLegacy
      <4>2. stage'[p] \in {"drop", "target"}
        BY <4>1, RunGoes
      <4> QED
        BY <1>2, <1>3, <2>1, <3>2, <4>2 DEF Moving
    <3> QED
      BY <3>1, <3>2
  <2> QED
    BY <1>1, <1>2, <1>6, <2>1, <2>2, StillStored DEF LegacySafe
<1>17. CASE DropLegacy(p)
  <2>1. stage'[p] = "list"
    BY <1>17, RunGoes DEF DropLegacy, NextTask, GiveUp
  <2>2. /\ archives' = archives
        /\ file["legacy"] \cup retired["legacy"]
             \subseteq file'["legacy"] \cup retired'["legacy"]
    BY <1>3, <1>17 DEF DropLegacy
  <2>3. \A l : Stored(l)' = Stored(l)
    BY <2>2 DEF Stored
  <2>4. \A l \in Whole' :
          l \in file'["legacy"] \cup retired'["legacy"] \/ Stored(l)'
    BY <1>1, <1>2, <2>2, <2>3 DEF LegacySafe
  <2> QED
    BY <1>5, <1>6, <2>1, <2>4 DEF LegacySafe
<1>9. CASE UnlinkTarget(p)
  <2>1. UNCHANGED <<file, retired>> /\ stage[p] = "target"
    BY <1>9 DEF UnlinkTarget
  <2>2. CASE GiveUp(p) /\ archives' = archives
    <3>1. stage'[p] = "list"
      BY <2>2, RunGoes DEF GiveUp
    <3> QED
      BY <1>1, <1>2, <1>5, <1>6, <2>1, <2>2, <3>1, StillStored
         DEF LegacySafe
  <2>3. CASE Goto(p, "legacy", "open")
    <3>1. file["legacy"] = Whole
      BY <1>3, <1>4, <2>1 DEF Moving, Fits
    <3>2. stage'[p] = "open"
      BY <2>3, RunGoes
    <3>3. Moving(p)'
      BY <1>2, <2>1, <3>1, <3>2 DEF Moving
    <3> QED
      BY <1>2, <1>6, <2>1, <3>1, <3>3 DEF LegacySafe
  <2> QED
    BY <1>9, <2>2, <2>3 DEF UnlinkTarget
<1>10. CASE CreateArchive(p)
  <2>1. /\ UNCHANGED <<file, retired>> /\ stage[p] = "open"
        /\ archives \subseteq archives'
        /\ Goto(p, task[p], "copy") \/ Changed(p) \/ GiveUp(p)
    BY <1>10 DEF CreateArchive
  <2>2. Moving(p)'
    <3>1. CASE Goto(p, task[p], "copy")
      <4>1. task'[p] = task[p] /\ stage'[p] = "copy"
        BY <3>1, RunGoes
      <4> QED
        BY <1>2, <1>4, <2>1, <4>1 DEF Moving
    <3>2. CASE Changed(p) \/ GiveUp(p)
      BY <1>5, <3>2, ChangedMoves, RunGoes DEF GiveUp
    <3> QED
      BY <2>1, <3>1, <3>2
  <2> QED
    BY <1>1, <1>2, <1>6, <2>1, <2>2, StillStored DEF LegacySafe
<1>11. CASE FinishCopy(p)
  <2>1. /\ UNCHANGED <<file, retired, fresh>> /\ stage[p] = "copy"
        /\ archives \ Mine(p) \subseteq archives'
    BY <1>11 DEF FinishCopy
  <2>2. \A a \in archives : a.by = Nobody => a \in archives'
    BY <1>3, <2>1 DEF Mine
  <2>3. Moving(p)'
    <3>1. CASE Mine(p) = {}
      BY <1>5, <1>11, <3>1, RunGoes DEF FinishCopy, GiveUp
    <3>2. CASE Mine(p) # {}
      <4>1. task'[p] = task[p] /\ stage'[p] = "check"
        BY <1>11, <3>2, RunGoes DEF FinishCopy
      <4>2. PICK copied : copied = IF p \in fresh THEN file[task[p]] ELSE {}
        OBVIOUS
      <4>3. PICK new :
              /\ new \in archives'
              /\ new = [of |-> task[p], lines |-> copied, done |-> TRUE,
                        old |-> FALSE, by |-> p, at |-> Newest + 1]
        BY <1>11, <3>2, <4>2 DEF FinishCopy
      <4>4. /\ new.of = task[p] /\ new.lines = copied /\ new.done
            /\ new.by = p
        BY <4>3
      <4>5. task[p] = "legacy" => file["legacy"] = Whole
        BY <1>4, <2>1 DEF Moving
      <4>6. task[p] = "legacy" /\ p \in fresh => Copied(p)'
        BY <1>2, <4>2, <4>3, <4>4, <4>5 DEF Copied
      <4> QED
        BY <1>2, <2>1, <4>1, <4>5, <4>6 DEF Moving
    <3> QED
      BY <3>1, <3>2
  <2> QED
    BY <1>1, <1>2, <1>6, <2>1, <2>2, <2>3, StillStored DEF LegacySafe
<1>12. CASE CheckIdentity(p)
  <2>1. /\ UNCHANGED <<file, retired, fresh>> /\ stage[p] = "check"
        /\ archives \ Mine(p) \subseteq archives'
    BY <1>12 DEF CheckIdentity
  <2>2. \A a \in archives : a.by = Nobody => a \in archives'
    BY <1>3, <2>1 DEF Mine
  <2>3. Moving(p)'
    <3>1. CASE p \notin fresh
      BY <1>5, <1>12, <3>1, ChangedMoves, RunGoes DEF CheckIdentity, GiveUp
    <3>2. CASE p \in fresh
      <4>1. /\ task'[p] = task[p] /\ stage'[p] = "cut"
            /\ archives' = archives
        BY <1>12, <3>2, RunGoes DEF CheckIdentity
      <4>2. Copied(p)' = Copied(p)
        BY <1>2, <4>1 DEF Copied
      <4> QED
        BY <1>2, <1>4, <2>1, <3>2, <4>1, <4>2 DEF Moving
    <3> QED
      BY <3>1, <3>2
  <2> QED
    BY <1>1, <1>2, <1>6, <2>1, <2>2, <2>3, StillStored DEF LegacySafe
<1>13. CASE Cut(p)
  <2>1. /\ stage[p] = "cut" /\ file' = [file EXCEPT ![task[p]] = {}]
        /\ retired' = retired
    BY <1>13 DEF Cut
  <2>2. CASE task[p] \in Active
    <3>1. Goto(p, task[p], "tail") /\ archives' = archives
      BY <1>13, <2>2 DEF Cut
    <3>2. task'[p] # "legacy" /\ file'["legacy"] = file["legacy"]
      BY <1>3, <2>1, <2>2, <3>1, RunGoes
    <3> QED
      BY <1>1, <1>2, <1>5, <1>6, <2>1, <3>1, <3>2, StillStored DEF LegacySafe
  <2>3. CASE task[p] \notin Active
    <3>1. NextTask(p) /\ archives' = Settled(p)
      BY <1>13, <2>3 DEF Cut
    <3>2. stage'[p] = "list"
      BY <3>1, RunGoes DEF NextTask
    <3>3. task[p] = "legacy"
      BY <1>3, <2>1, <2>3 DEF Fits, Files
    <3>4. PICK a \in archives : /\ a.of = "legacy" /\ a.done /\ a.by = p
                                /\ a.lines = Whole
      BY <1>4, <2>1, <3>3 DEF Moving, Copied
    <3>5. archives \subseteq Archive
      BY DEF TInv, LTypeOK
    <3>6. /\ Settle(a, p) \in archives' /\ Settle(a, p).of = "legacy"
          /\ Settle(a, p).done /\ Settle(a, p).by = Nobody
          /\ Settle(a, p).lines = Whole
      BY <3>1, <3>4, <3>5, SettledIs, SettleType
    <3>7. \A l \in Whole' : Stored(l)'
      BY <1>2, <3>6 DEF Stored
    <3> QED
      BY <1>5, <1>6, <3>2, <3>7 DEF LegacySafe
  <2> QED
    BY <2>2, <2>3
<1>14. CASE WriteTail(p)
  <2>1. /\ archives' = Settled(p) /\ NextTask(p) /\ retired' = retired
        /\ stage[p] = "tail"
        /\ \E S : file' = [file EXCEPT ![task[p]] = S]
    BY <1>14 DEF WriteTail
  <2>2. file'["legacy"] = file["legacy"]
    BY <1>3, <2>1 DEF Fits
  <2>3. stage'[p] = "list"
    BY <2>1, RunGoes DEF NextTask
  <2>4. \A a \in archives : a.by = Nobody => a \in archives'
    BY <1>3, <2>1, SettledStays
  <2> QED
    BY <1>1, <1>2, <1>5, <1>6, <2>1, <2>2, <2>3, <2>4, StillStored
       DEF LegacySafe
<1>15. CASE UnlinkDue(p)
  <2>1. PICK a \in archives :
          /\ archives' = archives \ {a}
          /\ retired' = [retired EXCEPT ![a.of] =
                            IF a.done THEN @ \cup a.lines ELSE @]
    BY <1>15, InSomeDirectory DEF UnlinkDue
  <2>2. file' = file /\ stage[p] \in {"expire", "prune"}
    BY <1>15 DEF UnlinkDue
  <2>3. /\ retired["legacy"] \subseteq retired'["legacy"]
        /\ a.of = "legacy" /\ a.done => a.lines \subseteq retired'["legacy"]
    BY <1>3, <2>1
  <2>4. task'[p] # "legacy"
    BY <1>3, <1>15, <2>2, UnlinkDueStays, RunGoes DEF Fits
  <2> QED
    BY <1>1, <1>2, <1>5, <1>6, <2>1, <2>2, <2>3, <2>4, StillStored
       DEF LegacySafe
<1>18. CASE ListExpired(p) \/ ListOverCap(p) \/ MissDue(p) \/ EndSweep(p)
  <2>1. UNCHANGED <<file, archives, retired>>
    BY <1>18 DEF ListExpired, ListOverCap, MissDue, EndSweep
  <2>2. task[p] # "legacy"
    BY <1>3, <1>18
       DEF ListExpired, ListOverCap, MissDue, EndSweep, Fits
  <2>3. task'[p] # "legacy" \/ stage'[p] = "list"
    <3>1. \/ Goto(p, task[p], "expire") \/ Goto(p, task[p], "prune")
          \/ Goto(p, After[task[p]], "list") \/ Goto(p, "none", "list")
      BY <1>18 DEF ListExpired, ListOverCap, MissDue, EndSweep, NextTask, GiveUp
    <3> QED
      BY <2>2, <3>1, RunGoes
  <2> QED
    BY <1>1, <1>2, <1>5, <1>6, <2>1, <2>3, StillStored DEF LegacySafe
<1>16. CASE Fail(p) \/ Crash(p)
  <2>1. /\ UNCHANGED <<file, retired>> /\ Goto(p, "none", "list")
        /\ archives' = archives \ Mine(p) \/ archives' = Settled(p)
    BY <1>16 DEF Fail, Crash, GiveUp
  <2>2. \A a \in archives : a.by = Nobody => a \in archives'
    BY <1>3, <2>1, SettledStays DEF Mine
  <2>3. stage'[p] = "list"
    BY <2>1, RunGoes
  <2> QED
    BY <1>1, <1>2, <1>5, <1>6, <2>1, <2>2, <2>3, StillStored DEF LegacySafe
<1> QED
  BY <1>7, <1>8, <1>9, <1>10, <1>11, <1>12, <1>13, <1>14, <1>15, <1>16,
     <1>17, <1>18 DEF MaintainStep
-----------------------------------------------------------------------------
(* The oldest lines go first.                                              *)

LEMMA InGone ==
    ASSUME NEW f, NEW l
    PROVE  l \in Gone(f) <=> \/ l \in retired[f]
                             \/ \E a \in archives :
                                  a.of = f /\ a.done /\ l \in a.lines
  BY LineOf DEF Gone

\* When no archive is finished, nothing is deleted, and what is written back
\* is younger than what has gone.
LEMMA OrderKept ==
    ASSUME Ordered, \A b \in archives' : b.done => Descends(b),
           retired' = retired,
           \A f \in Files : file'[f] # {} => Covers(file'[f], Gone(f)),
           \A q \in Procs : tail'[q] # {} => Covers(tail'[q], Gone("ledger"))
    PROVE  Ordered'
<1>1. \A f : Gone(f)' \subseteq Gone(f)
  <2> SUFFICES ASSUME NEW f, NEW l, l \in Gone(f)' PROVE l \in Gone(f)
    OBVIOUS
  <2>1. \/ l \in retired'[f]
        \/ \E b \in archives' : b.of = f /\ b.done /\ l \in b.lines
    BY LineOf DEF Gone
  <2>2. \/ l \in retired[f]
        \/ \E a \in archives : a.of = f /\ a.done /\ l \in a.lines
    BY <2>1 DEF Descends
  <2> QED
    BY <2>2, InGone
<1>2. ASSUME NEW b1 \in archives', NEW b2 \in archives',
             b1.of = b2.of, b1.done, b2.done, b2.lines # {}, b1.at <= b2.at
      PROVE  Covers(b2.lines, b1.lines)
  BY <1>2 DEF Ordered, Descends
<1>3. ASSUME NEW b \in archives', b.done, b.lines # {}
      PROVE  Covers(b.lines, retired'[b.of])
  BY <1>3 DEF Ordered, Descends
<1>4. \A f \in Files : file'[f] # {} => Covers(file'[f], Gone(f)')
  BY <1>1 DEF Covers
<1>5. \A q \in Procs : tail'[q] # {} => Covers(tail'[q], Gone("ledger")')
  BY <1>1 DEF Covers
<1> QED
  BY <1>2, <1>3, <1>4, <1>5 DEF Ordered

\* The file holds nothing older than what is copied from it, and a copy is
\* the newest archive.
LEMMA FinishCopyOrdered ==
    ASSUME GInv, ~overlapped', NEW p \in Procs, FinishCopy(p) PROVE Ordered'
<1> USE DEF GInv, BInv, NInv
<1>1. /\ UNCHANGED <<file, tail, retired>> /\ stage[p] = "copy"
      /\ Fits(task[p], stage[p])
  BY DEF FinishCopy, TInv, Tasks
<1>2. Ordered /\ \A q \in Procs \ {p} : task[q] = "none"
  BY NobodyElse DEF MaintainStep
<1>3. CASE Mine(p) = {}
  <2>1. archives' = archives
    BY <1>3 DEF FinishCopy
  <2>2. \A b \in archives' : Descends(b)
    BY <2>1 DEF Descends
  <2> QED
    BY <1>1, <1>2, <2>2, OrderKept DEF Ordered
<1>4. CASE Mine(p) # {}
  <2>0. PICK f : f = task[p]
    OBVIOUS
  <2>1. PICK copied : copied = IF p \in fresh THEN file[f] ELSE {}
    OBVIOUS
  <2>2. PICK new : /\ archives' = (archives \ Mine(p)) \cup {new}
                   /\ new = [of |-> f, lines |-> copied, done |-> TRUE,
                             old |-> FALSE, by |-> p, at |-> Newest + 1]
    BY <1>4, <2>0, <2>1 DEF FinishCopy
  <2>3. /\ new.of = f /\ new.lines = copied /\ new.done
        /\ new.at = Newest + 1 /\ f \in Files
    BY <1>1, <2>0, <2>2 DEF Fits
  <2>4. \A a \in archives : a.at <= new.at /\ ~(new.at <= a.at)
    <3>1. Newest \in Nat /\ \A a \in archives : a.at \in Nat /\ a.at <= Newest
      BY NewestBounds DEF TInv, LTypeOK
    <3> QED
      BY <2>3, <3>1
  <2>5. \A b \in archives' : b \in archives \/ b = new
    BY <2>2
  <2>6. /\ copied = file[f] \/ copied = {}
        /\ file[f] \subseteq Nat
        /\ copied # {} => Covers(copied, Gone(f))
    BY <1>2, <2>1, <2>3 DEF Ordered, TInv, LTypeOK, Lines
  <2>7. \A S \in SUBSET Nat : Covers(S, S)
    BY DEF Covers
  <2>8. \A a \in archives : a.of = f /\ a.done /\ copied # {} =>
          Covers(copied, a.lines)
    <3> SUFFICES ASSUME NEW a \in archives, a.of = f, a.done, copied # {},
                        NEW l \in a.lines
                 PROVE  \E m \in copied : l <= m
      BY DEF Covers
    <3>1. l \in Gone(f)
      BY InGone
    <3> QED
      BY <2>6, <3>1 DEF Covers
  <2>9. copied # {} => Covers(copied, retired[f])
    <3> SUFFICES ASSUME copied # {}, NEW l \in retired[f]
                 PROVE  \E m \in copied : l <= m
      BY DEF Covers
    <3>1. l \in Gone(f)
      BY InGone
    <3> QED
      BY <2>6, <3>1 DEF Covers
  <2>10. ASSUME NEW b1 \in archives', NEW b2 \in archives',
                b1.of = b2.of, b1.done, b2.done, b2.lines # {}, b1.at <= b2.at
         PROVE  Covers(b2.lines, b1.lines)
    <3>1. CASE b1 \in archives /\ b2 \in archives
      BY <1>2, <2>10, <3>1 DEF Ordered
    <3>2. CASE b1 \in archives /\ b2 = new
      BY <2>3, <2>8, <2>10, <3>2
    <3>3. CASE b1 = new /\ b2 \in archives
      BY <2>4, <2>10, <3>3
    <3>4. CASE b1 = new /\ b2 = new
      BY <2>3, <2>6, <2>7, <3>4
    <3> QED
      BY <2>5, <3>1, <3>2, <3>3, <3>4
  <2>11. ASSUME NEW b \in archives', b.done, b.lines # {}
         PROVE  Covers(b.lines, retired'[b.of])
    <3>1. CASE b \in archives
      BY <1>1, <1>2, <2>11, <3>1 DEF Ordered
    <3>2. CASE b = new
      BY <1>1, <2>3, <2>9, <2>11, <3>2
    <3> QED
      BY <2>5, <3>1, <3>2
  <2>12. ASSUME NEW g \in Files, file'[g] # {}
         PROVE  Covers(file'[g], Gone(g)')
    <3> SUFFICES ASSUME NEW l \in Gone(g)' PROVE \E m \in file[g] : l <= m
      BY <1>1 DEF Covers
    <3>1. \/ l \in retired[g]
          \/ \E b \in archives' : b.of = g /\ b.done /\ l \in b.lines
      BY <1>1, LineOf DEF Gone
    <3>2. l \in Gone(g) \/ (g = f /\ l \in copied)
      BY <2>3, <2>5, <3>1, InGone
    <3>3. Covers(file[g], Gone(g))
      BY <1>1, <1>2, <2>12 DEF Ordered
    <3> QED
      BY <2>6, <2>7, <3>2, <3>3 DEF Covers
  <2>13. \A q \in Procs : tail'[q] = {}
    BY <1>1, <1>2 DEF TailClosed
  <2> QED
    BY <2>10, <2>11, <2>12, <2>13 DEF Ordered
<1> QED
  BY <1>3, <1>4

\* What a run deletes of a directory is older than what it leaves there.
OldestOf(D, d) ==
    /\ D \subseteq InDirectory(d)
    /\ \A a \in D, b \in InDirectory(d) : b.at <= a.at => b \in D

LEMMA SizeGrows ==
    ASSUME BInv, NEW T \in SUBSET archives, NEW S \in SUBSET T
    PROVE  Size(S) \in Nat /\ Size(T) \in Nat /\ Size(S) <= Size(T)
<1> DEFINE all == (1..written["log"]) \cup (1..written["ledger"])
                    \cup (1..written["legacy"])
           Pairs(U) == UNION {{a} \X a.lines : a \in U}
<1>1. /\ IsFiniteSet(archives) /\ archives \subseteq Archive
      /\ written["log"] \in Int /\ written["ledger"] \in Int
      /\ written["legacy"] \in Int
  BY DEF BInv, NInv, TInv, LTypeOK, Files, Active
<1>2. IsFiniteSet(all)
  <2>1. /\ IsFiniteSet(1..written["log"]) /\ IsFiniteSet(1..written["ledger"])
        /\ IsFiniteSet(1..written["legacy"])
    BY <1>1, FS_Interval
  <2>2. IsFiniteSet((1..written["log"]) \cup (1..written["ledger"]))
    BY <2>1, FS_Union
  <2> QED
    BY <2>1, <2>2, FS_Union
<1>3. \A a \in archives : a.lines \subseteq all
  <2> SUFFICES ASSUME NEW a \in archives PROVE a.lines \subseteq all
    OBVIOUS
  <2>1. a.of \in {"log", "ledger", "legacy"}
    BY <1>1, ArchiveFields DEF Files, Active
  <2>2. a.lines \subseteq 1..written[a.of]
    BY DEF BInv, Below
  <2>3. /\ 1..written["log"] \subseteq all
        /\ 1..written["ledger"] \subseteq all
        /\ 1..written["legacy"] \subseteq all
    OBVIOUS
  <2> HIDE DEF all
  <2> QED
    BY <2>1, <2>2, <2>3
<1>4. Pairs(T) \subseteq archives \X all
  <2> HIDE DEF all
  <2> QED
    BY <1>3
<1>5. Pairs(S) \subseteq Pairs(T)
  OBVIOUS
<1> HIDE DEF all, Pairs
<1>6. IsFiniteSet(archives \X all)
  BY <1>1, <1>2, FS_Product
<1>7. IsFiniteSet(Pairs(T)) /\ IsFiniteSet(Pairs(S))
  BY <1>4, <1>5, <1>6, FS_Subset
<1>8. /\ Cardinality(Pairs(S)) <= Cardinality(Pairs(T))
      /\ Cardinality(Pairs(S)) \in Nat /\ Cardinality(Pairs(T)) \in Nat
  BY <1>5, <1>7, FS_Subset, FS_CardinalityType
<1>9. Size(S) = Cardinality(Pairs(S)) /\ Size(T) = Cardinality(Pairs(T))
  BY DEF Size, Pairs
<1> QED
  BY <1>8, <1>9

LEMMA ExpiredAreOldest ==
    ASSUME BInv, NEW d
    PROVE  OldestOf({a \in InDirectory(d) : a.old}, d)
  BY DEF OldestOf, InDirectory, BInv, Stamped

LEMMA OverCapAreOldest ==
    ASSUME BInv, NEW d
    PROVE  OldestOf(OverCap(d), d)
<1>1. CASE MaxArchive = 0
  BY <1>1 DEF OverCap, OldestOf
<1>2. CASE MaxArchive # 0
  <2> DEFINE From(a) == {c \in InDirectory(d) : c.at >= a.at}
  <2>1. \A a : a \in OverCap(d)
                 <=> a \in InDirectory(d) /\ Size(From(a)) > MaxArchive
    BY <1>2 DEF OverCap
  <2>2. \A a \in InDirectory(d) : a \in archives /\ a.at \in Nat
    <3>1. archives \subseteq Archive
      BY DEF BInv, NInv, TInv, LTypeOK
    <3> QED
      BY <3>1, ArchiveFields DEF InDirectory
  <2>3. MaxArchive \in Nat
    BY MaintenanceBounds
  <2>4. ASSUME NEW a \in OverCap(d), NEW b \in InDirectory(d), b.at <= a.at
        PROVE  b \in OverCap(d)
    <3>1. a \in InDirectory(d) /\ Size(From(a)) > MaxArchive
      BY <2>1
    <3>2. From(a) \subseteq From(b)
      <4> SUFFICES ASSUME NEW c \in InDirectory(d), c.at >= a.at
                   PROVE  c.at >= b.at
        OBVIOUS
      <4>1. c.at \in Nat /\ a.at \in Nat /\ b.at \in Nat
        BY <2>2, <3>1
      <4> QED
        BY <2>4, <4>1
    <3>3. From(b) \in SUBSET archives
      BY <2>2
    <3> HIDE DEF From
    <3>4. /\ Size(From(a)) \in Nat /\ Size(From(b)) \in Nat
          /\ Size(From(a)) <= Size(From(b))
      BY <3>2, <3>3, SizeGrows
    <3>5. Size(From(b)) > MaxArchive
      BY <2>3, <3>1, <3>4
    <3> QED
      BY <2>1, <3>5
  <2>5. OverCap(d) \subseteq InDirectory(d)
    BY <2>1
  <2> QED
    BY <2>4, <2>5 DEF OldestOf
<1> QED
  BY <1>1, <1>2

\* What is due is the oldest of its file.
LEMMA DueIsOldest ==
    ASSUME BInv, Lined, NEW p \in Procs, stage[p] \in {"expire", "prune"},
           NEW a \in InDirectory(task[p]), Due(p, a)
    PROVE  \A b \in archives : b # a /\ b.of = a.of => a.at <= b.at
<1> SUFFICES ASSUME NEW b \in archives, b # a, b.of = a.of PROVE a.at <= b.at
  OBVIOUS
<1>1. a \in archives /\ b \in InDirectory(task[p])
  BY DEF InDirectory
<1>2. a.at \in Nat /\ b.at \in Nat
  BY <1>1, ArchiveFields DEF BInv, NInv, TInv, LTypeOK
<1>3. b.at <= a.at => b.at \in sweep[p]
  BY <1>1 DEF Lined, Due
<1>4. b.at \in sweep[p] => a.at <= b.at
  BY <1>1 DEF Due
<1> QED
  BY <1>2, <1>3, <1>4

LEMMA UnlinkDueOrdered ==
    ASSUME GInv, Ordered, Lined, NEW p \in Procs, UnlinkDue(p)
    PROVE  Ordered'
<1>1. PICK old \in InDirectory(task[p]) :
        /\ Due(p, old)
        /\ archives' = archives \ {old}
        /\ retired' = [retired EXCEPT ![old.of] =
                          IF old.done THEN @ \cup old.lines ELSE @]
  BY DEF UnlinkDue
<1>2. /\ file' = file /\ tail' = tail
      /\ stage[p] \in {"expire", "prune"}
  BY DEF UnlinkDue
<1>3. old \in archives /\ \A a \in archives : a.of \in Files
  BY ArchiveFields DEF InDirectory, GInv, BInv, NInv, TInv, LTypeOK
<1>4. \A a \in archives' : a.of = old.of => old.at <= a.at
  BY <1>1, <1>2, DueIsOldest DEF GInv
<1>5. ASSUME NEW f \in Files, NEW l \in retired'[f]
      PROVE  l \in retired[f] \/ (f = old.of /\ old.done /\ l \in old.lines)
  BY <1>1, <1>3, <1>5 DEF GInv, BInv, NInv, TInv, LTypeOK
<1>6. \A f \in Files : Gone(f)' \subseteq Gone(f)
  <2> SUFFICES ASSUME NEW f \in Files, NEW l \in Gone(f)' PROVE l \in Gone(f)
    OBVIOUS
  <2>1. \/ l \in retired'[f]
        \/ \E a \in archives' : a.of = f /\ a.done /\ l \in a.lines
    BY LineOf DEF Gone
  <2>2. \/ l \in retired[f]
        \/ \E a \in archives : a.of = f /\ a.done /\ l \in a.lines
    BY <1>1, <1>3, <1>5, <2>1
  <2> QED
    BY <2>2, InGone
<1>7. ASSUME NEW a \in archives', NEW b \in archives',
             a.of = b.of, a.done, b.done, b.lines # {}, a.at <= b.at
      PROVE  Covers(b.lines, a.lines)
  BY <1>1, <1>7 DEF Ordered
<1>8. ASSUME NEW a \in archives', a.done, a.lines # {}
      PROVE  Covers(a.lines, retired'[a.of])
  <2> SUFFICES ASSUME NEW l \in retired'[a.of] PROVE \E m \in a.lines : l <= m
    BY DEF Covers
  <2>1. a \in archives /\ a.of \in Files
    BY <1>1, <1>3
  <2>2. CASE l \in retired[a.of]
    BY <1>8, <2>1, <2>2 DEF Ordered, Covers
  <2>3. CASE a.of = old.of /\ old.done /\ l \in old.lines
    <3>1. old.at <= a.at
      BY <1>4, <2>3
    <3>2. Covers(a.lines, old.lines)
      BY <1>3, <1>8, <2>1, <2>3, <3>1 DEF Ordered
    <3> QED
      BY <2>3, <3>2 DEF Covers
  <2> QED
    BY <1>5, <2>1, <2>2, <2>3
<1>9. \A f \in Files : file'[f] # {} => Covers(file'[f], Gone(f)')
  BY <1>2, <1>6 DEF Ordered, Covers
<1>10. \A q \in Procs : tail'[q] # {} => Covers(tail'[q], Gone("ledger")')
  <2>1. "ledger" \in Files
    BY DEF Files, Active
  <2> QED
    BY <1>2, <1>6, <2>1 DEF Ordered, Covers
<1> QED
  BY <1>7, <1>8, <1>9, <1>10 DEF Ordered

\* A sweep never gets out of line: it is listed in order and loses only what
\* is unlinked.
LEMMA Listed ==
    ASSUME BInv, NEW d, NEW D, OldestOf(D, d)
    PROVE  \A a, b \in InDirectory(d) :
             a.at \in {c.at : c \in D} /\ b.at <= a.at => b.at \in {c.at : c \in D}
<1> SUFFICES ASSUME NEW a \in InDirectory(d), NEW b \in InDirectory(d),
                    a.at \in {c.at : c \in D}, b.at <= a.at
             PROVE  b \in D
  OBVIOUS
<1>1. PICK c \in D : c.at = a.at
  OBVIOUS
<1>2. c \in archives /\ a \in archives
  BY <1>1 DEF OldestOf, InDirectory
<1>3. a \in D
  BY <1>1, <1>2 DEF BInv, Stamped
<1> QED
  BY <1>3 DEF OldestOf

LEMMA LinedFor ==
    ASSUME NEW p \in Procs,
           \A q \in Procs \ {p} : stage'[q] \notin {"expire", "prune"},
           stage'[p] \in {"expire", "prune"} =>
             \A a, b \in InDirectory(task[p])' :
                a.at \in sweep'[p] /\ b.at <= a.at => b.at \in sweep'[p]
    PROVE  Lined'
  BY DEF Lined

LEMMA LinedStep ==
    ASSUME GInv, BInv', ~overlapped', NEW p \in Procs,
           StartRun(p) \/ MaintainStep(p) \/ Fail(p) \/ Crash(p)
    PROVE  Lined'
<1> USE DEF GInv, BInv, NInv
<1>1. Lined /\ \A q \in Procs \ {p} : task'[q] = "none"
  BY NobodyElse
<1>2. \A q \in Procs \ {p} : stage'[q] \notin {"expire", "prune"}
  BY <1>1 DEF TInv, Tasks, Fits
<1> SUFFICES ASSUME stage'[p] \in {"expire", "prune"}
             PROVE  \A a, b \in InDirectory(task[p])' :
                       a.at \in sweep'[p] /\ b.at <= a.at => b.at \in sweep'[p]
  BY <1>2, LinedFor
<1>3. CASE ListExpired(p) \/ ListOverCap(p)
  <2>1. /\ archives' = archives /\ task'[p] = task[p]
    BY <1>3, RunGoes DEF ListExpired, ListOverCap
  <2>2. PICK D : OldestOf(D, task[p]) /\ Noted(p, D)
    BY <1>3, ExpiredAreOldest, OverCapAreOldest DEF ListExpired, ListOverCap
  <2>3. sweep'[p] = {c.at : c \in D}
    BY <2>2 DEF Noted, TInv, AsideOK
  <2> QED
    BY <2>1, <2>2, <2>3, Listed DEF InDirectory
<1>4. CASE UnlinkDue(p)
  <2>1. PICK old \in archives : /\ archives' = archives \ {old}
                                /\ sweep' = [sweep EXCEPT ![p] = @ \ {old.at}]
    BY <1>4, InSomeDirectory DEF UnlinkDue
  <2>2. task'[p] = task[p] /\ stage[p] \in {"expire", "prune"}
    BY <1>4, UnlinkDueStays, RunGoes DEF UnlinkDue
  <2>3. sweep'[p] = sweep[p] \ {old.at}
    BY <2>1 DEF TInv, AsideOK
  <2>4. \A b \in archives' : b \in archives /\ b.at # old.at
    BY <2>1 DEF Stamped
  <2> QED
    BY <1>1, <2>2, <2>3, <2>4 DEF Lined, InDirectory
<1>5. CASE ~(ListExpired(p) \/ ListOverCap(p) \/ UnlinkDue(p))
  <2>1. \E t, s : Goto(p, t, s) /\ s \notin {"expire", "prune"}
    <3>1. StartRun(p) => Goto(p, "log", "list")
      BY DEF StartRun, Goto
    <3>2. CASE Fail(p) \/ Crash(p)
      BY <3>2 DEF Fail, Crash, GiveUp
    <3>3. CASE MaintainStep(p)
      BY <1>5, <3>3, ChangedMoves
         DEF MaintainStep, ListActive, SkipRecent, ListLegacy, DropLegacy,
             UnlinkTarget, CreateArchive, FinishCopy, CheckIdentity, Cut,
             WriteTail, MissDue, EndSweep, NextTask, GiveUp
    <3> QED
      BY <3>1, <3>2, <3>3
  <2> QED
    BY <2>1, RunGoes
<1> QED
  BY <1>3, <1>4, <1>5

\* An expired legacy archive goes as a whole, like its copies.
LEMMA DropLegacyOrdered ==
    ASSUME GInv, Ordered, NEW p \in Procs, DropLegacy(p) PROVE Ordered'
<1> USE DEF GInv, BInv, NInv
<1>1. /\ archives' = archives /\ tail' = tail
      /\ file \in [Files -> SUBSET Lines]
      /\ retired \in [Files -> SUBSET Lines] /\ "legacy" \in Files
  BY DEF DropLegacy, TInv, LTypeOK, Files
<1>2. \A b \in archives' : Descends(b)
  BY <1>1 DEF Descends
<1>3. CASE p \notin fresh
  <2>1. UNCHANGED <<file, retired>>
    BY <1>3 DEF DropLegacy
  <2> QED
    BY <1>1, <1>2, <2>1, OrderKept DEF Ordered
<1>4. CASE p \in fresh
  <2>1. /\ file' = [file EXCEPT !["legacy"] = {}]
        /\ retired' = [retired EXCEPT !["legacy"] = @ \cup file["legacy"]]
    BY <1>4 DEF DropLegacy
  <2>2. /\ \A f \in Files : f # "legacy" => /\ file'[f] = file[f]
                                            /\ retired'[f] = retired[f]
        /\ file'["legacy"] = {}
        /\ retired'["legacy"] = retired["legacy"] \cup file["legacy"]
    BY <1>1, <2>1
  <2>3. ASSUME NEW a \in archives', a.done, a.lines # {}
        PROVE  Covers(a.lines, retired'[a.of])
    <3>0. a \in archives /\ a.of \in Files
      BY <1>1, ArchiveFields DEF TInv, LTypeOK
    <3>1. CASE a.of # "legacy"
      BY <2>2, <2>3, <3>0, <3>1 DEF Ordered
    <3>2. CASE a.of = "legacy"
      <4>1. a.lines = Whole
        BY <2>3, <3>0, <3>2 DEF WholeLegacy
      <4>2. retired'["legacy"] \subseteq Whole
        BY <1>1, <2>2 DEF Below, Whole
      <4>3. \A l \in Whole : l <= l
        BY DEF Whole
      <4> QED
        BY <3>2, <4>1, <4>2, <4>3 DEF Covers
    <3> QED
      BY <3>1, <3>2
  <2>4. \A f \in Files : f # "legacy" => Gone(f)' = Gone(f)
    BY <1>1, <2>2 DEF Gone
  <2>5. \A f \in Files : file'[f] # {} => Covers(file'[f], Gone(f)')
    BY <2>2, <2>4 DEF Ordered
  <2>6. \A q \in Procs : tail'[q] # {} => Covers(tail'[q], Gone("ledger")')
    <3>1. "ledger" \in Files
      BY DEF Files, Active
    <3> QED
      BY <1>1, <2>4, <3>1 DEF Ordered
  <2>7. \A a, b \in archives' :
          /\ a.of = b.of /\ a.done /\ b.done /\ b.lines # {} /\ a.at <= b.at
          => Covers(b.lines, a.lines)
    BY <1>1 DEF Ordered
  <2> QED
    BY <2>3, <2>5, <2>6, <2>7 DEF Ordered
<1> QED
  BY <1>3, <1>4

\* The last lines of a file are as young as the file.
LEMMA CheckIdentityOrdered ==
    ASSUME GInv, Ordered, NEW p \in Procs, CheckIdentity(p) PROVE Ordered'
<1> USE DEF GInv, BInv, NInv
<1>1. UNCHANGED <<file, retired>> /\ archives' \subseteq archives
  BY DEF CheckIdentity
<1>2. \A b \in archives' : Descends(b)
  BY <1>1 DEF Descends
<1>3. \A f \in Files : file'[f] # {} => Covers(file'[f], Gone(f))
  BY <1>1 DEF Ordered
<1>4. CASE p \notin fresh
  <2>1. tail' = tail
    BY <1>4 DEF CheckIdentity
  <2>2. \A q \in Procs : tail'[q] # {} => Covers(tail'[q], Gone("ledger"))
    BY <2>1 DEF Ordered
  <2> QED
    BY <1>1, <1>2, <1>3, <2>2, OrderKept
<1>5. CASE p \in fresh
  <2>1. PICK T \in TailsOf(task[p]) : tail' = [tail EXCEPT ![p] = T]
    BY <1>5 DEF CheckIdentity
  <2>2. /\ tail'[p] = T
        /\ \A q \in Procs \ {p} : tail'[q] = tail[q]
    BY <2>1 DEF TInv, LTypeOK
  <2>3. T # {} => Covers(T, Gone("ledger"))
    <3> SUFFICES ASSUME T # {}, NEW l \in Gone("ledger")
                 PROVE  \E m \in T : l <= m
      BY DEF Covers
    <3>1. /\ T \subseteq file["ledger"]
          /\ \A i \in T, m \in file["ledger"] : m > i => m \in T
      BY <2>1 DEF TailsOf, Tails
    <3>2. "ledger" \in Files
      BY DEF Files, Active
    <3>3. Covers(file["ledger"], Gone("ledger"))
      BY <3>1, <3>2 DEF Ordered
    <3>4. PICK m \in file["ledger"] : l <= m
      BY <3>3 DEF Covers
    <3>5. PICK i \in T : TRUE
      OBVIOUS
    <3>6. i \in Nat /\ m \in Nat
      BY <3>1, <3>2 DEF TInv, LTypeOK, Lines
    <3>7. l \in Nat
      <4>1. \/ l \in retired["ledger"]
            \/ \E a \in archives :
                 a.of = "ledger" /\ a.done /\ l \in a.lines
        BY InGone
      <4>2. \A a \in archives : a.lines \subseteq Lines
        BY ArchiveFields DEF TInv, LTypeOK
      <4> QED
        BY <3>2, <4>1, <4>2 DEF TInv, LTypeOK, Lines
    <3>8. CASE m > i
      BY <3>1, <3>4, <3>8
    <3>9. CASE ~(m > i)
      BY <3>4, <3>6, <3>7, <3>9
    <3> QED
      BY <3>8, <3>9
  <2>4. \A q \in Procs : tail'[q] # {} => Covers(tail'[q], Gone("ledger"))
    BY <2>2, <2>3 DEF Ordered
  <2> QED
    BY <1>1, <1>2, <1>3, <2>4, OrderKept
<1> QED
  BY <1>4, <1>5

LEMMA WriteTailOrdered ==
    ASSUME GInv, Ordered, NEW p \in Procs, WriteTail(p) PROVE Ordered'
<1> USE DEF GInv, BInv, NInv
<1>1. /\ retired' = retired /\ archives' = Settled(p)
      /\ tail' = [tail EXCEPT ![p] = {}]
  BY DEF WriteTail
<1>2. PICK rest \in SUBSET file[task[p]] :
        /\ tail[p] = {} => rest = file[task[p]]
        /\ file' = [file EXCEPT ![task[p]] = tail[p] \cup rest]
  BY DEF WriteTail
<1>3. \A b \in archives' : Descends(b)
  BY <1>1, SettledDescend
<1>4. \A q \in Procs : tail'[q] # {} => Covers(tail'[q], Gone("ledger"))
  BY <1>1 DEF Ordered, TInv, LTypeOK
<1>5. /\ file \in [Files -> SUBSET Lines]
      /\ tail[p] # {} => task[p] = "ledger"
  BY DEF TInv, LTypeOK, TailClosed
<1>6. ASSUME NEW f \in Files, file'[f] # {} PROVE Covers(file'[f], Gone(f))
  <2>1. CASE f # task[p] \/ tail[p] = {}
    <3>1. file'[f] = file[f]
      BY <1>2, <1>5, <2>1
    <3> QED
      BY <1>6, <3>1 DEF Ordered
  <2>2. CASE f = task[p] /\ tail[p] # {}
    <3>1. f = "ledger" /\ tail[p] \subseteq file'[f]
      BY <1>2, <1>5, <2>2
    <3>2. Covers(tail[p], Gone(f))
      BY <2>2, <3>1 DEF Ordered
    <3> QED
      BY <3>1, <3>2 DEF Covers
  <2> QED
    BY <2>1, <2>2
<1> QED
  BY <1>1, <1>3, <1>4, <1>6, OrderKept

LEMMA RunOrdered ==
    ASSUME GInv, ~overlapped', NEW p \in Procs,
           StartRun(p) \/ MaintainStep(p) \/ Fail(p) \/ Crash(p)
    PROVE  Ordered'
<1> USE DEF GInv, BInv, NInv
<1>1. Ordered /\ Lined
  BY NobodyElse
<1>2. CASE FinishCopy(p)
  BY <1>2, FinishCopyOrdered
<1>3. CASE UnlinkDue(p)
  BY <1>1, <1>3, UnlinkDueOrdered
<1>4. CASE DropLegacy(p)
  BY <1>1, <1>4, DropLegacyOrdered
<1>6. CASE CheckIdentity(p) \/ WriteTail(p)
  BY <1>1, <1>6, CheckIdentityOrdered, WriteTailOrdered
<1>7. CASE \/ StartRun(p) \/ ListActive(p) \/ SkipRecent(p)
           \/ ListLegacy(p) \/ UnlinkTarget(p) \/ CreateArchive(p) \/ Cut(p)
           \/ ListExpired(p) \/ ListOverCap(p) \/ MissDue(p) \/ EndSweep(p)
           \/ Fail(p) \/ Crash(p)
  <2>1. /\ retired' = retired
        /\ tail' = tail \/ tail' = [tail EXCEPT ![p] = {}]
        /\ ~FinishCopy(p) /\ ~WriteTail(p)
    <3>1. stage[p] \notin {"copy", "tail"} \/ Fail(p) \/ Crash(p)
      BY <1>7 DEF StartRun, ListActive, SkipRecent, ListLegacy, UnlinkTarget,
         CreateArchive, Cut, ListExpired, ListOverCap, MissDue, EndSweep, TInv,
         Tasks, Fits
    <3>2. CASE Fail(p) \/ Crash(p)
      <4>1. faults' # faults
        BY <3>2, MaintenanceBounds DEF Fail, Crash, TInv, LTypeOK
      <4> QED
        BY <3>2, <4>1 DEF Fail, Crash, FinishCopy, WriteTail
    <3>3. CASE ~(Fail(p) \/ Crash(p))
      BY <1>7, <3>1, <3>3 DEF StartRun, ListActive, SkipRecent, ListLegacy,
         UnlinkTarget, CreateArchive, Cut, ListExpired, ListOverCap, MissDue,
         EndSweep, FinishCopy, WriteTail
    <3> QED
      BY <3>2, <3>3
  <2>2. \A b \in archives' : b.done => Descends(b)
    BY <2>1, ArchivesStep DEF Fresh
  <2>3. \A f \in Files : file'[f] # {} => Covers(file'[f], Gone(f))
    BY <1>1, <2>1, FilesStep DEF Ordered
  <2>4. \A q \in Procs : tail'[q] # {} => Covers(tail'[q], Gone("ledger"))
    BY <1>1, <2>1 DEF Ordered, TInv, LTypeOK
  <2> QED
    BY <1>1, <2>1, <2>2, <2>3, <2>4, OrderKept
<1> QED
  BY <1>2, <1>3, <1>4, <1>6, <1>7 DEF MaintainStep
-----------------------------------------------------------------------------
(* The theorems.                                                           *)

LEMMA AppendLineGuarded ==
    ASSUME GInv, BInv', NEW g \in Files, AppendLine(g) PROVE Guarded'
<1> USE DEF GInv, BInv, NInv
<1>0. PICK new : new = written[g] + 1
  OBVIOUS
<1>1. /\ g \in Active
      /\ written' = [written EXCEPT ![g] = new]
      /\ file' = [file EXCEPT ![g] = @ \cup {new}]
      /\ fresh' = fresh \ Stale(g)
      /\ UNCHANGED <<archives, task, stage, tail, overlapped, retired>>
      /\ sweep' = sweep
  BY <1>0 DEF AppendLine, asideVars
<1>2. /\ written \in [Files -> Nat] /\ file \in [Files -> SUBSET Lines]
      /\ "legacy" \in Files /\ g # "legacy"
  BY <1>1 DEF TInv, LTypeOK, Files, Active
<1>3. /\ \A f \in Files : f # g => file'[f] = file[f]
      /\ file'[g] = file[g] \cup {new}
      /\ Whole' = Whole
  BY <1>1, <1>2 DEF Whole
<1> SUFFICES ASSUME ~overlapped PROVE (Alone /\ LegacySafe /\ Ordered /\ Lined)'
  BY <1>1 DEF Guarded
<1>4. Alone /\ LegacySafe /\ Ordered /\ Lined
  BY DEF Guarded
<1>5. \A l : Stored(l)' = Stored(l)
  BY <1>1 DEF Stored
<1>6. \A q \in Procs : Moving(q) => Moving(q)'
  <2>1. \A q \in Procs : Copied(q)' = Copied(q)
    BY <1>1, <1>3 DEF Copied
  <2> QED
    BY <1>1, <1>2, <1>3, <2>1 DEF Moving
<1>7. LegacySafe'
  BY <1>1, <1>2, <1>3, <1>4, <1>5, <1>6 DEF LegacySafe
<1>8. \A b \in archives' : Descends(b)
  BY <1>1 DEF Descends
<1>9. Covers(file'[g], Gone(g))
  <2> SUFFICES ASSUME NEW l \in Gone(g) PROVE l <= new
    BY <1>3 DEF Covers
  <2>1. l \in 1..written[g]
    <3>1. \/ l \in retired[g]
          \/ \E a \in archives : a.of = g /\ a.done /\ l \in a.lines
      BY InGone
    <3> QED
      BY <3>1 DEF Below
  <2> QED
    BY <1>0, <1>2, <2>1
<1>10. \A f \in Files : file'[f] # {} => Covers(file'[f], Gone(f))
  BY <1>3, <1>4, <1>9 DEF Ordered
<1>11. \A q \in Procs : tail'[q] # {} => Covers(tail'[q], Gone("ledger"))
  BY <1>1, <1>4 DEF Ordered
<1>12. Ordered'
  BY <1>1, <1>4, <1>8, <1>10, <1>11, OrderKept
<1>13. Lined'
  BY <1>1, <1>4 DEF Lined, InDirectory
<1> QED
  BY <1>1, <1>4, <1>7, <1>12, <1>13 DEF Alone

LEMMA RetentionGuarded ==
    ASSUME GInv, BInv', RetentionPasses PROVE Guarded'
<1> USE DEF GInv, BInv, NInv
<1>1. UNCHANGED <<file, written, task, stage, fresh, tail, sweep, overlapped,
                  retired>>
  BY DEF RetentionPasses, asideVars
<1> SUFFICES ASSUME ~overlapped PROVE (Alone /\ LegacySafe /\ Ordered /\ Lined)'
  BY <1>1 DEF Guarded
<1>2. Alone /\ LegacySafe /\ Ordered /\ Lined
  BY DEF Guarded
<1>3. ASSUME NEW a \in archives
      PROVE  \E b \in archives' : /\ b.of = a.of /\ b.lines = a.lines
                                  /\ b.done = a.done /\ b.by = a.by
  <2>1. Aged(a) \in archives' /\ a \in Archive
    BY AgedArchives DEF TInv, LTypeOK
  <2> QED
    BY <2>1, AgedType
<1>4. \A l : Stored(l) => Stored(l)'
  BY <1>3 DEF Stored
<1>5. \A q \in Procs : Copied(q) => Copied(q)'
  BY <1>1, <1>3 DEF Copied, Whole
<1>6. LegacySafe'
  BY <1>1, <1>2, <1>4, <1>5 DEF LegacySafe, Moving, Whole
<1>7. Ordered'
  BY <1>1, <1>2, AgedDescend, OrderKept DEF Ordered
<1>8. Lined'
  <2>1. \A b \in archives' : Descends(b)
    BY AgedDescend
  <2> QED
    BY <1>1, <1>2, <2>1 DEF Lined, InDirectory, Descends
<1> QED
  BY <1>1, <1>2, <1>6, <1>7, <1>8 DEF Alone

LEMMA InitGuarded == ASSUME LInit PROVE GInv
<1>1. /\ written = [f \in Files |-> IF f = "legacy" THEN quota[f] ELSE 0]
      /\ file = [f \in Files |-> 1..written[f]] /\ archives = {}
      /\ task = [p \in Procs |-> "none"] /\ stage = [p \in Procs |-> "list"]
      /\ tail = [p \in Procs |-> {}] /\ retired = [f \in Files |-> {}]
      /\ "legacy" \in Files
  BY DEF LInit, Files, Active
<1>2. Alone
  BY <1>1 DEF Alone
<1>3. LegacySafe
  BY <1>1 DEF LegacySafe, Moving, Whole
<1>4. \A f \in Files : Gone(f) = {}
  BY <1>1 DEF Gone, LinesOf
<1>5. Ordered
  BY <1>1, <1>4 DEF Ordered, Covers
<1>6. Lined
  BY <1>1 DEF Lined
<1> QED
  BY <1>2, <1>3, <1>5, <1>6, InitBelow DEF GInv, Guarded

LEMMA GuardedInductive == ASSUME GInv, [LNext]_lvars PROVE GInv'
<1>1. BInv'
  BY BelowInductive DEF GInv
<1>2. ASSUME NEW f \in Active, AppendLine(f) PROVE Guarded'
  BY <1>1, <1>2, AppendLineGuarded DEF Files
<1>3. CASE RetentionPasses
  BY <1>1, <1>3, RetentionGuarded DEF GInv
<1>4. ASSUME NEW p \in Procs,
             StartRun(p) \/ MaintainStep(p) \/ Fail(p) \/ Crash(p)
      PROVE  Guarded'
  BY <1>1, <1>4, NobodyElse, LegacyStep, RunOrdered, LinedStep DEF Guarded
<1>5. CASE UNCHANGED lvars \/ \E p \in Procs : KillShell(p)
  <2>1. /\ UNCHANGED <<file, written, archives, task, stage, fresh>>
        /\ UNCHANGED <<tail, sweep, overlapped, retired>>
    BY <1>5, RunsUntouched
  <2>2. Alone' = Alone /\ Ordered' = Ordered /\ Lined' = Lined
    BY <2>1 DEF Alone, Ordered, Gone, Lined, InDirectory
  <2>3. LegacySafe' = LegacySafe
    BY <2>1 DEF LegacySafe, Stored, Moving, Copied, Whole
  <2> QED
    BY <1>1, <2>1, <2>2, <2>3 DEF GInv, Guarded
<1> QED
  BY <1>1, <1>2, <1>3, <1>4, <1>5 DEF LNext, GInv

LEMMA GInvInvariant == LSpec => []GInv
<1>1. LInit => GInv
  BY InitGuarded
<1>2. GInv /\ [LNext]_lvars => GInv'
  BY GuardedInductive
<1> QED
  BY <1>1, <1>2, PTL DEF LSpec

\* While runs do not overlap, every line of a legacy archive is in the file, in
\* a finished archive or deleted by retention: although an existing target is
\* unlinked first, and wherever runs are killed or fail.
THEOREM LegacyKeptHolds == LSpec => []LegacyKept
<1>1. GInv => LegacyKept
  <2> SUFFICES ASSUME GInv, ~overlapped, NEW l \in 1..written["legacy"]
               PROVE  l \in Recoverable("legacy") \cup retired["legacy"]
    BY DEF LegacyKept
  <2>1. l \in file["legacy"] \cup retired["legacy"] \/ Stored(l)
    BY DEF GInv, Guarded, LegacySafe, Whole
  <2>2. Stored(l) => l \in LinesOf(archives, "legacy")
    BY LineOf DEF Stored
  <2> QED
    BY <2>1, <2>2 DEF Recoverable
<1> QED
  BY <1>1, GInvInvariant, PTL

\* While runs do not overlap, no line is deleted before an older one: what
\* retention and the cap have deleted of a file is no younger than the newest
\* line of any of its archives, for any cap and any sizes.
THEOREM OldestGoFirstHolds == LSpec => []OldestGoFirst
<1>1. GInv => OldestGoFirst
  <2> SUFFICES ASSUME GInv, ~overlapped, NEW a \in archives, a.done,
                      a.lines # {}, NEW l \in retired[a.of]
               PROVE  \E m \in a.lines : l <= m
    BY DEF OldestGoFirst
  <2>1. Ordered
    BY DEF GInv, Guarded
  <2> QED
    BY <2>1 DEF Ordered, Covers
<1> QED
  BY <1>1, GInvInvariant, PTL
=============================================================================
