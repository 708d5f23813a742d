--------------------------- MODULE LogMaintenance ---------------------------
(***************************************************************************)
(* tools/maintain_runtime_logs.py: a run rotates the active log, moves a   *)
(* legacy archive, sweeps the log archives, compacts the JSONL ledger and  *)
(* sweeps its archives.  The files are appended to by other processes all  *)
(* the while.  A run works on a snapshot of a file's identity (inode,      *)
(* size, times) and compares it when it opens the file and again just      *)
(* before it cuts it; no file is locked.  The agent loop and its           *)
(* supervisor run it under a lock directory, Start_QuantGod_mac.sh runs it *)
(* without, so runs overlap; they are killed or fail anywhere, and a       *)
(* killed shell leaves the lock directory behind for good.                 *)
(*                                                                         *)
(* A file is the set of the lines it holds, numbered as they were written. *)
(* The identity of a file only matters as "unchanged since my snapshot".   *)
(***************************************************************************)
EXTENDS Integers, FiniteSets, FiniteSetsExt

CONSTANTS
    Procs,          \* maintenance runs that can overlap
    Scheduled,      \* those of the agent loop and its supervisor
    MaxActive,      \* max_active_bytes, in lines
    KeepLines,      \* keep_lines
    MaxArchive,     \* archive_max_bytes, in lines; 0: no cap
    CutMayFail,     \* may an exception come after the truncation?
    Quotas,         \* bounds: how many lines each file gets, one of these
    MaxFaults,      \* bound: crashes and failures
    MaxByHand       \* bound: runs started by hand

Active == {"log", "ledger"}

Files == Active \cup {"legacy"}

ASSUME MaintenanceBounds ==
    /\ MaxActive \in Nat \ {0}
    /\ Quotas \subseteq [Files -> Nat]
    /\ {KeepLines, MaxArchive, MaxFaults, MaxByHand} \subseteq Nat
    /\ CutMayFail \in BOOLEAN

Nobody == "nobody"

ASSUME NobodyIsNoRun == Nobody \notin Procs

ASSUME RunsAreFinite == IsFiniteSet(Procs) /\ Scheduled \subseteq Procs

VARIABLES
    file,       \* the lines each file holds
    quota,      \* bound: lines that will be written to each file
    written,    \* lines ever written to each file
    legacyOld,  \* the legacy archive is past its retention
    archives,   \* both archive directories
    task,       \* what each run is about
    stage,      \* where it is in that task
    fresh,      \* runs whose snapshot of their file still holds
    clash,      \* runs whose archive name another run may have taken by now
    sweep,      \* the archives each run is going to delete, by their times
    tail,       \* the lines a compaction is going to write back
    lockLeft,   \* the lock directory of a killed shell is in the way
    byHand,     \* runs started by hand so far
    overlapped, \* two runs have been at work at the same time
    faults,
    retired,    \* lines deleted by retention or by the size cap
    raced       \* lines written between a run's last check and its rewrite

\* What most steps leave alone.
asideVars == <<clash, sweep, lockLeft, byHand>>

lvars == <<quota, file, written, legacyOld, archives, task, stage, fresh, tail,
           asideVars, overlapped, faults, retired, raced>>
-----------------------------------------------------------------------------
Lines == Nat \ {0}

\* An archive file: whose lines, finished or torn, past retention, the run
\* that may still remove it, and its modification time.
Archive == [of : Files, lines : SUBSET Lines, done : BOOLEAN, old : BOOLEAN,
            by : Procs \cup {Nobody}, at : Nat]

Directory(f) == IF f = "ledger" THEN "ledgerdir" ELSE "logdir"

\* The order of maintain_logs and maintain_jsonl_ledgers.
After == [t \in {"log", "legacy", "logdir", "ledger", "ledgerdir"} |->
             CASE t = "log" -> "legacy"
               [] t = "legacy" -> "logdir"
               [] t = "logdir" -> "ledger"
               [] t = "ledger" -> "ledgerdir"
               [] t = "ledgerdir" -> "none"]

Mine(p) == {a \in archives : a.by = p}

\* Archives are written one after the other, and a time never comes back as
\* long as some run has it on its list.
Newest == Max({0} \cup {a.at : a \in archives} \cup UNION {sweep[p] : p \in Procs})

LinesOf(S, f) == UNION {a.lines : a \in {b \in S : b.of = f /\ b.done}}

\* Runs that have checked a file for the last time and go on to rewrite it.
Cutting(f) == {p \in Procs : /\ task[p] = f
                             /\ \/ stage[p] = "cut"
                                \/ stage[p] = "tail" /\ tail[p] # {}}

LInit ==
    /\ quota \in Quotas
    /\ written = [f \in Files |-> IF f = "legacy" THEN quota[f] ELSE 0]
    /\ file = [f \in Files |-> 1..written[f]]
    /\ legacyOld = FALSE
    /\ archives = {}
    /\ task = [p \in Procs |-> "none"]
    /\ stage = [p \in Procs |-> "list"]
    /\ fresh = {}
    /\ clash = {}
    /\ sweep = [p \in Procs |-> {}]
    /\ lockLeft = FALSE
    /\ byHand = 0
    /\ tail = [p \in Procs |-> {}]
    /\ overlapped = FALSE
    /\ faults = 0
    /\ retired = [f \in Files |-> {}]
    /\ raced = [f \in Files |-> {}]
-----------------------------------------------------------------------------
(* The other processes.                                                    *)

Stale(f) == {p \in Procs : task[p] = f}

\* Some tool appends a line to a log or a ledger.
AppendLine(f) ==
    LET l == written[f] + 1
    IN  /\ f \in Active /\ written[f] < quota[f]
        /\ written' = [written EXCEPT ![f] = l]
        /\ file' = [file EXCEPT ![f] = @ \cup {l}]
        /\ fresh' = fresh \ Stale(f)
        /\ raced' = IF Cutting(f) = {} THEN raced
                    ELSE [raced EXCEPT ![f] = @ \cup {l}]
        /\ UNCHANGED <<quota, legacyOld, archives, task, stage, tail,
                       asideVars, overlapped, faults, retired>>

\* The retention time of everything archived so far passes.
RetentionPasses ==
    /\ legacyOld' = (file["legacy"] # {})
    /\ archives' = {[a EXCEPT !.old = TRUE] : a \in archives}
    /\ UNCHANGED <<quota, file, written, task, stage, fresh, tail, asideVars,
                   overlapped, faults, retired, raced>>
-----------------------------------------------------------------------------
(* A run.                                                                  *)

\* mkdir of the lock directory fails while it is there: not this time.
LockIsFree == ~lockLeft /\ \A q \in Scheduled : task[q] = "none"

StartRun(p) ==
    /\ task[p] = "none"
    /\ IF p \in Scheduled THEN LockIsFree /\ UNCHANGED byHand
       ELSE byHand < MaxByHand /\ byHand' = byHand + 1
    /\ task' = [task EXCEPT ![p] = "log"]
    /\ stage' = [stage EXCEPT ![p] = "list"]
    /\ overlapped' = (overlapped \/ \E q \in Procs : task[q] # "none")
    /\ UNCHANGED <<quota, file, written, legacyOld, archives, fresh, tail,
                   clash, sweep, lockLeft, faults, retired, raced>>

Goto(p, t, s) ==
    /\ task' = [task EXCEPT ![p] = t]
    /\ stage' = [stage EXCEPT ![p] = s]

NextTask(p) == Goto(p, After[task[p]], "list")

\* An error that nobody catches.
GiveUp(p) == Goto(p, "none", "list")

\* The candidates are collected: a small file is passed over.
ListActive(p) ==
    /\ task[p] \in Active /\ stage[p] = "list"
    /\ IF Cardinality(file[task[p]]) <= MaxActive
       THEN NextTask(p) /\ UNCHANGED fresh
       ELSE Goto(p, task[p], "open") /\ fresh' = fresh \cup {p}
    /\ UNCHANGED <<quota, file, written, legacyOld, archives, tail, asideVars,
                   overlapped, faults, retired, raced>>

\* A ledger somebody wrote to a moment ago is passed over, too.
SkipRecent(p) ==
    /\ task[p] = "ledger" /\ stage[p] = "list"
    /\ Cardinality(file["ledger"]) > MaxActive
    /\ NextTask(p)
    /\ UNCHANGED <<quota, file, written, legacyOld, archives, fresh, tail,
                   asideVars, overlapped, faults, retired, raced>>

\* Mutant: an existing target is taken for a finished move.
ListLegacyTrusts(p) ==
    LET moved == \E a \in archives : a.of = "legacy"
    IN  /\ task[p] = "legacy" /\ stage[p] = "list"
        /\ IF file["legacy"] = {}
           THEN NextTask(p) /\ UNCHANGED fresh
           ELSE /\ fresh' = fresh \cup {p}
                /\ Goto(p, "legacy", IF moved THEN "cut" ELSE "target")
        /\ UNCHANGED <<quota, file, written, legacyOld, archives, tail,
                       asideVars, overlapped, faults, retired, raced>>

\* An expired legacy archive is to be deleted, another one to be moved.
ListLegacy(p) ==
    /\ task[p] = "legacy" /\ stage[p] = "list"
    /\ IF file["legacy"] = {}
       THEN NextTask(p) /\ UNCHANGED fresh
       ELSE /\ fresh' = fresh \cup {p}
            /\ Goto(p, "legacy", IF legacyOld THEN "drop" ELSE "target")
    /\ UNCHANGED <<quota, file, written, legacyOld, archives, tail, asideVars,
                   overlapped, faults, retired, raced>>

\* _safe_unlink of the expired one: when another run was faster, the error
\* ends this one.
DropLegacy(p) ==
    /\ stage[p] = "drop"
    /\ IF p \in fresh
       THEN /\ file' = [file EXCEPT !["legacy"] = {}]
            /\ retired' = [retired EXCEPT !["legacy"] = @ \cup file["legacy"]]
            /\ fresh' = fresh \ Stale("legacy")
            /\ NextTask(p)
       ELSE GiveUp(p) /\ UNCHANGED <<file, retired, fresh>>
    /\ UNCHANGED <<quota, written, legacyOld, archives, tail, asideVars,
                   overlapped, faults, raced>>

\* The legacy archive's target has a fixed name: what is there is unlinked.
\* That fails, and ends the run, when another run is just writing it.
UnlinkTarget(p) ==
    /\ stage[p] = "target"
    /\ \/ /\ archives' = {a \in archives : a.of # "legacy"}
          /\ Goto(p, "legacy", "open")
       \/ /\ \E a \in archives : a.of = "legacy" /\ a.by # Nobody
          /\ GiveUp(p) /\ UNCHANGED archives
    /\ UNCHANGED <<quota, file, written, legacyOld, fresh, tail, asideVars,
                   overlapped, faults, retired, raced>>

\* A changed ledger or log is skipped; for a legacy archive the error is not
\* caught and ends the run.
Changed(p) == IF task[p] = "legacy" THEN GiveUp(p) ELSE NextTask(p)

\* The archive's name was free when the file was listed; since then another run
\* may have taken it for the same file, which has the same name in the same
\* second only.  The legacy archive's target has one name.
NameMayBeTaken(p) ==
    IF task[p] = "legacy" THEN \E a \in archives : a.of = "legacy"
    ELSE p \in clash

NameMayBeFree(p) == task[p] = "legacy" => ~NameMayBeTaken(p)

\* _open_verified_file, and the archive is created (O_EXCL).
CreateArchive(p) ==
    /\ stage[p] = "open"
    /\ \/ /\ p \notin fresh
          /\ Changed(p)
          /\ clash' = clash \ {p} /\ UNCHANGED archives
       \/ /\ p \in fresh /\ NameMayBeTaken(p)
          /\ GiveUp(p)
          /\ clash' = clash \ {p} /\ UNCHANGED archives
       \/ /\ p \in fresh /\ NameMayBeFree(p)
          /\ archives' = archives \cup
                {[of |-> task[p], lines |-> {}, done |-> FALSE,
                  old |-> FALSE, by |-> p, at |-> Newest + 1]}
          /\ clash' = {q \in Procs \ {p} :
                          q \in clash \/ (task[q] = task[p] /\ stage[q] = "open")}
          /\ Goto(p, task[p], "copy")
    /\ UNCHANGED <<quota, file, written, legacyOld, fresh, tail, sweep,
                   lockLeft, byHand, overlapped, faults, retired, raced>>

\* The copy ends.  Of a file that changed meanwhile nothing certain was copied.
\* When the archive has been swept away the run fails.
FinishCopy(p) ==
    LET f == task[p]
        copied == IF p \in fresh THEN file[f] ELSE {}
    IN  /\ stage[p] = "copy"
        /\ IF Mine(p) = {}
           THEN GiveUp(p) /\ UNCHANGED archives
           ELSE /\ archives' = (archives \ Mine(p)) \cup
                      {[of |-> f, lines |-> copied, done |-> TRUE,
                        old |-> FALSE, by |-> p, at |-> Newest + 1]}
                    /\ Goto(p, f, "check")
        /\ UNCHANGED <<quota, file, written, legacyOld, fresh, tail, asideVars,
                       overlapped, faults, retired, raced>>

\* Mutant: the byte cap is left out.
TailsUncapped(S) ==
    {T \in SUBSET S : /\ Cardinality(T) <= KeepLines
                      /\ T = {} <=> (S = {} \/ KeepLines = 0)
                      /\ \A l \in T, m \in S : m > l => m \in T}

\* Mutant: the first lines instead of the last.
Heads(S) ==
    {T \in SUBSET S : /\ Cardinality(T) <= KeepLines
                      /\ Cardinality(T) <= MaxActive
                      /\ T = {} <=> (S = {} \/ KeepLines = 0)
                      /\ \A l \in T, m \in S : m < l => m \in T}

\* _read_jsonl_tail_from_fd: the last lines, at most keep_lines and at most
\* max_bytes of them but at least one; lines have different lengths.
Tails(S) ==
    {T \in SUBSET S : /\ Cardinality(T) <= KeepLines
                      /\ Cardinality(T) <= MaxActive
                      /\ T = {} <=> (S = {} \/ KeepLines = 0)
                      /\ \A l \in T, m \in S : m > l => m \in T}

\* A rotated log is left empty.
TailsOf(f) == IF f = "ledger" THEN Tails(file[f]) ELSE {{}}

\* Mutant: the file is cut whatever happened to it during the copy.
CheckNothing(p) ==
    /\ stage[p] = "check"
    /\ Goto(p, task[p], "cut")
    /\ \E T \in TailsOf(task[p]) : tail' = [tail EXCEPT ![p] = T]
    /\ UNCHANGED <<quota, file, written, legacyOld, archives, fresh, asideVars,
                   overlapped, faults, retired, raced>>

\* _verify_open_file before the cut; _cleanup_created_archive when it fails,
\* which itself fails when the archive has been swept away.
CheckIdentity(p) ==
    /\ stage[p] = "check"
    /\ IF p \in fresh
       THEN /\ Goto(p, task[p], "cut")
            /\ \E T \in TailsOf(task[p]) : tail' = [tail EXCEPT ![p] = T]
            /\ UNCHANGED archives
       ELSE /\ IF Mine(p) = {} THEN GiveUp(p) ELSE Changed(p)
            /\ archives' = archives \ Mine(p) /\ UNCHANGED tail
    /\ UNCHANGED <<quota, file, written, legacyOld, fresh, asideVars,
                   overlapped, faults, retired, raced>>

\* Mutant: the wrong owner.
SettledOnFile(p) ==
    (archives \ Mine(p)) \cup {[a EXCEPT !.by = task[p]] : a \in Mine(p)}

\* The run is done with its archive and will not remove it any more.
Settled(p) ==
    (archives \ Mine(p)) \cup {[a EXCEPT !.by = Nobody] : a \in Mine(p)}

\* ftruncate(0), or the unlink of a legacy archive.
Cut(p) ==
    LET f == task[p]
    IN  /\ stage[p] = "cut"
        /\ file' = [file EXCEPT ![f] = {}]
        /\ fresh' = fresh \ Stale(f)
        /\ IF f \in Active
           THEN Goto(p, f, "tail") /\ UNCHANGED archives
           ELSE NextTask(p) /\ archives' = Settled(p)
        /\ UNCHANGED <<quota, written, legacyOld, tail, asideVars, overlapped,
                       faults, retired, raced>>

\* The tail is written from the start of the file, over what was appended there
\* since the cut; what lies beyond the tail's end survives.  Then fsync.
WriteTail(p) ==
    LET f == task[p]
    IN  /\ stage[p] = "tail"
        /\ \E rest \in SUBSET file[f] :
              /\ tail[p] = {} => rest = file[f]
              /\ \A l \in rest, m \in file[f] : m > l => m \in rest
              /\ file' = [file EXCEPT ![f] = tail[p] \cup rest]
        /\ fresh' = IF tail[p] = {} THEN fresh ELSE fresh \ Stale(f)
        /\ tail' = [tail EXCEPT ![p] = {}]
        /\ archives' = Settled(p)
        /\ NextTask(p)
        /\ UNCHANGED <<quota, written, legacyOld, asideVars, overlapped, faults,
                       retired, raced>>

InDirectory(d) == {a \in archives : Directory(a.of) = d}

\* The bytes of several archives: every line of each counts.
Size(S) == Cardinality(UNION {{a} \X a.lines : a \in S})

\* Mutant: the newest first.
OverCapNewest(d) ==
    IF MaxArchive = 0 THEN {}
    ELSE {a \in InDirectory(d) :
             Size({b \in InDirectory(d) : b.at <= a.at}) > MaxArchive}

\* The oldest, as long as the sum of the rest is above the cap.
OverCap(d) ==
    IF MaxArchive = 0 THEN {}
    ELSE {a \in InDirectory(d) :
             Size({b \in InDirectory(d) : b.at >= a.at}) > MaxArchive}

\* A directory is listed, and what is to go is noted: first what is past its
\* retention (_expired), ...
Noted(p, S) == sweep' = [sweep EXCEPT ![p] = {a.at : a \in S}]

ListExpired(p) ==
    /\ task[p] \in {"logdir", "ledgerdir"} /\ stage[p] = "list"
    /\ Noted(p, {a \in InDirectory(task[p]) : a.old})
    /\ Goto(p, task[p], "expire")
    /\ UNCHANGED <<quota, file, written, legacyOld, archives, fresh, clash, tail,
                   lockLeft, byHand, overlapped, faults, retired, raced>>

\* ... then, from a new listing, what is over the cap.
ListOverCap(p) ==
    /\ stage[p] = "expire" /\ sweep[p] = {}
    /\ Noted(p, OverCap(task[p]))
    /\ Goto(p, task[p], "prune")
    /\ UNCHANGED <<quota, file, written, legacyOld, archives, fresh, clash, tail,
                   lockLeft, byHand, overlapped, faults, retired, raced>>

\* The next one: by its name, in which the file's name comes before the time,
\* or by its time.
Due(p, a) ==
    /\ a.at \in sweep[p]
    /\ \A b \in InDirectory(task[p]) :
          b.at \in sweep[p] /\ (stage[p] = "prune" \/ b.of = a.of) => a.at <= b.at

\* _safe_unlink.
UnlinkDue(p) ==
    /\ stage[p] \in {"expire", "prune"}
    /\ \E a \in InDirectory(task[p]) :
          /\ Due(p, a)
          /\ archives' = archives \ {a}
          /\ retired' = [retired EXCEPT ![a.of] =
                            IF a.done THEN @ \cup a.lines ELSE @]
          /\ sweep' = [sweep EXCEPT ![p] = @ \ {a.at}]
    /\ UNCHANGED <<quota, file, written, legacyOld, task, stage, fresh, clash,
                   tail, lockLeft, byHand, overlapped, faults, raced>>

\* One of them has changed or is gone since it was listed: the run fails there.
MissDue(p) ==
    /\ stage[p] \in {"expire", "prune"}
    /\ \E t \in sweep[p] : \A a \in InDirectory(task[p]) : a.at # t
    /\ sweep' = [sweep EXCEPT ![p] = {}]
    /\ GiveUp(p)
    /\ UNCHANGED <<quota, file, written, legacyOld, archives, fresh, clash, tail,
                   lockLeft, byHand, overlapped, faults, retired, raced>>

EndSweep(p) ==
    /\ stage[p] = "prune" /\ sweep[p] = {}
    /\ NextTask(p)
    /\ UNCHANGED <<quota, file, written, legacyOld, archives, fresh, tail,
                   asideVars, overlapped, faults, retired, raced>>
-----------------------------------------------------------------------------
(* Failures.                                                               *)

\* An exception: the created archive is removed and the run ends.  After the
\* cut that takes an interrupt or a failing write or fsync.
Fail(p) ==
    /\ task[p] # "none" /\ faults < MaxFaults
    /\ stage[p] = "tail" => CutMayFail
    /\ archives' = archives \ Mine(p)
    /\ GiveUp(p)
    /\ fresh' = fresh \ {p}
    /\ clash' = clash \ {p}
    /\ sweep' = [sweep EXCEPT ![p] = {}]
    /\ tail' = [tail EXCEPT ![p] = {}]
    /\ faults' = faults + 1
    /\ UNCHANGED <<quota, file, written, legacyOld, lockLeft, byHand, overlapped,
                   retired, raced>>

\* The process is killed, alone or with the shell that holds the lock
\* directory: what they have created stays.
Crash(p) ==
    /\ task[p] # "none" /\ faults < MaxFaults
    /\ archives' = Settled(p)
    /\ GiveUp(p)
    /\ fresh' = fresh \ {p}
    /\ clash' = clash \ {p}
    /\ sweep' = [sweep EXCEPT ![p] = {}]
    /\ tail' = [tail EXCEPT ![p] = {}]
    /\ faults' = faults + 1
    /\ \E shell \in BOOLEAN : lockLeft' = (lockLeft \/ (shell /\ p \in Scheduled))
    /\ UNCHANGED <<quota, file, written, legacyOld, byHand, overlapped, retired,
                   raced>>

\* The shell alone is killed: nobody removes its directory.
KillShell(p) ==
    /\ p \in Scheduled /\ task[p] # "none" /\ faults < MaxFaults
    /\ lockLeft' = TRUE
    /\ faults' = faults + 1
    /\ UNCHANGED <<quota, file, written, legacyOld, archives, task, stage, fresh,
                   tail, clash, sweep, byHand, overlapped, retired, raced>>
-----------------------------------------------------------------------------
MaintainStep(p) ==
    \/ ListActive(p) \/ SkipRecent(p)
    \/ ListLegacy(p) \/ DropLegacy(p) \/ UnlinkTarget(p)
    \/ CreateArchive(p) \/ FinishCopy(p) \/ CheckIdentity(p)
    \/ Cut(p) \/ WriteTail(p)
    \/ ListExpired(p) \/ ListOverCap(p)
    \/ UnlinkDue(p) \/ MissDue(p) \/ EndSweep(p)

LNext ==
    \/ \E f \in Active : AppendLine(f)
    \/ RetentionPasses
    \/ \E p \in Procs :
          \/ StartRun(p) \/ MaintainStep(p)
          \/ Fail(p) \/ Crash(p) \/ KillShell(p)

LSpec == LInit /\ [][LNext]_lvars

\* The loop starts a run every interval while it gets the lock, a run that was
\* started goes on, and a ledger nobody writes to is old enough in the end.
\* Nobody has to start a run by hand.
FairLSpec ==
    /\ LSpec
    /\ \A p \in Procs : WF_lvars(MaintainStep(p))
    /\ \A p \in Scheduled : /\ WF_lvars(StartRun(p))
                            /\ SF_lvars(task[p] = "ledger" /\ ListActive(p))
-----------------------------------------------------------------------------
LTypeOK ==
    /\ quota \in [Files -> Nat]
    /\ file \in [Files -> SUBSET Lines]
    /\ written \in [Files -> Nat]
    /\ legacyOld \in BOOLEAN
    /\ archives \subseteq Archive
    /\ task \in [Procs -> Files \cup {"none", "logdir", "ledgerdir"}]
    /\ stage \in [Procs -> {"list", "drop", "target", "open", "copy", "check",
                            "cut", "tail", "expire", "prune"}]
    /\ fresh \subseteq Procs
    /\ clash \subseteq Procs
    /\ sweep \in [Procs -> SUBSET Nat]
    /\ lockLeft \in BOOLEAN
    /\ byHand \in 0..MaxByHand
    /\ tail \in [Procs -> SUBSET Lines]
    /\ overlapped \in BOOLEAN
    /\ faults \in 0..MaxFaults
    /\ retired \in [Files -> SUBSET Lines]
    /\ raced \in [Files -> SUBSET Lines]

Recoverable(f) == file[f] \cup LinesOf(archives, f)

\* Every line written to a log or a ledger can be found in the file or in a
\* finished archive, unless retention or the size cap deleted it or it was
\* written between a run's last identity check and the end of its rewrite:
\* for overlapping runs, and runs killed or failing at any point.
NothingLost ==
    \A f \in Active :
        1..written[f] \subseteq Recoverable(f) \cup retired[f] \cup raced[f]

\* A legacy archive that is moved is never missing from both places while runs
\* do not overlap, although an existing target is unlinked first.
LegacyKept ==
    ~overlapped => 1..written["legacy"] \subseteq
                       Recoverable("legacy") \cup retired["legacy"]

\* A compaction leaves no hole: a reader of the ledger who sees a line sees all
\* the later ones too, but for those that raced with a rewrite.
NoHoles ==
    \A l \in file["ledger"] : \A m \in l..written["ledger"] :
        m \in file["ledger"] \cup raced["ledger"]

\* Retention and the cap delete the oldest lines: what is deleted is no younger
\* than the newest line of any archive that is kept.
OldestGoFirst ==
    ~overlapped =>
        \A a \in archives : a.done /\ a.lines # {} =>
            \A l \in retired[a.of] : \E m \in a.lines : l <= m

\* When the writers pause and nobody starts runs by hand any more, the active
\* files end up within their limit for good: a run that skipped a changed file,
\* failed or was killed is made up for.  Only the lock directory of a killed
\* shell ends the maintenance.
StaysSmall ==
    \A f \in Active : <>[](lockLeft \/ Cardinality(file[f]) <= MaxActive)
=============================================================================
