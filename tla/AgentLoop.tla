----------------------------- MODULE AgentLoop -----------------------------
(***************************************************************************)
(* The Agent v2.5 background loop: tools/run_mac_agent_v25_loop.sh, its    *)
(* supervisor tools/ensure_mac_agent_v25_loop.sh and the process group     *)
(* runner tools/run_process_group.py.                                      *)
(*                                                                         *)
(* A loop makes sure it is alone with a lock directory: mkdir succeeds for *)
(* one process, which then writes its pid into it; the others read the pid *)
(* and either leave or, when no such loop is alive, remove the directory   *)
(* and try again.  The heavy tasks it starts in the background use a       *)
(* second directory in the same way; log maintenance uses a third one that *)
(* nobody ever removes for another process.  Processes are killed at any   *)
(* point, and the supervisor replaces a loop that is gone or silent.       *)
(***************************************************************************)
EXTENDS Integers, FiniteSets

CONSTANTS
    Loops,      \* pids of processes that run the loop script
    Tasks,      \* pids of its background subshells for heavy tasks
    Overlap,    \* whether a start may fall into another one's acquisition
    BashPid,    \* whether the shells in use know BASHPID: bash 4 and later do,
                \* the /bin/bash of macOS, which the supervisor starts, does not
    MaxEvents   \* bound: starts and signals from outside that TLC explores

ASSUME OverlapIsBoolean == Overlap \in BOOLEAN
ASSUME BashPidIsBoolean == BashPid \subseteq BOOLEAN
ASSUME PidsFinite == IsFiniteSet(Loops) /\ IsFiniteSet(Tasks)
ASSUME EventsAreNat == MaxEvents \in Nat
ASSUME PidsDistinct ==
    /\ Loops \cap Tasks = {}
    /\ (Loops \cup Tasks) \cap {"absent", "empty", "none", "sup"} = {}

VARIABLES
    lock,       \* the loop's lock directory: absent, empty, or with a pid
    heavyLock,  \* the heavy tasks' lock directory
    logLock,    \* the log maintenance directory, with whose pid
    pc,         \* where each loop process is
    mode,       \* --loop or --once
    found,      \* the pid a starting loop read from the directory
    hpc,        \* where each heavy run is
    parent,     \* the loop that started it, while that one lives
    shell,      \* its $$: the pid of the loop that started it
    strays,     \* heavy runs that have outlived their loop so far
    record,     \* the loop the process group file names
    sup,        \* where the supervisor is
    target,     \* the lock holder it is stopping
    events      \* starts and signals from outside so far

loopVars == <<pc, mode, found>>
heavyVars == <<hpc, parent, shell, strays>>
supVars == <<record, sup, target>>
avars == <<lock, heavyLock, logLock, loopVars, heavyVars, supVars, events>>

Runners == Loops \cup Tasks
-----------------------------------------------------------------------------
Acquiring == {"mkdir", "read", "probe", "remove", "publish"}
Working == {"cycle", "logs", "work", "inline"}
Leaving == {"stop", "release", "drop"}
HAcquiring == {"mkdir", "probe", "remove", "again", "publish"}
Checking == {"idle", "logs", "check"}

Inside(p) == pc[p] \in Working \cup Leaving

\* kill -0.
Alive(x) ==
    \/ x \in Loops /\ pc[x] # "off"
    \/ x \in Tasks /\ hpc[x] # "off"

\* No loop is between mkdir and its pid, and none is being replaced.
Settled == sup \in Checking /\ \A p \in Loops : pc[p] \notin Acquiring

AInit ==
    /\ lock = "absent" /\ heavyLock = "absent" /\ logLock = "absent"
    /\ pc = [p \in Loops |-> "off"]
    /\ mode = [p \in Loops |-> "loop"]
    /\ found = [p \in Loops |-> "none"]
    /\ hpc = [h \in Runners |-> "off"]
    /\ parent = [h \in Runners |-> "none"]
    /\ shell = [h \in Runners |-> "none"]
    /\ strays = 0
    /\ record = "none" /\ sup = "idle" /\ target = "none"
    /\ events = 0

Goto(p, label) == pc' = [pc EXCEPT ![p] = label]
-----------------------------------------------------------------------------
(* acquire_loop_lock.                                                      *)

\* Started by hand or by another tool.  run_process_group.py has removed its
\* record by the time a pid comes back.
Start(p, m) ==
    /\ pc[p] = "off" /\ p # record /\ events < MaxEvents
    /\ Overlap \/ Settled
    /\ events' = events + 1
    /\ Goto(p, "mkdir")
    /\ mode' = [mode EXCEPT ![p] = m]
    /\ UNCHANGED <<lock, heavyLock, logLock, found, heavyVars, supVars>>

Mkdir(p) ==
    /\ pc[p] = "mkdir"
    /\ IF lock = "absent" THEN lock' = "empty" /\ Goto(p, "publish")
       ELSE UNCHANGED lock /\ Goto(p, "read")
    /\ UNCHANGED <<heavyLock, logLock, mode, found, heavyVars, supVars, events>>

\* Mutant: the pid is used as it was read, also when there is none.
ReadHolderRaw(p) ==
    /\ pc[p] = "read"
    /\ found' = [found EXCEPT ![p] = lock]
    /\ Goto(p, "probe")
    /\ UNCHANGED <<lock, heavyLock, logLock, mode, heavyVars, supVars, events>>

\* cat LOCK_DIR/pid: nothing when the directory is gone or has no pid yet.
ReadHolder(p) ==
    /\ pc[p] = "read"
    /\ found' = [found EXCEPT ![p] = IF lock \in Loops THEN lock ELSE "none"]
    /\ Goto(p, "probe")
    /\ UNCHANGED <<lock, heavyLock, logLock, mode, heavyVars, supVars, events>>

\* Mutants: the holder is never, or always, taken to be alive.
ProbeDoubts(p) ==
    /\ pc[p] = "probe"
    /\ Goto(p, "remove")
    /\ found' = [found EXCEPT ![p] = "none"]
    /\ UNCHANGED <<lock, heavyLock, logLock, mode, heavyVars, supVars, events>>

ProbeTrusts(p) ==
    /\ pc[p] = "probe"
    /\ Goto(p, IF found[p] # "none" THEN "off" ELSE "remove")
    /\ found' = [found EXCEPT ![p] = "none"]
    /\ UNCHANGED <<lock, heavyLock, logLock, mode, heavyVars, supVars, events>>

\* process_is_agent_loop: leave when it is, even if it is this very pid.
Probe(p) ==
    /\ pc[p] = "probe"
    /\ Goto(p, IF Alive(found[p]) THEN "off" ELSE "remove")
    /\ found' = [found EXCEPT ![p] = "none"]
    /\ UNCHANGED <<lock, heavyLock, logLock, mode, heavyVars, supVars, events>>

RemoveStale(p) ==
    /\ pc[p] = "remove"
    /\ lock' = "absent"
    /\ Goto(p, "mkdir")
    /\ UNCHANGED <<heavyLock, logLock, mode, found, heavyVars, supVars, events>>

\* Writing into a directory that is gone fails, and set -e ends the script.
Publish(p) ==
    /\ pc[p] = "publish"
    /\ IF lock = "absent" THEN UNCHANGED lock /\ Goto(p, "off")
       ELSE lock' = p /\ Goto(p, "cycle")
    /\ UNCHANGED <<heavyLock, logLock, mode, found, heavyVars, supVars, events>>
-----------------------------------------------------------------------------
(* run_once.                                                               *)

\* Mutant: mkdir -p.
BeginLogsAnyway(p) ==
    /\ pc[p] = "cycle"
    /\ logLock' = p
    /\ Goto(p, "logs")
    /\ UNCHANGED <<lock, heavyLock, mode, found, heavyVars, supVars, events>>

\* maintain_runtime_logs returns at once when the directory exists.
BeginLogs(p) ==
    /\ pc[p] = "cycle"
    /\ IF logLock = "absent" THEN logLock' = p /\ Goto(p, "logs")
       ELSE UNCHANGED logLock /\ Goto(p, "work")
    /\ UNCHANGED <<lock, heavyLock, mode, found, heavyVars, supVars, events>>

EndLogs(p) ==
    /\ pc[p] = "logs"
    /\ logLock' = "absent"
    /\ Goto(p, "work")
    /\ UNCHANGED <<lock, heavyLock, mode, found, heavyVars, supVars, events>>

\* Mutant: the holder must be a heavy run whose loop lives.
HeavyRunningOwned == heavyLock \in Runners /\ parent[heavyLock] # "none"

\* heavy_task_running: kill -0 alone.
HeavyRunning == heavyLock \in Runners /\ Alive(heavyLock)

\* maybe_start_heavy_tasks: one is running, or the last one is too recent.
SkipHeavy(p) ==
    /\ pc[p] = "work"
    /\ Goto(p, IF mode[p] = "loop" THEN "cycle" ELSE "stop")
    /\ UNCHANGED <<lock, heavyLock, logLock, mode, found, heavyVars, supVars, events>>

\* A background subshell of --loop; --once runs the tasks itself.
LaunchHeavy(p, h) ==
    /\ pc[p] = "work"
    /\ ~HeavyRunning
    /\ Overlap \/ \A x \in Runners : hpc[x] \notin HAcquiring
    /\ h \in IF mode[p] = "loop" THEN Tasks ELSE {p}
    /\ hpc[h] = "off"
    /\ hpc' = [hpc EXCEPT ![h] = "mkdir"]
    /\ parent' = [parent EXCEPT ![h] = p]
    /\ shell' = [shell EXCEPT ![h] = p]
    /\ Goto(p, IF mode[p] = "loop" THEN "cycle" ELSE "inline")
    /\ UNCHANGED <<lock, heavyLock, logLock, mode, found, strays, supVars, events>>

FinishInline(p) ==
    /\ pc[p] = "inline" /\ hpc[p] = "off"
    /\ Goto(p, "stop")
    /\ UNCHANGED <<lock, heavyLock, logLock, mode, found, heavyVars, supVars, events>>
-----------------------------------------------------------------------------
(* run_heavy_tasks.                                                        *)

\* These heavy runs end without releasing their lock.
EndRuns(dead) ==
    /\ hpc' = [h \in Runners |-> IF h \in dead THEN "off" ELSE hpc[h]]
    /\ parent' = [h \in Runners |-> IF h \in dead THEN "none" ELSE parent[h]]
    /\ shell' = [h \in Runners |-> IF h \in dead THEN "none" ELSE shell[h]]
    /\ UNCHANGED strays

HGoto(h, label) ==
    /\ hpc' = [hpc EXCEPT ![h] = label]
    /\ UNCHANGED <<parent, shell, strays>>

HMkdir(h) ==
    /\ hpc[h] = "mkdir"
    /\ IF heavyLock = "absent" THEN heavyLock' = "empty" /\ HGoto(h, "publish")
       ELSE UNCHANGED heavyLock /\ HGoto(h, "probe")
    /\ UNCHANGED <<lock, logLock, loopVars, supVars, events>>

HProbe(h) ==
    /\ hpc[h] = "probe"
    /\ IF HeavyRunning THEN EndRuns({h}) ELSE HGoto(h, "remove")
    /\ UNCHANGED <<lock, heavyLock, logLock, loopVars, supVars, events>>

HRemove(h) ==
    /\ hpc[h] = "remove"
    /\ heavyLock' = "absent"
    /\ HGoto(h, "again")
    /\ UNCHANGED <<lock, logLock, loopVars, supVars, events>>

\* mkdir ... || return 1.
HAgain(h) ==
    /\ hpc[h] = "again"
    /\ IF heavyLock = "absent" THEN heavyLock' = "empty" /\ HGoto(h, "publish")
       ELSE UNCHANGED heavyLock /\ EndRuns({h})
    /\ UNCHANGED <<lock, logLock, loopVars, supVars, events>>

\* ${BASHPID:-$$}: the subshell's own pid, or that of the loop it came from.
\* Called in an || list, so set -e is off: a failed write does not stop it.
HPublish(h) ==
    /\ hpc[h] = "publish"
    /\ \E known \in BashPid :
          heavyLock' = IF heavyLock = "absent" THEN "absent"
                       ELSE IF known THEN h ELSE shell[h]
    /\ HGoto(h, "run")
    /\ UNCHANGED <<lock, logLock, loopVars, supVars, events>>

\* release_heavy_lock does not look whose lock it is.
HFinish(h) ==
    /\ hpc[h] = "run"
    /\ heavyLock' = "absent"
    /\ EndRuns({h})
    /\ UNCHANGED <<lock, logLock, loopVars, supVars, events>>
-----------------------------------------------------------------------------
(* The end of a loop.                                                      *)

\* cleanup_loop_children: TERM and wait for the background jobs.
CleanupChildren(p) ==
    /\ pc[p] = "stop"
    /\ EndRuns({h \in Runners : parent[h] = p})
    /\ Goto(p, "release")
    /\ UNCHANGED <<lock, heavyLock, logLock, mode, found, supVars, events>>

\* release_loop_lock compares the pid, and then removes the directory.
ReleaseLock(p) ==
    /\ pc[p] = "release"
    /\ Goto(p, IF lock = p THEN "drop" ELSE "off")
    /\ UNCHANGED <<lock, heavyLock, logLock, mode, found, heavyVars, supVars, events>>

DropLock(p) ==
    /\ pc[p] = "drop"
    /\ lock' = "absent"
    /\ Goto(p, "off")
    /\ UNCHANGED <<heavyLock, logLock, mode, found, heavyVars, supVars, events>>

Background(p) == {h \in Tasks : hpc[h] # "off" /\ parent[h] = p}

\* The process is gone.  Its background subshells live on.
Gone(p) ==
    /\ Goto(p, "off")
    /\ hpc' = [hpc EXCEPT ![p] = "off"]
    /\ parent' = [h \in Runners |-> IF parent[h] = p THEN "none" ELSE parent[h]]
    /\ shell' = [shell EXCEPT ![p] = "none"]
    /\ strays' = strays + Cardinality(Background(p))

\* A HUP, INT or TERM: the traps are set after the acquisition, and the
\* cleanup begins by taking them away.
Signal(p) ==
    /\ IF pc[p] \in Working
       THEN /\ Goto(p, "stop")
            /\ hpc' = [hpc EXCEPT ![p] = "off"]
            /\ UNCHANGED <<parent, shell, strays>>
       ELSE Gone(p)
    /\ found' = [found EXCEPT ![p] = "none"]

Interrupt(p) ==
    /\ pc[p] # "off" /\ events < MaxEvents
    /\ events' = events + 1
    /\ Signal(p)
    /\ UNCHANGED <<lock, heavyLock, logLock, mode, supVars>>

\* KILL, or a crash.
Kill(p) ==
    /\ pc[p] # "off" /\ events < MaxEvents
    /\ events' = events + 1
    /\ Gone(p)
    /\ found' = [found EXCEPT ![p] = "none"]
    /\ UNCHANGED <<lock, heavyLock, logLock, mode, supVars>>

KillTask(h) ==
    /\ h \in Tasks /\ hpc[h] # "off" /\ events < MaxEvents
    /\ events' = events + 1
    /\ EndRuns({h})
    /\ UNCHANGED <<lock, heavyLock, logLock, loopVars, supVars>>
-----------------------------------------------------------------------------
(* ensure_once.                                                            *)

SupBeginLogs ==
    /\ sup = "idle"
    /\ IF logLock = "absent" THEN logLock' = "sup" /\ sup' = "logs"
       ELSE UNCHANGED logLock /\ sup' = "check"
    /\ UNCHANGED <<lock, heavyLock, loopVars, heavyVars, record, target, events>>

SupEndLogs ==
    /\ sup = "logs"
    /\ logLock' = "absent"
    /\ sup' = "check"
    /\ UNCHANGED <<lock, heavyLock, loopVars, heavyVars, record, target, events>>

\* The screen session lives as long as the recorded loop.
SupHealthy ==
    /\ sup = "check"
    /\ Alive(record)
    /\ sup' = "idle"
    /\ UNCHANGED <<lock, heavyLock, logLock, loopVars, heavyVars, record, target, events>>

\* The session is gone, or its heartbeat is too old (which counts as a signal).
SupRestart ==
    /\ sup = "check"
    /\ Overlap \/ Settled
    /\ IF Alive(record) THEN events < MaxEvents /\ events' = events + 1
       ELSE UNCHANGED events
    /\ sup' = "group"
    /\ UNCHANGED <<lock, heavyLock, logLock, loopVars, heavyVars, record, target>>

\* stop_recorded_group: TERM to the loop and its background jobs ...
SupStopGroup ==
    /\ sup = "group"
    /\ IF Alive(record)
       THEN /\ Goto(record, IF pc[record] \in Working THEN "stop" ELSE "off")
            /\ found' = [found EXCEPT ![record] = "none"]
            /\ EndRuns({h \in Runners : parent[h] = record})
       ELSE UNCHANGED <<pc, found, heavyVars>>
    /\ sup' = "grace"
    /\ UNCHANGED <<lock, heavyLock, logLock, mode, record, target, events>>

\* ... and KILL after the grace period; the record is removed.
SupKillGroup ==
    /\ sup = "grace"
    /\ IF Alive(record)
       THEN /\ Goto(record, "off")
            /\ found' = [found EXCEPT ![record] = "none"]
            /\ EndRuns({h \in Runners : parent[h] = record})
       ELSE UNCHANGED <<pc, found, heavyVars>>
    /\ record' = "none"
    /\ sup' = "holder"
    /\ UNCHANGED <<lock, heavyLock, logLock, mode, target, events>>

\* stop_orphan_lock_holder: a lock without a living loop is left alone.
SupReadHolder ==
    /\ sup = "holder"
    /\ IF lock \in Loops /\ Alive(lock)
       THEN /\ target' = lock
            /\ Signal(lock)
            /\ sup' = "kill"
       ELSE /\ sup' = "spawn"
            /\ UNCHANGED <<pc, found, target, heavyVars>>
    /\ UNCHANGED <<lock, heavyLock, logLock, mode, record, events>>

SupKillHolder ==
    /\ sup = "kill"
    /\ Gone(target)
    /\ found' = [found EXCEPT ![target] = "none"]
    /\ sup' = "wipe"
    /\ target' = "none"
    /\ UNCHANGED <<lock, heavyLock, logLock, mode, record, events>>

SupWipe ==
    /\ sup = "wipe"
    /\ lock' = "absent"
    /\ sup' = "spawn"
    /\ UNCHANGED <<heavyLock, logLock, loopVars, heavyVars, record, target, events>>

\* screen -dmS ... run_process_group.py ... run_mac_agent_v25_loop.sh --loop.
SupSpawn(p) ==
    /\ sup = "spawn"
    /\ pc[p] = "off"
    /\ Goto(p, "mkdir")
    /\ mode' = [mode EXCEPT ![p] = "loop"]
    /\ record' = p
    /\ sup' = "idle"
    /\ UNCHANGED <<lock, heavyLock, logLock, found, heavyVars, target, events>>
-----------------------------------------------------------------------------
LoopStep(p) ==
    \/ Mkdir(p) \/ ReadHolder(p) \/ Probe(p) \/ RemoveStale(p) \/ Publish(p)
    \/ BeginLogs(p) \/ EndLogs(p)
    \/ SkipHeavy(p) \/ FinishInline(p)
    \/ \E h \in Runners : LaunchHeavy(p, h)
    \/ CleanupChildren(p) \/ ReleaseLock(p) \/ DropLock(p)

HeavyStep(h) ==
    HMkdir(h) \/ HProbe(h) \/ HRemove(h) \/ HAgain(h) \/ HPublish(h) \/ HFinish(h)

SupStep ==
    \/ SupBeginLogs \/ SupEndLogs \/ SupHealthy \/ SupRestart \/ SupStopGroup
    \/ SupKillGroup \/ SupReadHolder \/ SupKillHolder \/ SupWipe
    \/ \E p \in Loops : SupSpawn(p)

ANext ==
    \/ \E p \in Loops :
          \/ \E m \in {"loop", "once"} : Start(p, m)
          \/ LoopStep(p) \/ Interrupt(p) \/ Kill(p)
    \/ \E h \in Runners : HeavyStep(h)
    \/ \E h \in Tasks : KillTask(h)
    \/ SupStep

ASpec == AInit /\ [][ANext]_avars

\* Started processes go on, the supervisor comes back every minute, and the
\* system does not hand out the same pid for ever.
FairASpec ==
    /\ ASpec
    /\ \A p \in Loops : WF_avars(LoopStep(p)) /\ SF_avars(SupSpawn(p))
    /\ WF_avars(SupStep)
-----------------------------------------------------------------------------
ATypeOK ==
    /\ lock \in Loops \cup {"absent", "empty"}
    /\ heavyLock \in Runners \cup {"absent", "empty"}
    /\ logLock \in Loops \cup {"absent", "sup"}
    /\ pc \in [Loops -> {"off"} \cup Acquiring \cup Working \cup Leaving]
    /\ mode \in [Loops -> {"loop", "once"}]
    /\ found \in [Loops -> Loops \cup {"none"}]
    /\ hpc \in [Runners -> {"off", "run"} \cup HAcquiring]
    /\ parent \in [Runners -> Loops \cup {"none"}]
    /\ shell \in [Runners -> Loops \cup {"none"}]
    /\ strays \in Nat
    /\ record \in Loops \cup {"none"}
    /\ sup \in Checking \cup {"group", "grace", "holder", "kill", "wipe", "spawn"}
    /\ target \in IF sup = "kill" THEN Loops ELSE {"none"}
    /\ events \in Nat

\* At most one agent loop at a time is past acquire_loop_lock, whatever is
\* killed and replaced.
OneLoop == \A p, q \in Loops : Inside(p) /\ Inside(q) => p = q

\* One set of heavy tasks runs at a time, although a new loop may start while
\* the background tasks of a killed one are still there.  Where the shell does
\* not know BASHPID the directory names the killed loop, and a stray set also
\* takes away the directory of the next one: each stray makes room for one
\* set more, and nothing else does.
OneHeavy ==
    Cardinality({h \in Runners : hpc[h] = "run"})
        <= 1 + (IF FALSE \in BashPid THEN strays ELSE 0)

\* Loops and supervisor never maintain the logs at the same time, even when
\* starts overlap.
OneLogMaintainer ==
    /\ \A p, q \in Loops : pc[p] = "logs" /\ pc[q] = "logs" => p = q
    /\ \A p \in Loops : ~(pc[p] = "logs" /\ sup = "logs")

-----------------------------------------------------------------------------
(* The inductive invariant behind the three.                               *)

\* The directory belongs to whoever maintains the logs.
LogsOwned ==
    /\ \A p \in Loops : pc[p] = "logs" => logLock = p
    /\ sup = "logs" => logLock = "sup"

\* The heavy run of a --once process is part of it.
InlineRuns ==
    \A p \in Loops : hpc[p] # "off" => pc[p] = "inline" /\ parent[p] = p

\* A loop that is inside owns the directory, and one that is about to remove
\* it knows that nobody is.
LoopsOwnLock ==
    /\ \A p \in Loops : Inside(p) => lock = p
    /\ \A p, q \in Loops : pc[p] \in Acquiring /\ pc[q] \in Acquiring => p = q
    /\ \A p \in Loops : pc[p] \in Acquiring => sup \in Checking
    /\ \A p, q \in Loops : pc[p] = "probe" /\ Inside(q) => found[p] = q
    /\ \A p, q \in Loops : pc[p] = "remove" => ~Inside(q)
    /\ \A p \in Loops : pc[p] = "publish" => lock = "empty"
    /\ \A q \in Loops : sup = "kill" /\ Inside(q) => q = target
    /\ \A q \in Loops : sup = "wipe" => ~Inside(q)

HeavyAcquired ==
    /\ \A g, h \in Runners : hpc[g] \in HAcquiring /\ hpc[h] \in HAcquiring => g = h
    /\ \A h \in Runners : hpc[h] = "publish" => heavyLock \in {"empty", "absent"}

\* With BASHPID the directory names the run.
RunsOwnLock ==
    /\ \A h \in Runners : hpc[h] = "publish" => heavyLock = "empty"
    /\ \A h \in Runners : hpc[h] = "run" => heavyLock = h
    /\ \A g, h \in Runners : hpc[g] = "remove" => hpc[h] # "run"

\* A run knows the loop it came from; while that one lives it is at work.
RunsHaveShells ==
    \A h \in Runners : hpc[h] # "off" =>
        /\ shell[h] \in Loops
        /\ parent[h] # "none" =>
              shell[h] = parent[h] /\ pc[parent[h]] \in Working \cup {"stop"}

\* The run that keeps the others out: its loop lives, and the directory is
\* about to name one of the two or does.
Keeper(h) ==
    /\ parent[h] # "none"
    /\ \/ hpc[h] = "publish" /\ heavyLock = "empty"
       \/ hpc[h] = "run" /\ heavyLock \in {h, parent[h]}

Counted ==
    {h \in Runners : \/ hpc[h] \in {"run", "publish"}
                     \/ hpc[h] # "off" /\ parent[h] = "none"}

\* Without it the strays are counted, and all the others together are at most
\* one as long as nobody keeps the directory twice.
HeavyCounted ==
    /\ \A g, h \in Runners : hpc[g] \in {"remove", "again"} => ~Keeper(h)
    /\ Cardinality(Counted) <= 1 + strays
    /\ Cardinality(Counted) <= strays \/ \E h \in Runners : Keeper(h)

AInv ==
    /\ ATypeOK
    /\ LogsOwned
    /\ InlineRuns
    /\ RunsHaveShells
    /\ ~Overlap => LoopsOwnLock /\ HeavyAcquired /\ HeavyCounted
    /\ ~Overlap /\ FALSE \notin BashPid => RunsOwnLock
-----------------------------------------------------------------------------
\* The supervisor keeps a loop alive: when none is at work, one will be.
LoopKeptAlive ==
    (\A p \in Loops : pc[p] \notin Working) ~> (\E p \in Loops : pc[p] \in Working)
=============================================================================
