# TLA+ verification of QuantGodBackend

QuantGodBackend is a local trading research backend: a MetaTrader 5 expert
advisor that only observes, Python tools that keep queues, ledgers and reports
in SQLite and flat files, a Node server that starts those tools, and shell
scripts that run them round the clock.  Nearly every operation is a short-lived
process of its own, and the processes meet only in the file system.  The
properties that are hard to test are therefore about *overlapping processes,
kills between two writes, and snapshots that are stale when they are used*.
This directory models those parts in TLA+, checks them with TLC, and proves the
most important facts with TLAPS.

## 1. Inventory

| Part | State it keeps | Operations | Interacts with | Hard behaviours | What makes it correct |
|---|---|---|---|---|---|
| Platform store (`tools/mt5_platform_store.py`) | SQLite tables `pending_orders`, `audit_events`, `qd_quick_trades`, ... | `enqueue_order`, `update_queue_status`, `reconcile_snapshot`, `dispatch_queued_orders`, `run_db_pending_worker`, `build_state` | called by the API server and the command line, calls the trading client, mirrors its CSV ledger | SELECT outside the transaction, write lock and busy timeout, roll back after a file append | no order stranded, no lost attempt, evidence before commit, no ticket from a simulation |
| Trading client (`tools/mt5_trading_client.py`) | trading ledger CSV | `execute_endpoint`, `append_audit` | called by store and worker | append is not undone by a roll back | only dry runs are accepted |
| Pending order worker (`tools/mt5_pending_order_worker.py`) | worker ledger CSV, status JSON | `run_worker` | intents file from a producer; trading client | stale snapshot, kill between two ledgers | acceptances are backed, an intent is accepted once |
| Telegram gateway (`tools/usdjpy_evidence_os/telegram_gateway.py`) | queue and ledger JSONL | `enqueue_event`, `dispatch_pending`, `dispatch_text`, `dispatch_event` | the loop, the API and other tools run it; Telegram | check and append far apart, timeout kill after a send, hourly limit, retries | no invented receipt, bounded duplicates, eventual delivery |
| Agent loop and supervisor (`tools/run_mac_agent_v25_loop.sh`, `tools/ensure_mac_agent_v25_loop.sh`, `tools/run_process_group.py`) | lock directories, process group record, heartbeat | acquire, cycle, heavy tasks, signals, restart | runs all the other tools | lock made in two steps, stale locks, orphans, kills | one loop, one heavy run, one log maintainer, a loop is kept alive |
| Expert advisor (`MQL5/Experts/QuantGod_MultiStrategy.mq5`) | per-route cooldowns, pauses, daily counters, CSV exports | `OnInit`, `OnTick`, `OnTimer` | files read by the tools | restart in the middle of a cooldown, one decision per bar | a gate that is closed blocks every route; sending is disabled |
| Log maintenance (`tools/maintain_runtime_logs.py`) | the active logs, JSONL ledgers and two archive directories | rotate, compact, move legacy archives, expire, prune by size | the loop and `Start_QuantGod_mac.sh` run it; every other tool appends to its files | the files are not locked: identity of a file compared before a cut; kill between cut and tail; a clean-up that runs too late; a killed shell leaves its lock directory for good | nothing is lost, no hole, old archives go first, files stay small |
| Live automation readiness (`tools/live_automation_readiness/`) | one JSON file per review stage, approval files | `build_*`, `read_*`, `review_*` of fourteen stages | API and command line run it; policy, promotion and dashboard files of other tools; the operator's approval file | a command looks many times at a world that moves on; stale saved artifacts; builders that read and readers that build | no ready verdict without an approval of its packet; a refreshing command judges by what it saw; every command ends |
| Lifecycle, GA, param lab, champion gates, case memory (`tools/...`) | JSON and JSONL evidence | stage transitions, generations, tester windows | daily autopilot and the loop | windows and locks that expire, retries, roll back | no promotion without its gates |
| Reports, research, notification text, AI analysis | none of their own beyond output files | pure functions from files to files | loop, API | none of concurrency | numerical, covered by unit tests |

`PROJECT.json` lists every part with its sources and says why a part is left
out, and lists the hazards of the code at their lines.

## 2. Modules

| Module | Models |
|---|---|
| `PlatformQueue` | the order queue: rows, transactions, batch runs, ledger mirror |
| `QueueContract` | the abstract promise of the committed table |
| `PlatformQueueProofs` | theorems about the two |
| `PendingWorker` | the intent worker |
| `PendingWorkerProofs` | theorems about it |
| `TelegramGateway` | queue, dispatch and delivery of notifications |
| `TelegramGatewayProofs`, `TelegramDeliveryProofs` | theorems about its queue and about its ledger |
| `AgentLoop` | loop, heavy tasks, supervisor and process group |
| `AgentLoopProofs` | theorems about it |
| `LogMaintenance` | rotation, compaction, archives and their sweeps |
| `LogMaintenanceProofs`, `LogArchiveProofs` | theorems about single lines, and about whole archives and their order |
| `ReadinessPipeline` | the review artifacts, from the readiness dossier to the orchestrator |
| `ReadinessPipelineProofs` | theorems about it |
| `MC_*` | instances for TLC: symmetry sets, intent files, commands and quotas |

Definitions named `...` in a comment "Mutant:" are deliberately wrong variants
of the definition that follows them; no specification uses them.  They record
what kind of mistake in the code each property would notice.

### PlatformQueue

A call is a process of its own.  Commands that are one write transaction
(`EnqueueOrder`, `UpdateQueueStatus`, `ReconcileSnapshot`) wait for SQLite's
write lock and commit in one step.  A batch endpoint is split where other
processes can come in: `Select` reads outside a transaction; the first
`MarkProcessing` takes the lock; each order is `MarkProcessing` then
`ExecuteOrder`, which also appends the ledger row; `CommitBatch` publishes the
work.  `Abort` (an exception, the server's kill, a crash) rolls the transaction
back and leaves the ledger rows; `LockTimeout` is the busy timeout.
`SyncRead` and `SyncCommit` are `build_state`'s copy of the ledger.

`db` is what is committed, `txn` what the open transaction sees.  A row keeps
status, attempts, max attempts, priority, creation stamp, whether a broker
ticket is stored and whether a dry run is required.  `processed` and `mark`
stand for the audit events of executions and for those before the last requeue.
An order that was not inserted has status `absent`.

Left out: the other tables (`qd_quick_trades`, `task_runs` contents, positions
of a reconcile), the seed rows every call writes again, audit rows of enqueue,
status and reconcile calls, and the endpoints for operators, credentials,
strategies, connections and symbols.

### QueueContract

Two functions, status and attempts.  A batch is one step that counts one
attempt and reports a simulated acceptance for each order of the batch.  The
status `processing` does not exist there.

### PendingWorker

`LoadIntents` and `ReadExistingIntentStates` take the snapshots; then each
intent is a duplicate (`SkipDuplicate`), invalid (`RejectInvalid`) or executed
(`ExecuteIntent`, which writes the trading ledger) and recorded (`RecordResult`,
the worker ledger).  `WriteOutput` replaces the status file and `Crash` is the
server's kill at any point.  A read of the worker ledger that
fails answers with no states at all, so that the run takes every intent for a
new one; `MaxMisreads` bounds how many fail.  The worker ledger is kept as the
last state of each intent and the number of its acceptances; normalisation and hashing of an intent
are the choice of an entry of the file.  The producer of the intents file is
outside the repository (`WriteIntents`).

### TelegramGateway

`ReadKeys` and `AppendQueue` are `append_jsonl_unique`; `DispatchPending` picks
the batch; for each event `CheckDuplicate`, `CheckRate`, `SendTelegram`,
`AppendLedger`.  `Kill` is `run_with_timeout` or a crash.  The two reads at the
start of `dispatch_pending` are one step.  The code compares times only for
"same hour as now", so each entry carries that comparison and `ClockStrikes`
resets it.  A send may fail, may arrive without a usable answer, or may be
confirmed.  `RunOnce` is the dispatch of the loop's `run-once --send`, which
takes the topics in `Scheduled` only; the collection before it is one `ReadKeys`
and `AppendQueue` per report, by the same processes.  `LoopNext` has these steps
alone: any report may be collected, two processes may overlap, but nobody else
sends.  Messages sent past the queue could use up every hour's limit, and
dispatches by hand could push the loop's receipts out of the rows it reads.
`GNext` has all calls and the kills.

### AgentLoop

The loop's lock directory is `absent`, `empty` (made, no pid yet) or holds a
pid.  `Mkdir`, `ReadHolder`, `Probe`, `RemoveStale` and `Publish` are the lines
of `acquire_loop_lock`; the three files it writes are one step.  A cycle is the
log maintenance, the tools (no step of their own), and the decision about heavy
tasks.  The steps with an `H` are `acquire_heavy_lock` and the end of
`run_heavy_tasks`.  Traps are set only after the acquisition: a signal before
that, or during the cleanup, simply ends the process, which `Signal` says.
`Sup...` are the lines of `ensure_once` and `run_process_group.py`.

`HPublish` writes `${BASHPID:-$$}`.  Bash 4 and later know `BASHPID`, and the heavy
lock names the subshell.  The `/bin/bash` of macOS, which the supervisor starts,
does not, and it names the loop the subshell came from (`shell`).  Then, when a
loop is killed, its background subshell goes on while the directory names a
dead process: the next loop starts a second set of heavy tasks beside it, and
whichever set ends first takes the directory away.  `strays` counts the
subshells that have outlived their loop (`Gone`, `Background`).  The other way
round, when only the subshell is killed the directory names a living loop,
which starts no heavy tasks any more.  `BashPid` is the set of the shells in use.

`Overlap` says whether a start may fall into another start's acquisition.  With
`Overlap = FALSE` starts come one at a time, which is how the supervisor and
the launcher normally start loops; kills, hangs, stale directories, orphaned
tasks and restarts still happen anywhere.  `agent_overlap` shows what happens
without that restriction.

Left out: the heartbeat's clock (a restart of a living loop is an outside
event), the supervisor's asynchronous health refresh, status files, pids of
unrelated programs, and the Python children a heavy subshell may leave behind
when only the subshell is terminated.  Reading a pid and `kill -0` on it are one
step in the heavy lock.

### LogMaintenance

A file is the set of the lines it holds, numbered in the order they were
written.  `fresh` says that the identity a run has recorded (inode, size,
times) is still the file's: appending, cutting or rewriting it ends that.

| Action | Code in `maintain_runtime_logs.py` |
|---|---|
| `StartRun` | a run of the loop or the supervisor (`Scheduled`) needs the lock directory; one started by hand does not, and `MaxByHand` bounds those |
| `ListActive`, `SkipRecent` | the candidates among the active files; a ledger written a moment ago is passed over |
| `ListLegacy`, `DropLegacy` | the candidates among the legacy archives; an expired one is deleted |
| `UnlinkTarget` | an existing target of a legacy archive is removed first; that fails when another run is writing it |
| `CreateArchive` | `_open_verified_file` and the archive with `O_EXCL`; a name another run has taken ends the run |
| `FinishCopy` | the copy, the archive's fsync and modification time |
| `CheckIdentity` | `_verify_open_file`, the ledger's tail, `_cleanup_created_archive`; when the archive has been swept the clean-up raises and the run ends |
| `Cut`, `WriteTail` | `ftruncate` (or the unlink of a legacy archive), then the tail from the start of the file |
| `ListExpired`, `ListOverCap` | a directory is listed: what is past its retention, then, from a new listing, what is over the size cap |
| `UnlinkDue`, `MissDue`, `EndSweep` | `_safe_unlink` of the listed archives one by one, the oldest first; one that has changed or gone ends the run |
| `Fail` | an exception: the clean-up removes the archive the run created |
| `Crash` | a kill, of the run or of the run with its shell: what they created stays |
| `KillShell` | the shell alone is killed; its lock directory (`lockLeft`) is never removed and no scheduled run starts again |
| `AppendLine`, `RetentionPasses` | other tools write; time passes |

After the log come the legacy archive, the log archives, the ledger and its
archives, in the order of
`maintain_logs` and `maintain_jsonl_ledgers`.  `by` in an archive is the run whose clean-up may still
remove it; `Settled` is the moment that ends.  `retired` and `raced` are history:
lines deleted by a rule, and lines written while a run that has checked a file
for the last time goes on to rewrite it.  The code leaves that window open (it
takes no lock), so `NothingLost` excludes just these lines.

Sizes are counted in lines, not in bytes; that lines differ in length is in
`Tails`, where a tail may be shorter than `keep_lines`.  `CutMayFail` says whether
an exception may come between the cut and the end of the fsync.  Left out: the
status file, owners, modes, hard links and symbolic links, compression, and one
line longer than the whole byte limit.

### ReadinessPipeline

Fourteen stages, each with a saved artifact.  `Inputs(s, write, refresh, path)` is
what `build_s` asks for, in its order: `Build` when it rebuilds, `Read` when it
takes what is saved, `either` where `_saved_or_built` decides when the call is
made.  `stack` is the call stack of the one command that is going on, a frame
being the call, the calls it makes and the answers so far.

| Action | Code |
|---|---|
| `StartRun` | a command of `run_live_automation_readiness.py` |
| `BuildInputs` | a builder resolves the approval file and asks for its inputs |
| `SavedOrBuilt` | `_saved_or_built`: the saved artifact unless a refresh or an approval path asks for a new one |
| `ReadSaved` | a reader: the saved file, or what it does when there is none; an outdated preflight is rebuilt, refreshing |
| `Make` | the payload is computed from the answers and, with `write`, saved |
| `ChangeWorld`, `FileApproval`, `WithdrawApproval` | policy, terminal and operator, between any two steps; the operator approves the hash in the saved approval draft |

A payload keeps what later stages look at: the verdict, the state of the data
plane, whether only the execution mode is missing, the review packet's hash, the
dry-run intent, the approval file and whether it has rows.  A hash is the
contract it digests, together with the freshness that is part of it.  `seen` and
`filed` are history: the states of the world during a run, and the hashes the
operator ever approved.

`build_readiness` keeps a memo of builds that do not write, for the length of
the process.  It is not modelled: a command makes a second such build only when
a pipeline is built again without refreshing, that build takes from the dossier
only whether a lane qualifies, and the memo's key follows the policy and
promotion files this depends on (`builder.py:73-86`).

The review notes, wording, timestamps, thresholds inside one builder and the
package's other stages are left out; see "Not modelled".

## 3. Runs

| Run | Instance | Shows |
|---|---|---|
| `queue_races` | 1 order, 2 processes | the safety properties of the queue and `IndInv` under every interleaving of calls, kills and lock timeouts; every started call ends; the committed table refines `QueueContract` |
| `worker_races` | 2 intents, 2 overlapping runs, files that repeat an intent, 1 failed read of the ledger | `AcceptanceBacked`, `StreakBounded`, `OutputBacked` |
| `worker_once` | 1 intent, runs one after the other | **violated**: `AcceptedOnce` |
| `gateway_races` | 2 events, 2 processes, a limit of 1 per hour | receipts are real; an event's confirmed rows among those a sender looks at are bounded by the number of processes; the limit for events of this hour is overrun by at most one per other process |
| `gateway_delivery` | 2 scheduled reports, 2 overlapping processes, a limit of 1 per hour | racing collectors queue a report at most once each; what is queued is confirmed in the end, although the limit holds up one of the two |
| `gateway_rate` | 3 events, 1 process | **violated**: `HourlyRateLimit` |
| `agent_alive` | 2 loop pids, 3 heavy tasks, shells with and without `BASHPID`, starts one at a time | one loop, one log maintainer, one heavy run more than there are strays, and a loop is brought back to work |
| `agent_overlap` | 2 loops, overlapping starts | **violated**: `OneLoop` |
| `logs_maintained` | a scheduled run and one by hand that overlap, 1 kill or failure of a run or a shell, a log, a ledger or a legacy archive of up to 3 lines | `NothingLost`, `LegacyKept`, `NoHoles`, `OldestGoFirst`, `StaysSmall` |
| `logs_interrupted` | 1 run, an exception after the cut of a log or a ledger | **violated**: `NothingLost` |
| `readiness_review` | any 2 of 5 commands, 1 change of the world, 1 approval | `ApprovalBacked`, `CalmRefreshExact`, `RefreshUsesThisRun`, `NoRecursion` |
| `readiness_mixed` | 1 refreshing execution lane spec | **violated**: `ApprovalMatchesPlan` |

Type invariants (`TypeOK`, `WTypeOK`, `GTypeOK`, `ATypeOK`, `LTypeOK`, `PTypeOK`) are
checked in the same runs.  Deadlock is checked everywhere but in the readiness
runs, whose commands and changes are bounded and end.

### Why these bounds

A race on the queue needs a process that selected an order and one that commits
in between; what a third could add is excluded for any number by the theorems,
and so are batches of more than one order, which `RefinesContract` covers.
`MaxLedger` (4 rows of an order) is larger than the number of processes, so an
excess of attempts would be seen. The worker's `Copies` = 2 lets one file name
an intent twice, and `MaxRows` = 7 exceeds the bound of `StreakBounded` also
after a failed read, which is 3 * 2; to pay for that the second intent is only
ever invalid or past the limit. The gateway's windows (`LedgerTail`,
`CheckTail`, in the code 2000 and 200 rows) are small but no smaller than the
number of rows a run writes, as in the code's normal operation; `MaxSends` only
stops a counter. In `gateway_delivery` the two reports exceed the limit of one
per hour, so that the second meets it, is skipped and is retried in a later
hour. `MaxEvents` = 3 of the agent (starts and signals from outside) allows two
loops killed one after the other and a foreign start in one behaviour; three
tasks let two strays and a current set run together.

In `logs_maintained` one more line than `MaxActive` makes a run act on the log;
the ledger's third line is one that is cut away, while `KeepLines` = 2 and
`MaxActive` = 1 make tails that are full and tails cut by the byte limit.
`MaxArchive` = 3 lines lets the cap spare one archive and delete another. Each
initial state fills one of the three kinds of file: no two of them share state
but the archive directory's cap, and the theorem takes them together. Two runs
(one scheduled, which starts again and again, and one by hand) and one fault
suffice for a killed run followed by another, and for a run that sweeps the
archive another is still writing.

In `readiness_review` two commands after each other are needed for one to use
what the other saved; the five commands are the evidence and the adapter with
refresh, the lane, the order request contract and the orchestrator without, so
that every stage is built and both ways of asking for inputs occur.  One change
of the world and one filing between any two of some hundred steps give every
mix of an old and a new look.  The theorems hold without these bounds.

### Fairness

* `FairSpec`: a started process keeps running.  Nobody has to start one.
* `DeliverySpec`: the agent loop starts `run-once --send` again and again, started
  runs go on, hours pass, and Telegram accepts a message that is retried for
  ever.  Strong fairness is used for the loop's start, because another process
  may be between two of its calls, and for the accepted message, because other
  attempts come in between.  It promises `Scheduled` topics only: other topics
  wait for a `dispatch` the loop never runs.  Runs are not killed there: a run
  that is killed before every send delivers nothing, and the code does not
  prevent that.
* `FairASpec`: loop processes and supervisor keep running, the supervisor wakes
  up every minute, and the system does not hand out the same pid for ever.  It
  is used with `Overlap = FALSE`: without time, a supervisor could respawn
  between a loop's acquisition steps for ever, while in the code its minute is
  far longer than those steps.  Heavy tasks need not end.
* `FairLSpec`: the loop starts a maintenance run every interval while it gets the
  lock directory, and a run that was started goes on.  Once a killed shell has
  left the directory behind nothing makes a scheduled run start, and `StaysSmall`
  claims nothing any more.  Runs by hand need not start.  A scheduled run that
  finds the ledger again and again finds it old enough in the end (strong
  fairness of `ListActive` on the ledger against `SkipRecent`).  Faults, runs by
  hand and appended lines are bounded, which is the "when the writers pause" of
  `StaysSmall`.
* `ReadinessPipeline` states no fairness: that its commands end is the safety
  property `NoRecursion`.  No stage waits for itself, so a stack has at most one
  frame per stage, and each frame makes finitely many calls in order.

## 4. Disagreements found

* `worker_once`.  A skipped duplicate appends `DUPLICATE_SKIPPED`, which is then
  the last state of the intent, and that is not in the set the next run tests
  for: of three runs over the same file, the first and the third accept.  The
  repository's test stops after the second.  All these executions are dry runs.
* `gateway_rate`.  The hourly limit counts confirmed rows by the event's
  creation time, so a backlog from an earlier hour is sent without a limit.
* `agent_overlap`.  A start that comes between `mkdir` and the write of the pid
  finds no holder, removes the directory and goes on; both loops then run.

* `logs_interrupted`.  The clean-up that is meant for an incomplete archive also
  runs when an exception (an interrupt, a failing write or fsync) comes after
  the truncation of a log or a ledger; it then deletes the only copy of the
  lines.  With
  `CutMayFail = FALSE` nothing is lost, which is also proved.
* `readiness_mixed`.  A refreshing execution lane spec rebuilds its approval
  evidence and its dry-run plan one after the other and joins them by lane
  alone; when the world changes in between it is ready with the approval of one
  review packet and the intent of the next.

## 5. Theorems

`PlatformQueueProofs`, for all finite sets of orders and processes and all
bounds (`SetsFinite`, `NobodyIsNone`, `BoundsAreNat`):

* `TypeCorrect`, `Invariant`, and from the latter `NothingStranded`,
  `NoLostAttempt`, `BoundedReprocessing`, `EvidencePrecedesCommit`,
  `NoTicketFromSimulation`, the action property `ClosedIsFinal` and the
  refinement `RefinesContract`.

None of the properties is inductive.  `IndInv` adds what links them to the
transaction: `LockDiscipline` (only the process with the write lock has done
part of its batch), `TxnExtendsDb` (the transaction is exactly the committed
table with the finished orders of that batch and the one in hand), `RowsSound`
(a queued order has no attempts, a selected one exists), `AttemptBudget` (the
attempts of an order plus the processes that have selected it are at most the
number of processes: this is why stale selections cannot add up) and
`LedgerAhead` (the file is never behind the transaction).  The refinement maps a
commit to one `RunBatch` of the whole batch, and every other batch step to a
stutter.

`AgentLoopProofs`, for all finite sets of pids, any shells and any number of
signals (`PidsDistinct`, `PidsFinite`, `OverlapIsBoolean`, `BashPidIsBoolean`,
`EventsAreNat`): `AgentInvariant`, `AgentTypes`, `LogsAlone`, and, assuming
`~Overlap`, `LoopIsAlone` and `HeavyIsAlone`.

* `LoopsOwnLock`: a loop that is inside owns the directory, a loop which is about
  to remove it has seen that nobody is inside and cannot be overtaken, and a
  supervisor about to wipe it has killed the holder.
* `HeavyAcquired`, `InlineRuns`, `RunsHaveShells`: one run at a time acquires the
  heavy lock; an inline heavy run is part of its process; a run knows the loop
  whose pid it may write.
* `RunsOwnLock`, where all shells know `BASHPID`: the heavy lock names the run, so
  there is one.
* `HeavyCounted`, where some do not: a run keeps the others out (`Keeper`) while
  its loop lives and the directory names one of the two.  `Counted` are the runs
  that work, or are about to, or have lost their loop.  They are never more than
  one above the strays, and no more than the strays when no run keeps the others
  out, which is when the next one may join.
* `LogsOwned` needs no assumption because nobody removes the log directory for
  another.

`PendingWorkerProofs`, for any intents, files and finite set of processes
(`FilesAssumption`): `WTypes`, `AcceptancesAreBacked`, `StreaksAreBounded` and
`OutputIsBacked`.

* `WInv` adds that a run with a result still has its intent at the head of its
  queue (`Pending`) and counts, per intent, the acceptances in the worker's
  ledger together with the runs that have executed but not yet recorded
  (`Backed`): both together never exceed the trading ledger's rows, and a kill
  only takes a run out of the count.
* `SInv` bounds a streak by what can still be added to it.  A run that has not
  seen an acceptance of this streak in its snapshot may accept the intent as
  often as it is still in its queue; a run that starts later skips it, unless
  its read of the ledger fails, which adds one run to the `Allowance`.  The
  places an intent has in a queue are counted from the queue's end, so that
  going on with the next intent leaves the other places alone.
  `CopiesAssumption` bounds them per run.
* `OInv` says that no snapshot and no output file counts more acceptances than
  the worker's ledger has, and so, by `WInv`, than the trading ledger has.  The
  ledgers only grow, which is why a stale file is still backed.

`TelegramGatewayProofs`, for any finite set of processes and any windows
(`GatewaySets`): `QueueUnique`.  `QInv` counts the rows of an event together with
the processes that have found it missing and are about to append it; only a
process that sees no row joins them, and then there are none but such
processes.

`TelegramDeliveryProofs`, from `GatewaySets` and `GatewayBounds`: `GTypesHold`,
`ReceiptsAreReal`, `DuplicatesAreBounded` and `FreshRateIsBounded`, with the
inductive invariant `DInv`.

* `Attended`: a run past the duplicate test has the event in hand that its batch
  begins with.
* `ReceiptsCovered` counts the receipts of an event together with the runs whose
  message has arrived and whose receipt is still to be written: the chat has that
  many messages, or as many as it is counted up to (`MaxSends`).
* `DuplicatesCovered` counts, in the window the duplicate test looks at, the
  confirmed rows of an event together with the runs that passed the test and
  have not written yet.  Such a run joins when the window has no such row, so
  only runs are counted then, and there are at most as many as processes.  A
  run that writes its row leaves the count as the row joins it; the row that
  drops out of the window can only lower it.
* `FreshCovered` does the same for the rows of this hour and the hourly limit: a
  run joins only when fewer than `MaxEvents` are confirmed, so at most the other
  processes come on top of it.

`LogMaintenanceProofs`, for any number of overlapping runs, faults and lines
(`MaintenanceBounds`, `NobodyIsNoRun`), assuming `~CutMayFail`: `NothingLostHolds`.
`LInv` distinguishes where a line is that has left its file.  It is *kept* in an
archive nobody will remove (or retired, or raced), or it is *held*: in the
archive of a run that has cut the file, which goes on to settle its archive
whether it is killed or not.  `Relies` says what a run may assume at its last
check (its archive has all the file has), when it cuts, and when it writes
the tail.  `StepOfOne` reduces the preservation to what one run does to its own
archive and its own file.  The assumption is needed: `logs_interrupted` is a
counterexample without it.

`LogArchiveProofs`, from the same assumptions but for any value of `CutMayFail`:
`LTypesHold`, `NoHolesHolds`, `LegacyKeptHolds` and `OldestGoFirstHolds`.

* `TInv` adds to the types what each task allows (`Tasks`), what is noted aside
  (`AsideOK`: a sweep's list is finite), and that the archives stay finitely many:
  the size cap needs a newest archive to spare.
* `NInv` adds `TailClosed`: the tail a run still has to write back is an end
  segment of the lines written when it read the file, so a rewrite leaves no
  hole.
* `BInv` adds what holds of overlapping runs too: files, archives and tails hold
  only lines that were written (`Below`), no two archives have the same time and
  retention passes the oldest first (`Stamped`), and a legacy archive is copied
  whole or not at all (`WholeLegacy`).
* `GInv` adds, while runs have not overlapped (`~overlapped`), that a run is alone
  (`Alone`), that what is left on a sweep's list are the oldest archives of their
  directory (`Lined`), that a legacy archive's lines are in it or in the copy that
  replaces it (`LegacySafe`), and that lines leave the file for the archives, and the
  archives for good, in the order in which they were written (`Ordered`).  What
  the cap deletes is then closed downwards, because the lines it counts up to an
  archive grow with the archive's age.

`LegacyKept` and `OldestGoFirst` speak of runs that do not overlap, by their own
hypothesis: overlapping runs really can break both, which is why `OneLogMaintainer`
matters.

`ReadinessPipelineProofs`, for any contracts, set of commands and number of runs,
changes and approvals (`PipelineAssumption`, `ToolsAreCommands`): `PTypeCorrect`,
`ApprovalBackedHolds`, `NoRecursionHolds`.  `PInv` says that
every payload, saved, memoised or on its way through the stack, is sound; that
each frame asks for exactly the inputs of its stage and has got answers of
these stages in order; and that `Rank` goes down from a call to the calls it
makes.  `Rank` orders the stages as the chain does.  It is what excludes a
recursion, although readers build, builders read and an outdated preflight is
rebuilt in the middle of a build.

The same module proves `RefreshUsesThisRunHolds` and `CalmRefreshExactHolds`, the
two properties of refreshing commands.  They speak of the answer at the end of
a run that may take hundreds of steps, so `RInv` says of every step on the way:

* `SeenOK`: while a command is under way the present moment is among those it
  may have looked at.
* `FreshFrame`: in a refreshing command's tree every call builds and refreshes;
  nothing is read that an earlier command saved.
* `Earned`: each answer, and the memoised packet, that says it is ready names a
  packet that was current, and was approved, at moments of this run; the stages
  that probe found good probes in the live mode at one moment.
* `Merit`: when the run has seen one moment only and that deserves the verdict
  (`Deserving`), each answer says so, with the hash, the intent and the rows its
  readers will compare.
* `Leads`: then, too, each call stands by the approval the command started with.
  The adapter, sandbox and validator review pass on no approval when they were
  given none, and the builders below look for it again, each on its own; they
  find the same one because the evidence review, if it is saved in between, was
  accepted for just that approval.  This is the link that is not visible in
  any single builder.

The sums in these proofs are cardinalities of sets of pairs (an intent with the
number of an acceptance, an archive with one of its lines), and the gateway's
choice of a batch is defined by the positions of the rows (`RowsAt`, `Nth`): a sum
or a filter by recursion is beyond the provers, which cannot do the induction.

Every invariant and action property of a passing run is proved.  Only
model-checked are the liveness properties `CallsTerminate`, `QueuedIsDelivered`,
`LoopKeptAlive` and `StaysSmall`, because fairness is beyond the prover.

## 6. Plan

1. *Done*: platform queue with contract and proofs, intent worker and gateway
   with proofs, agent loop with proofs, log maintenance with proof, the
   readiness pipeline with proofs.
2. Proofs: what the liveness properties rest on, stated without fairness: a call,
   a dispatch or a readiness command has a measure that each of its own steps
   lowers, and no step of another process raises.
3. Readiness: the stages after the orchestrator (harness, activation, receipts,
   rollback, cutover), composed with `ReadinessPipeline` through the saved files.
4. Expert advisor: startup guard, cooldowns, pauses, sessions, one evaluation per
   bar, with a restart in the middle; property: no route passes a closed gate.
5. Param lab: tester lock, authorised window, run recovery and retries, composed
   with the champion gates; abstract specification: a tester run happens only
   inside one authorised window.
6. Autonomous lifecycle: promotion, demotion and roll back over days; property:
   no promotion skips a stage.
7. State store ingestion: incremental reads of a file that is rotated while it
   is written, composed with `LogMaintenance`.
8. Composition: gateway inside the agent loop (the loop's timeout kills the
   gateway), worker and queue on one trading ledger.

## 7. Not modelled

The models cover the parts of the backend in which processes overlap, die or act
on stale snapshots.  By lines they are a small share of the repository: most
of its code computes reports, scores and texts from files by pure functions
(strategy contracts and their adapter, back tests, walk-forward and bar
replay, evidence reports, AI prompts, notification texts, the read-only
bridge to the terminal).  That code decides nothing from an earlier call's state beyond
the files it is given, and its correctness is numerical or textual, so a model
would only repeat it; unit tests and reference data are the better tool.

Parts with state of their own that the models do not have yet:

* *Readiness*: the stages after the orchestrator (broker adapter harness,
  activation, receipts, broker send review, the reader in the expert advisor,
  rollback, cutover, implementation specification), the `release_*`,
  `promotion_*`, `evidence_intake` and `forex_live12_*` files, and a caller's own
  request file.  `live_execution_request_writer` is called by tests only.
* *Expert advisor*: order sending and closing are disabled in this source;
  gates, cooldowns and pauses are planned.
* *Autonomous lifecycle, strategy GA, param lab and tester windows, champion
  gates, case memory, state store*: stage machines over files and tables of
  their own; planned in the order above.
* *Daily autopilot, automation chain, dashboard server*: sequential
  orchestration.  What a timeout of theirs does to a tool is an action of that
  tool's module (`Abort`, `Crash`, `Kill`).
* *Disk space and backup tools*, and the status file of the log maintenance.
* *Platform store*: endpoints that upsert rows of other tables, the trade table
  and its window of 500 events.
* *Supervisor*: the asynchronous health refresh and heartbeat times.
