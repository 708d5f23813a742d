--------------------------- MODULE PlatformQueue ---------------------------
(***************************************************************************)
(* The pending_orders queue of tools/mt5_platform_store.py.                *)
(*                                                                         *)
(* Every call of the local API or of the command line runs in an operating *)
(* system process of its own, opens its own SQLite connection, performs    *)
(* one endpoint of run() and finishes with build_state().  Python's        *)
(* sqlite3 executes a SELECT outside any transaction and opens one at the  *)
(* first INSERT or UPDATE: the two batch endpoints (dispatch, worker-run)  *)
(* therefore choose their orders from a snapshot that may be stale by the  *)
(* time their transaction holds the write lock, and they do not look again.*)
(* The trading ledger is a CSV file: an append to it is not undone when    *)
(* the transaction around it rolls back.                                   *)
(***************************************************************************)
EXTENDS Integers, FiniteSets

CONSTANTS
    Orders,         \* ids of pending_orders rows
    Procs,          \* processes that can run at the same time
    Nobody,         \* no process, no order
    Priorities,     \* priorities a client may ask for
    Stamps,         \* created_at values; taken before the write lock is held
    MaxAttempts,    \* largest maxAttempts a client asks for
    MaxBatch,       \* largest maxOrders a client asks for
    MaxLedger       \* bound: ledger rows per order that TLC explores

ASSUME SetsFinite == IsFiniteSet(Procs) /\ IsFiniteSet(Orders)
ASSUME NobodyIsNone == Nobody \notin Procs \cup Orders
ASSUME BoundsAreNat ==
    /\ Priorities \subseteq Nat
    /\ Stamps \subseteq Nat
    /\ MaxAttempts \in Nat \ {0}
    /\ MaxBatch \in Nat \ {0}
    /\ MaxLedger \in Nat

VARIABLES
    db,         \* what is committed: pending_orders and the audit trail
    txn,        \* what the open transaction sees; db when none is open
    lock,       \* the process that holds SQLite's write lock, or Nobody
    pc,         \* where each process is in run()
    task,       \* the batch endpoint a process runs, and its dryRun flag
    batch,      \* the orders its SELECT returned
    todo,       \* those of them the loop has not finished
    doing,      \* the one the loop is in the middle of
    ledger,     \* rows in the trading ledger CSV, per order
    seen,       \* the ledger rows a process has read for its sync
    mirrored    \* the ledger rows copied into audit_events

vars == <<db, txn, lock, pc, task, batch, todo, doing, ledger, seen, mirrored>>
-----------------------------------------------------------------------------
(* Rows.  An order that was never inserted is a row with status "absent".  *)

ObservedPriority == 9

Statuses == {"absent", "queued", "processing", "dry_run_accepted", "blocked",
             "failed", "canceled", "archived", "broker_pending_observed"}

Row == [status : Statuses, attempts : Nat, max : Nat, prio : Nat,
        created : Nat, ticket : BOOLEAN, dry : BOOLEAN]

AbsentRow == [status |-> "absent", attempts |-> 0, max |-> 1, prio |-> 0,
              created |-> 0, ticket |-> FALSE, dry |-> TRUE]

\* processed[o]: audit events of action dispatch or db_worker for o;
\* mark[o]: how many of them precede the last requeue event of o.
Image == [rows : [Orders -> Row], processed : [Orders -> Nat],
          mark : [Orders -> Nat]]

\* ORDER BY priority ASC, created_at ASC.
Before(rows, a, b) ==
    \/ rows[a].prio < rows[b].prio
    \/ rows[a].prio = rows[b].prio /\ rows[a].created < rows[b].created

NoTask == [kind |-> "none", force |-> TRUE]

Init ==
    LET empty == [rows |-> [o \in Orders |-> AbsentRow],
                  processed |-> [o \in Orders |-> 0],
                  mark |-> [o \in Orders |-> 0]]
    IN  /\ db = empty
        /\ txn = empty
        /\ lock = Nobody
        /\ pc = [p \in Procs |-> "idle"]
        /\ task = [p \in Procs |-> NoTask]
        /\ batch = [p \in Procs |-> {}]
        /\ todo = [p \in Procs |-> {}]
        /\ doing = [p \in Procs |-> Nobody]
        /\ ledger = [o \in Orders |-> 0]
        /\ seen = [p \in Procs |-> [o \in Orders |-> 0]]
        /\ mirrored = [o \in Orders |-> 0]
-----------------------------------------------------------------------------
(* Endpoints that are one write transaction without an earlier read.  They *)
(* wait for the write lock, commit, and go on to build_state.              *)

WriteAndCommit(p, image) ==
    /\ pc[p] = "idle"
    /\ lock = Nobody
    /\ db' = image
    /\ txn' = image
    /\ pc' = [pc EXCEPT ![p] = "sync"]
    /\ UNCHANGED <<lock, task, batch, todo, doing, ledger, seen, mirrored>>

\* A client-supplied id that exists makes the INSERT raise: nothing changes.
EnqueueOrder(p, o, prio, max, stamp) ==
    /\ db.rows[o].status = "absent"
    /\ WriteAndCommit(p, [db EXCEPT !.rows[o] =
            [status |-> "queued", attempts |-> 0, max |-> max, prio |-> prio,
             created |-> stamp, ticket |-> FALSE, dry |-> TRUE]])

\* Mutants: a requeue that keeps the attempts, or invents a status.
RequeuedKeepsAttempts(row) == [row EXCEPT !.status = "queued"]
RequeuedAsRetry(row) == [row EXCEPT !.status = "retry", !.attempts = 0]

Requeued(row) == [row EXCEPT !.status = "queued", !.attempts = 0]

\* The UPDATE names only the id: any row, in any status, is overwritten, and
\* the audit event is written even when no row has that id.
UpdateQueueStatus(p, o, status) ==
    LET known == db.rows[o].status # "absent"
        row == IF status = "queued" THEN Requeued(db.rows[o])
               ELSE [db.rows[o] EXCEPT !.status = status]
        rows == IF known THEN [db.rows EXCEPT ![o] = row] ELSE db.rows
        mark == IF status = "queued" THEN [db.mark EXCEPT ![o] = db.processed[o]]
                ELSE db.mark
    IN  WriteAndCommit(p, [db EXCEPT !.rows = rows, !.mark = mark])

\* INSERT ... ON CONFLICT(id) DO UPDATE of one broker order of the snapshot.
Observed(row, ticket, stamp) ==
    IF row.status = "absent"
    THEN [status |-> "broker_pending_observed", attempts |-> 0, max |-> 1,
          prio |-> ObservedPriority, created |-> stamp, ticket |-> ticket,
          dry |-> TRUE]
    ELSE [row EXCEPT !.status = "broker_pending_observed", !.ticket = ticket]

\* All rows S of a snapshot, with a ticket those in T, in one transaction.
ReconcileSnapshot(p, S, T, stamp) ==
    WriteAndCommit(p, [db EXCEPT !.rows =
        [o \in Orders |-> IF o \in S THEN Observed(db.rows[o], o \in T, stamp)
                          ELSE db.rows[o]]])
-----------------------------------------------------------------------------
(* The batch endpoints.                                                    *)

\* Mutants: the SELECT takes accepted orders again, or cancelled ones.
EligibleAccepted(kind, row) == row.status \in {"queued", "dry_run_accepted"}
EligibleCanceled(kind, row) == row.status \in {"queued", "canceled"}

Eligible(kind, row) ==
    IF kind = "dispatch"
    THEN row.status = "queued" /\ row.dry
    ELSE /\ row.status \in {"queued", "pending", "deferred", "failed"}
         /\ row.attempts < row.max

\* ORDER BY ... LIMIT n: rows that tie may come in any order.
Batches(kind, rows, n) ==
    LET E == {o \in Orders : Eligible(kind, rows[o])}
    IN  {S \in SUBSET E :
            /\ Cardinality(S) <= n
            /\ S = E \/ Cardinality(S) = n
            /\ \A x \in E \ S, o \in S : ~Before(rows, x, o)}

Holders(o) == {p \in Procs : o \in batch[p]}

\* The SELECT, in autocommit mode: it reads the last commit and keeps no lock.
Select(p, kind, force, chosen) ==
    /\ pc[p] = "idle"
    /\ kind = "dispatch" => force
    /\ \A o \in chosen : ledger[o] + Cardinality(Holders(o)) < MaxLedger
    /\ pc' = [pc EXCEPT ![p] = "run"]
    /\ task' = [task EXCEPT ![p] = [kind |-> kind, force |-> force]]
    /\ batch' = [batch EXCEPT ![p] = chosen]
    /\ todo' = [todo EXCEPT ![p] = chosen]
    /\ UNCHANGED <<db, txn, lock, doing, ledger, seen, mirrored>>

Bumped(row) == [row EXCEPT !.status = "processing", !.attempts = @ + 1]

\* UPDATE ... SET status='processing', attempts=attempts+1 WHERE id=?.  The
\* first one opens the transaction; the status is not tested again.
MarkProcessing(p, o) ==
    /\ pc[p] = "run"
    /\ lock \in {Nobody, p}
    /\ doing[p] = Nobody
    /\ o \in todo[p]
    /\ \A x \in todo[p] : ~Before(db.rows, x, o)
    /\ lock' = p
    /\ doing' = [doing EXCEPT ![p] = o]
    /\ txn' = [txn EXCEPT !.rows[o] = Bumped(@)]
    /\ UNCHANGED <<db, pc, task, batch, todo, ledger, seen, mirrored>>

\* mt5_trading_client.execute_endpoint("order"): the execution lane is gone,
\* a dry run is simulated and leaves a ledger row, anything else is refused.
ExecuteEndpoint(dryRun) ==
    IF dryRun THEN "DRY_RUN_ACCEPTED" ELSE "EXECUTION_LANE_REMOVED"

\* Mutant: the worker trusts its own flag alone.
DryRunForcedOnly(t, row) == t.force

DryRun(t, row) == t.force \/ row.dry

FinalStatus(kind, decision) ==
    IF decision = "DRY_RUN_ACCEPTED" THEN "dry_run_accepted"
    ELSE IF kind = "dispatch" THEN "blocked" ELSE "failed"

\* Mutant: the second UPDATE leaves exchange_order_id alone.
FinishedKeepsTicket(row, status) == [row EXCEPT !.status = status]

\* broker_execution_fields: orderSendAllowed is false, so exchange_order_id
\* is written as the empty string.
Finished(row, status) == [row EXCEPT !.status = status, !.ticket = FALSE]

\* Mutant: the simulation returns before append_audit.
NoLedgerRows(decision) == 0

\* Rows append_audit adds to the trading ledger.
LedgerRows(decision) == IF decision = "DRY_RUN_ACCEPTED" THEN 1 ELSE 0

\* The endpoint call, the second UPDATE and the audit event of one order.
ExecuteOrder(p) ==
    LET o == doing[p]
        decision == ExecuteEndpoint(DryRun(task[p], txn.rows[o]))
        row == Finished(txn.rows[o], FinalStatus(task[p].kind, decision))
    IN  /\ o # Nobody
        /\ ledger' = [ledger EXCEPT ![o] = @ + LedgerRows(decision)]
        /\ txn' = [txn EXCEPT !.rows = [txn.rows EXCEPT ![o] = row],
                               !.processed = [txn.processed EXCEPT ![o] = @ + 1]]
        /\ todo' = [todo EXCEPT ![p] = @ \ {o}]
        /\ doing' = [doing EXCEPT ![p] = Nobody]
        /\ UNCHANGED <<db, lock, pc, task, batch, seen, mirrored>>

\* The process is about to write: an UPDATE of the loop, the task_runs row
\* that run_db_pending_worker inserts even for an empty batch, or the mirror.
WantsLock(p) ==
    \/ pc[p] = "mirror"
    \/ pc[p] = "run" /\ (todo[p] # {} \/ task[p].kind = "db_worker")

\* record_task_run and conn.commit() after the loop.
CommitBatch(p) ==
    /\ pc[p] = "run"
    /\ todo[p] = {}
    /\ WantsLock(p) => lock \in {Nobody, p}
    /\ IF lock = p THEN db' = txn /\ lock' = Nobody ELSE UNCHANGED <<db, lock>>
    /\ pc' = [pc EXCEPT ![p] = "sync"]
    /\ task' = [task EXCEPT ![p] = NoTask]
    /\ batch' = [batch EXCEPT ![p] = {}]
    /\ UNCHANGED <<txn, todo, doing, ledger, seen, mirrored>>
-----------------------------------------------------------------------------
(* build_state: copy the ledger into audit_events, then exit.              *)

\* read_csv_rows of the trading ledger.
SyncRead(p) ==
    /\ pc[p] = "sync"
    /\ pc' = [pc EXCEPT ![p] = "mirror"]
    /\ seen' = [seen EXCEPT ![p] = ledger]
    /\ UNCHANGED <<db, txn, lock, task, batch, todo, doing, ledger, mirrored>>

\* INSERT OR IGNORE by LedgerId, then commit: rows already copied stay.
SyncCommit(p) ==
    /\ pc[p] = "mirror"
    /\ lock = Nobody
    /\ mirrored' = [o \in Orders |-> IF seen[p][o] > mirrored[o]
                                     THEN seen[p][o] ELSE mirrored[o]]
    /\ pc' = [pc EXCEPT ![p] = "idle"]
    /\ seen' = [seen EXCEPT ![p] = [o \in Orders |-> 0]]
    /\ UNCHANGED <<db, txn, lock, task, batch, todo, doing, ledger>>

\* --no-sync.
SkipSync(p) ==
    /\ pc[p] = "sync"
    /\ pc' = [pc EXCEPT ![p] = "idle"]
    /\ UNCHANGED <<db, txn, lock, task, batch, todo, doing, ledger, seen,
                   mirrored>>
-----------------------------------------------------------------------------
(* A process ends early: an exception, the API server's kill after its     *)
(* timeout, a crash.  Closing the connection rolls its transaction back;   *)
(* the ledger rows it appended stay.                                       *)

\* Mutant: the connection commits whatever it has when it is closed.
AbortCommits(p) ==
    /\ pc[p] # "idle"
    /\ pc' = [pc EXCEPT ![p] = "idle"]
    /\ task' = [task EXCEPT ![p] = NoTask]
    /\ batch' = [batch EXCEPT ![p] = {}]
    /\ todo' = [todo EXCEPT ![p] = {}]
    /\ doing' = [doing EXCEPT ![p] = Nobody]
    /\ seen' = [seen EXCEPT ![p] = [o \in Orders |-> 0]]
    /\ IF lock = p THEN db' = txn /\ lock' = Nobody ELSE UNCHANGED <<db, lock>>
    /\ UNCHANGED <<txn, ledger, mirrored>>

Abort(p) ==
    /\ pc[p] # "idle"
    /\ pc' = [pc EXCEPT ![p] = "idle"]
    /\ task' = [task EXCEPT ![p] = NoTask]
    /\ batch' = [batch EXCEPT ![p] = {}]
    /\ todo' = [todo EXCEPT ![p] = {}]
    /\ doing' = [doing EXCEPT ![p] = Nobody]
    /\ seen' = [seen EXCEPT ![p] = [o \in Orders |-> 0]]
    /\ IF lock = p THEN txn' = db /\ lock' = Nobody ELSE UNCHANGED <<txn, lock>>
    /\ UNCHANGED <<db, ledger, mirrored>>

\* Mutant: a writer waits for the lock for ever.
LockTimeoutNever(p) == FALSE

\* busy_timeout: thirty seconds without the write lock raise an exception.
LockTimeout(p) ==
    /\ WantsLock(p)
    /\ lock \notin {Nobody, p}
    /\ Abort(p)
-----------------------------------------------------------------------------
Command(p) ==
    \/ \E o \in Orders, prio \in Priorities, max \in 1..MaxAttempts, t \in Stamps :
           EnqueueOrder(p, o, prio, max, t)
    \/ \E o \in Orders, s \in {"queued", "canceled", "archived"} :
           UpdateQueueStatus(p, o, s)
    \/ \E S \in SUBSET Orders : \E T \in SUBSET S, t \in Stamps :
           ReconcileSnapshot(p, S, T, t)
    \/ \E kind \in {"dispatch", "db_worker"}, force \in BOOLEAN, n \in 1..MaxBatch :
           \E chosen \in Batches(kind, db.rows, n) : Select(p, kind, force, chosen)

\* What a process that was started does without further input.
Step(p) ==
    \/ \E o \in Orders : MarkProcessing(p, o)
    \/ ExecuteOrder(p)
    \/ CommitBatch(p)
    \/ SyncRead(p)
    \/ SyncCommit(p)
    \/ SkipSync(p)
    \/ LockTimeout(p)

Next == \E p \in Procs : Command(p) \/ Step(p) \/ Abort(p)

Spec == Init /\ [][Next]_vars

\* The operating system runs every started process; nobody is obliged to
\* start one.
FairSpec == Spec /\ \A p \in Procs : WF_vars(Step(p))
-----------------------------------------------------------------------------
TypeOK ==
    /\ db \in Image
    /\ txn \in Image
    /\ lock \in Procs \cup {Nobody}
    /\ pc \in [Procs -> {"idle", "run", "sync", "mirror"}]
    /\ task \in [Procs -> [kind : {"none", "dispatch", "db_worker"},
                           force : BOOLEAN]]
    /\ batch \in [Procs -> SUBSET Orders]
    /\ todo \in [Procs -> SUBSET Orders]
    /\ doing \in [Procs -> Orders \cup {Nobody}]
    /\ ledger \in [Orders -> Nat]
    /\ seen \in [Procs -> [Orders -> Nat]]
    /\ mirrored \in [Orders -> Nat]

\* A worker that dies between its two UPDATEs strands no order: a committed
\* row is never 'processing', and never in a status only a refused or a live
\* execution would produce.
NoStrandedOrder ==
    \A o \in Orders : db.rows[o].status \notin {"processing", "blocked", "failed"}

\* No lost update: whatever the processes interleave, the attempts column is
\* the number of processing events the audit trail holds since the last
\* requeue of the order.
AttemptsMatchAudit ==
    \A o \in Orders : db.rows[o].attempts = db.processed[o] - db.mark[o]

\* Neither endpoint re-checks a row before it processes it, and dispatch
\* ignores max_attempts; still an order is processed at most once per process
\* that ran at the same time, so at most once when calls do not overlap.
AttemptsBounded ==
    \A o \in Orders : db.rows[o].attempts <= Cardinality(Procs)

\* Evidence first: each committed processing event has its own row in the
\* trading ledger, and audit_events never mirrors a row the file lacks.
EvidenceChain ==
    \A o \in Orders : /\ db.processed[o] <= ledger[o]
                      /\ mirrored[o] <= ledger[o]

\* A simulated acceptance carries no broker ticket, even when the order was
\* observed at the broker, requeued and then dispatched.
SimulatedHasNoTicket ==
    \A o \in Orders : db.rows[o].status = "dry_run_accepted" => ~db.rows[o].ticket

QuietlyClosed(o) ==
    db.rows[o].status \in {"canceled", "archived"} /\ Holders(o) = {}

\* Once an order is cancelled or archived and no call in flight had selected
\* it, no later call selects or processes it: it stays so until an operator
\* requeues it or a broker snapshot reports it.  (A call that selected it
\* before the cancel still turns it into dry_run_accepted.)
ClosedStaysClosed ==
    [][\A o \in Orders :
          QuietlyClosed(o) =>
              \/ QuietlyClosed(o)'
              \/ db'.rows[o].status \in {"queued", "broker_pending_observed"}]_vars

\* The committed table implements QueueContract: half-done batches, the
\* 'processing' status and rolled back transactions are never visible.
Contract ==
    INSTANCE QueueContract WITH
        status <- [o \in Orders |-> db.rows[o].status],
        attempts <- [o \in Orders |-> db.rows[o].attempts]

ImplementsContract == Contract!CSpec

-----------------------------------------------------------------------------
(* The inductive invariant behind the safety properties.                   *)

\* Only the process that holds the write lock has made progress in its batch,
\* and only a process inside a batch endpoint has one.
LockDiscipline ==
    /\ lock = Nobody => txn = db
    /\ lock # Nobody => pc[lock] = "run"
    /\ \A p \in Procs :
          /\ pc[p] # "run" => batch[p] = {}
          /\ todo[p] \subseteq batch[p]
          /\ lock # p => todo[p] = batch[p] /\ doing[p] = Nobody
          /\ doing[p] # Nobody => doing[p] \in todo[p]

\* What the open transaction has done to the committed table so far.
TxnRow(o, p) ==
    IF o \in batch[p] \ todo[p] THEN Finished(Bumped(db.rows[o]), "dry_run_accepted")
    ELSE IF doing[p] = o THEN Bumped(db.rows[o])
    ELSE db.rows[o]

TxnExtendsDb ==
    \A p \in Procs : lock = p =>
        /\ txn.mark = db.mark
        /\ \A o \in Orders :
              /\ txn.rows[o] = TxnRow(o, p)
              /\ txn.processed[o] = db.processed[o] +
                    (IF o \in batch[p] \ todo[p] THEN 1 ELSE 0)

RowsSound ==
    \A o \in Orders :
        /\ db.rows[o].dry
        /\ db.rows[o].status \in {"absent", "queued"} => db.rows[o].attempts = 0
        /\ \A p \in Procs : o \in batch[p] => db.rows[o].status # "absent"

\* Every process that selected an order may still add one attempt to it.
AttemptBudget ==
    \A o \in Orders :
        db.rows[o].attempts + Cardinality(Holders(o)) <= Cardinality(Procs)

LedgerAhead ==
    \A o \in Orders : /\ txn.processed[o] <= ledger[o]
                      /\ mirrored[o] <= ledger[o]
                      /\ \A p \in Procs : seen[p][o] <= ledger[o]

IndInv ==
    /\ TypeOK
    /\ LockDiscipline
    /\ TxnExtendsDb
    /\ RowsSound
    /\ NoStrandedOrder
    /\ AttemptsMatchAudit
    /\ SimulatedHasNoTicket
    /\ AttemptBudget
    /\ LedgerAhead
-----------------------------------------------------------------------------
\* Every started call ends: the write lock is always given back, and a call
\* that cannot get it gives up.
CallsTerminate == \A p \in Procs : pc[p] # "idle" ~> pc[p] = "idle"
=============================================================================
