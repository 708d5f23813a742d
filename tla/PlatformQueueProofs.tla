------------------------ MODULE PlatformQueueProofs ------------------------
(***************************************************************************)
(* Proofs about PlatformQueue, for any number of orders and processes.     *)
(***************************************************************************)
EXTENDS PlatformQueue, FiniteSetTheorems, TLAPS

(* The rows that the operations write are rows of the table.               *)
LEMMA RowTypes ==
    ASSUME NEW row \in Row
    PROVE  /\ Bumped(row) \in Row
           /\ Requeued(row) \in Row
           /\ \A s \in Statuses : [row EXCEPT !.status = s] \in Row
           /\ \A s \in Statuses : Finished(row, s) \in Row
<1>1. row.attempts + 1 \in Nat
  BY DEF Row
<1>2. Bumped(row) \in Row
  BY <1>1 DEF Row, Statuses, Bumped
<1>3. Requeued(row) \in Row
  BY DEF Row, Statuses, Requeued
<1>4. \A s \in Statuses : [row EXCEPT !.status = s] \in Row
  BY DEF Row
<1>5. \A s \in Statuses : Finished(row, s) \in Row
  BY DEF Row, Finished
<1> QED
  BY <1>2, <1>3, <1>4, <1>5

LEMMA ObservedType ==
    ASSUME NEW row \in Row, NEW o \in Orders, NEW T, NEW stamp \in Stamps
    PROVE  Observed(row, o \in T, stamp) \in Row
<1>1. stamp \in Nat
  BY BoundsAreNat
<1>2. Observed(row, TRUE, stamp) \in Row /\ Observed(row, FALSE, stamp) \in Row
  BY <1>1 DEF Observed, Row, Statuses, ObservedPriority
<1>3. CASE o \in T
  <2>1. (o \in T) = TRUE
    BY <1>3
  <2> QED
    BY <1>2, <2>1, Zenon
<1>4. CASE o \notin T
  <2>1. (o \in T) = FALSE
    BY <1>4
  <2> QED
    BY <1>2, <2>1, Zenon
<1> QED
  BY <1>3, <1>4

LEMMA AbsentRowType == AbsentRow \in Row
  BY DEF AbsentRow, Row, Statuses

(* Replacing a part of an image gives an image.                            *)
LEMMA ImageParts ==
    ASSUME NEW i \in Image
    PROVE  /\ i.rows \in [Orders -> Row]
           /\ i.processed \in [Orders -> Nat]
           /\ i.mark \in [Orders -> Nat]
           /\ \A r \in [Orders -> Row] : [i EXCEPT !.rows = r] \in Image
           /\ \A r \in [Orders -> Row], m \in [Orders -> Nat] :
                 [i EXCEPT !.rows = r, !.mark = m] \in Image
           /\ \A r \in [Orders -> Row], n \in [Orders -> Nat] :
                 [i EXCEPT !.rows = r, !.processed = n] \in Image
  BY DEF Image
-----------------------------------------------------------------------------
(* Type correctness.                                                       *)

LEMMA CommandType ==
    ASSUME TypeOK, NEW p \in Procs, Command(p)
    PROVE  TypeOK'
<1> USE DEF TypeOK
<1>0. db.rows \in [Orders -> Row] /\ db.processed \in [Orders -> Nat]
      /\ db.mark \in [Orders -> Nat]
  BY ImageParts
<1>1. ASSUME NEW i \in Image, WriteAndCommit(p, i)
      PROVE  TypeOK'
  BY <1>1 DEF WriteAndCommit
<1>2. ASSUME NEW o \in Orders, NEW prio \in Priorities, NEW max \in 1..MaxAttempts,
             NEW stamp \in Stamps, EnqueueOrder(p, o, prio, max, stamp)
      PROVE  TypeOK'
  <2> DEFINE row == [status |-> "queued", attempts |-> 0, max |-> max,
                     prio |-> prio, created |-> stamp,
                     ticket |-> FALSE, dry |-> TRUE]
  <2>1. row \in Row
    BY BoundsAreNat DEF Row, Statuses
  <2>2. [db.rows EXCEPT ![o] = row] \in [Orders -> Row]
    BY <1>0, <2>1
  <2>3. [db EXCEPT !.rows[o] = row] \in Image
    BY <2>2, ImageParts
  <2> QED
    BY <1>1, <1>2, <2>3 DEF EnqueueOrder
<1>3. ASSUME NEW o \in Orders, NEW s \in {"queued", "canceled", "archived"},
             UpdateQueueStatus(p, o, s)
      PROVE  TypeOK'
  <2> DEFINE row == IF s = "queued" THEN Requeued(db.rows[o])
                    ELSE [db.rows[o] EXCEPT !.status = s]
             rows == IF db.rows[o].status # "absent"
                     THEN [db.rows EXCEPT ![o] = row] ELSE db.rows
             mark == IF s = "queued" THEN [db.mark EXCEPT ![o] = db.processed[o]]
                     ELSE db.mark
  <2>1. row \in Row
    BY <1>0, RowTypes DEF Statuses
  <2>2. rows \in [Orders -> Row]
    BY <1>0, <2>1
  <2>3. mark \in [Orders -> Nat]
    BY <1>0
  <2>4. [db EXCEPT !.rows = rows, !.mark = mark] \in Image
    BY <2>2, <2>3, ImageParts
  <2>5. WriteAndCommit(p, [db EXCEPT !.rows = rows, !.mark = mark])
    BY <1>3 DEF UpdateQueueStatus
  <2> QED
    BY <1>1, <2>4, <2>5
<1>4. ASSUME NEW S \in SUBSET Orders, NEW T \in SUBSET S, NEW stamp \in Stamps,
             ReconcileSnapshot(p, S, T, stamp)
      PROVE  TypeOK'
  <2> DEFINE rows == [o \in Orders |-> IF o \in S THEN Observed(db.rows[o], o \in T, stamp)
                                       ELSE db.rows[o]]
  <2>0. \A o \in Orders : Observed(db.rows[o], o \in T, stamp) \in Row
    BY <1>0, ObservedType
  <2>1. rows \in [Orders -> Row]
    BY <1>0, <2>0
  <2>2. [db EXCEPT !.rows = rows] \in Image
    BY <2>1, ImageParts
  <2> QED
    BY <1>1, <1>4, <2>2 DEF ReconcileSnapshot
<1>5. ASSUME NEW kind \in {"dispatch", "db_worker"}, NEW force \in BOOLEAN,
             NEW n \in 1..MaxBatch,
             NEW chosen \in Batches(kind, db.rows, n), Select(p, kind, force, chosen)
      PROVE  TypeOK'
  <2>1. chosen \subseteq Orders
    BY DEF Batches
  <2> QED
    BY <1>5, <2>1 DEF Select
<1> QED
  BY <1>2, <1>3, <1>4, <1>5 DEF Command

LEMMA StepType ==
    ASSUME TypeOK, NEW p \in Procs, Step(p) \/ Abort(p)
    PROVE  TypeOK'
<1> USE DEF TypeOK
<1>0. txn.rows \in [Orders -> Row] /\ txn.processed \in [Orders -> Nat]
  BY ImageParts
<1>1. ASSUME NEW o \in Orders, MarkProcessing(p, o)
      PROVE  TypeOK'
  <2>1. [txn.rows EXCEPT ![o] = Bumped(txn.rows[o])] \in [Orders -> Row]
    BY <1>0, RowTypes
  <2>2. [txn EXCEPT !.rows[o] = Bumped(txn.rows[o])] \in Image
    BY <2>1, ImageParts
  <2> QED
    BY <1>1, <2>2 DEF MarkProcessing
<1>2. CASE ExecuteOrder(p)
  <2> DEFINE o == doing[p]
             decision == ExecuteEndpoint(DryRun(task[p], txn.rows[o]))
             status == FinalStatus(task[p].kind, decision)
             row == Finished(txn.rows[o], status)
  <2>1. o \in Orders
    BY <1>2 DEF ExecuteOrder
  <2>2. status \in Statuses
    BY DEF FinalStatus, Statuses
  <2>3. row \in Row
    BY <1>0, <2>1, <2>2, RowTypes
  <2>4. [txn.rows EXCEPT ![o] = row] \in [Orders -> Row]
    BY <1>0, <2>3
  <2>5. [txn.processed EXCEPT ![o] = @ + 1] \in [Orders -> Nat]
    BY <1>0, <2>1
  <2>6. [txn EXCEPT !.rows = [txn.rows EXCEPT ![o] = row],
                    !.processed = [txn.processed EXCEPT ![o] = @ + 1]] \in Image
    BY <2>4, <2>5, ImageParts
  <2>7. txn' \in Image
    BY <1>2, <2>6 DEF ExecuteOrder
  <2>8. ledger' \in [Orders -> Nat]
    BY <1>2, <2>1 DEF ExecuteOrder, LedgerRows
  <2> QED
    BY <1>2, <2>7, <2>8 DEF ExecuteOrder
<1>3. CASE CommitBatch(p)
  <2>1. db' \in Image /\ lock' \in Procs \cup {Nobody}
    BY <1>3 DEF CommitBatch
  <2>2. task' \in [Procs -> [kind : {"none", "dispatch", "db_worker"}, force : BOOLEAN]]
    BY <1>3 DEF CommitBatch, NoTask
  <2> QED
    BY <1>3, <2>1, <2>2 DEF CommitBatch
<1>4. CASE SyncRead(p)
  BY <1>4 DEF SyncRead
<1>5. CASE SyncCommit(p)
  BY <1>5 DEF SyncCommit
<1>6. CASE SkipSync(p)
  BY <1>6 DEF SkipSync
<1>7. CASE Abort(p)
  <2>1. txn' \in Image /\ lock' \in Procs \cup {Nobody}
    BY <1>7 DEF Abort
  <2>2. task' \in [Procs -> [kind : {"none", "dispatch", "db_worker"}, force : BOOLEAN]]
    BY <1>7 DEF Abort, NoTask
  <2> QED
    BY <1>7, <2>1, <2>2 DEF Abort
<1> QED
  BY <1>1, <1>2, <1>3, <1>4, <1>5, <1>6, <1>7 DEF Step, LockTimeout

(* Every variable keeps its type: rows stay rows of the table, counters    *)
(* stay natural numbers, whatever the calls interleave.                    *)
THEOREM TypeCorrect == Spec => []TypeOK
<1>1. Init => TypeOK
  <2> SUFFICES ASSUME Init PROVE TypeOK
    OBVIOUS
  <2>1. [rows |-> [o \in Orders |-> AbsentRow], processed |-> [o \in Orders |-> 0],
         mark |-> [o \in Orders |-> 0]] \in Image
    BY AbsentRowType DEF Image
  <2> QED
    BY <2>1 DEF Init, TypeOK, NoTask
<1>2. TypeOK /\ [Next]_vars => TypeOK'
  <2> SUFFICES ASSUME TypeOK, [Next]_vars PROVE TypeOK'
    OBVIOUS
  <2>1. CASE UNCHANGED vars
    BY <2>1 DEF vars, TypeOK
  <2>2. CASE Next
    BY <2>2, CommandType, StepType DEF Next
  <2> QED
    BY <2>1, <2>2
<1> QED
  BY <1>1, <1>2, PTL DEF Spec
-----------------------------------------------------------------------------
(* Who holds an order: finitely many processes, and how the number changes.*)

LEMMA HoldersBound ==
    ASSUME NEW o
    PROVE  /\ IsFiniteSet(Holders(o))
           /\ Cardinality(Procs) \in Nat
           /\ Cardinality(Holders(o)) \in Nat
           /\ Cardinality(Holders(o)) <= Cardinality(Procs)
<1>1. Holders(o) \subseteq Procs
  BY DEF Holders
<1> QED
  BY <1>1, SetsFinite, FS_Subset, FS_CardinalityType

LEMMA HoldersShrink ==
    ASSUME NEW o, Holders(o)' \subseteq Holders(o)
    PROVE  /\ Cardinality(Holders(o)') \in Nat
           /\ Cardinality(Holders(o)') <= Cardinality(Holders(o))
  BY HoldersBound, FS_Subset, FS_CardinalityType

LEMMA HoldersLose ==
    ASSUME NEW o, NEW p \in Holders(o), Holders(o)' = Holders(o) \ {p}
    PROVE  Cardinality(Holders(o)') = Cardinality(Holders(o)) - 1
  BY HoldersBound, FS_RemoveElement
-----------------------------------------------------------------------------
(* Commands that are one committed write.  The new image may only touch    *)
(* rows in the ways below.                                                 *)

GoodWrite(i) ==
    /\ i.processed = db.processed
    /\ \A o \in Orders :
          /\ i.rows[o].dry
          /\ i.rows[o].status \notin {"processing", "blocked", "failed"}
          /\ i.rows[o].status \in {"absent", "queued"} => i.rows[o].attempts = 0
          /\ db.rows[o].status # "absent" => i.rows[o].status # "absent"
          /\ i.rows[o].status = "dry_run_accepted" => ~i.rows[o].ticket
          /\ i.rows[o].attempts = i.processed[o] - i.mark[o]
          /\ i.rows[o].attempts <= db.rows[o].attempts

LEMMA GoodWriteKeepsInv ==
    ASSUME IndInv, NEW p \in Procs, NEW i \in Image, WriteAndCommit(p, i),
           GoodWrite(i), TypeOK'
    PROVE  IndInv'
<1> USE DEF WriteAndCommit
<1>1. db' = i /\ txn' = i /\ lock = Nobody /\ lock' = Nobody
      /\ UNCHANGED <<task, batch, todo, doing, ledger, seen, mirrored>>
  OBVIOUS
<1>2. LockDiscipline'
  <2>1. \A q \in Procs : pc'[q] # "run" => batch[q] = {}
    BY DEF IndInv, LockDiscipline, TypeOK
  <2> QED
    BY <1>1, <2>1 DEF IndInv, LockDiscipline
<1>3. TxnExtendsDb'
  BY <1>1, NobodyIsNone DEF TxnExtendsDb
<1>4. RowsSound'
  BY <1>1 DEF IndInv, RowsSound, GoodWrite
<1>5. NoStrandedOrder' /\ AttemptsMatchAudit' /\ SimulatedHasNoTicket'
  BY <1>1 DEF NoStrandedOrder, AttemptsMatchAudit, SimulatedHasNoTicket, GoodWrite
<1>6. AttemptBudget'
  <2> SUFFICES ASSUME NEW o \in Orders
               PROVE  i.rows[o].attempts + Cardinality(Holders(o)') <= Cardinality(Procs)
    BY <1>1 DEF AttemptBudget
  <2>1. Holders(o)' = Holders(o)
    BY <1>1 DEF Holders
  <2>2. i.rows[o].attempts \in Nat /\ db.rows[o].attempts \in Nat
    BY DEF IndInv, TypeOK, Image, Row
  <2>3. i.rows[o].attempts <= db.rows[o].attempts
    BY DEF GoodWrite
  <2>4. db.rows[o].attempts + Cardinality(Holders(o)) <= Cardinality(Procs)
    BY DEF IndInv, AttemptBudget
  <2> QED
    BY <2>1, <2>2, <2>3, <2>4, HoldersBound
<1>7. LedgerAhead'
  <2>1. txn = db
    BY <1>1 DEF IndInv, LockDiscipline
  <2> QED
    BY <1>1, <2>1 DEF IndInv, LedgerAhead, GoodWrite
<1> QED
  BY <1>2, <1>3, <1>4, <1>5, <1>6, <1>7 DEF IndInv

LEMMA CommandKeepsInv ==
    ASSUME IndInv, NEW p \in Procs, Command(p)
    PROVE  IndInv'
<1>t. TypeOK'
  BY CommandType DEF IndInv
<1>0. /\ db \in Image /\ db.rows \in [Orders -> Row]
      /\ db.processed \in [Orders -> Nat] /\ db.mark \in [Orders -> Nat]
  BY ImageParts DEF IndInv, TypeOK
<1>d. \A o \in Orders :
        /\ db.rows[o].dry
        /\ db.rows[o].status \notin {"processing", "blocked", "failed"}
        /\ db.rows[o].status \in {"absent", "queued"} => db.rows[o].attempts = 0
        /\ db.rows[o].status = "dry_run_accepted" => ~db.rows[o].ticket
        /\ db.rows[o].attempts = db.processed[o] - db.mark[o]
        /\ db.rows[o].attempts \in Nat
        /\ db.rows[o] \in Row
  BY <1>0 DEF IndInv, RowsSound, NoStrandedOrder, SimulatedHasNoTicket,
              AttemptsMatchAudit, Row
<1>2. ASSUME NEW o \in Orders, NEW prio \in Priorities, NEW max \in 1..MaxAttempts,
             NEW stamp \in Stamps, EnqueueOrder(p, o, prio, max, stamp)
      PROVE  IndInv'
  <2> DEFINE row == [status |-> "queued", attempts |-> 0, max |-> max,
                     prio |-> prio, created |-> stamp,
                     ticket |-> FALSE, dry |-> TRUE]
             i == [db EXCEPT !.rows[o] = row]
  <2>1. WriteAndCommit(p, i) /\ db.rows[o].status = "absent"
    BY <1>2 DEF EnqueueOrder
  <2>2. i \in Image
    BY <1>t, <2>1 DEF WriteAndCommit, TypeOK
  <2>3. i.processed = db.processed /\ i.mark = db.mark
        /\ i.rows = [db.rows EXCEPT ![o] = row]
    BY <1>0 DEF Image
  <2>4. \A x \in Orders : i.rows[x] = IF x = o THEN row ELSE db.rows[x]
    BY <1>0, <2>3
  <2>5. GoodWrite(i)
    <3> HIDE DEF i
    <3>1. row.status = "queued" /\ row.attempts = 0 /\ row.dry /\ ~row.ticket
      OBVIOUS
    <3> HIDE DEF row
    <3> QED
      BY <1>d, <2>1, <2>3, <2>4, <3>1 DEF GoodWrite
  <2> QED
    BY <1>t, <2>1, <2>2, <2>5, GoodWriteKeepsInv
<1>3. ASSUME NEW o \in Orders, NEW s \in {"queued", "canceled", "archived"},
             UpdateQueueStatus(p, o, s)
      PROVE  IndInv'
  <2> DEFINE row == IF s = "queued" THEN Requeued(db.rows[o])
                    ELSE [db.rows[o] EXCEPT !.status = s]
             rows == IF db.rows[o].status # "absent"
                     THEN [db.rows EXCEPT ![o] = row] ELSE db.rows
             mark == IF s = "queued" THEN [db.mark EXCEPT ![o] = db.processed[o]]
                     ELSE db.mark
             i == [db EXCEPT !.rows = rows, !.mark = mark]
  <2>1. WriteAndCommit(p, i)
    BY <1>3 DEF UpdateQueueStatus
  <2>2. i \in Image
    BY <1>t, <2>1 DEF WriteAndCommit, TypeOK
  <2>3. i.processed = db.processed /\ i.mark = mark /\ i.rows = rows
    BY <1>0 DEF Image
  <2>4. \A x \in Orders :
          /\ rows[x] = IF x = o /\ db.rows[o].status # "absent" THEN row ELSE db.rows[x]
          /\ mark[x] = IF x = o /\ s = "queued" THEN db.processed[x] ELSE db.mark[x]
    BY <1>0
  <2>5. /\ row.status = s /\ row.dry
        /\ row.attempts = IF s = "queued" THEN 0 ELSE db.rows[o].attempts
    <3>1. CASE s = "queued"
      BY <1>d, <3>1 DEF Requeued, Row
    <3>2. CASE s # "queued"
      BY <1>d, <3>2 DEF Row
    <3> QED
      BY <3>1, <3>2
  <2>6. GoodWrite(i)
    <3> HIDE DEF i, row, rows, mark
    <3> SUFFICES ASSUME NEW x \in Orders
                 PROVE /\ i.rows[x].dry
                       /\ i.rows[x].status \notin {"processing", "blocked", "failed"}
                       /\ i.rows[x].status \in {"absent", "queued"} => i.rows[x].attempts = 0
                       /\ db.rows[x].status # "absent" => i.rows[x].status # "absent"
                       /\ i.rows[x].status = "dry_run_accepted" => ~i.rows[x].ticket
                       /\ i.rows[x].attempts = i.processed[x] - i.mark[x]
                       /\ i.rows[x].attempts <= db.rows[x].attempts
      BY <2>3 DEF GoodWrite
    <3>n. db.processed[x] \in Nat /\ db.mark[x] \in Nat
      BY <1>0
    <3>1. CASE x = o /\ db.rows[o].status # "absent"
      BY <1>d, <2>3, <2>4, <2>5, <3>1, <3>n
    <3>2. CASE x = o /\ db.rows[o].status = "absent"
      BY <1>d, <2>3, <2>4, <3>2, <3>n
    <3>3. CASE x # o
      BY <1>d, <2>3, <2>4, <3>3, <3>n
    <3> QED
      BY <3>1, <3>2, <3>3
  <2> QED
    BY <1>t, <2>1, <2>2, <2>6, GoodWriteKeepsInv
<1>4. ASSUME NEW S \in SUBSET Orders, NEW T \in SUBSET S, NEW stamp \in Stamps,
             ReconcileSnapshot(p, S, T, stamp)
      PROVE  IndInv'
  <2> DEFINE rows == [o \in Orders |-> IF o \in S THEN Observed(db.rows[o], o \in T, stamp)
                                       ELSE db.rows[o]]
             i == [db EXCEPT !.rows = rows]
  <2>1. WriteAndCommit(p, i)
    BY <1>4 DEF ReconcileSnapshot
  <2>2. i \in Image
    BY <1>t, <2>1 DEF WriteAndCommit, TypeOK
  <2>3. i.processed = db.processed /\ i.mark = db.mark /\ i.rows = rows
    BY <1>0 DEF Image
  <2>4. \A x \in Orders : /\ Observed(db.rows[x], x \in T, stamp).status = "broker_pending_observed"
                          /\ Observed(db.rows[x], x \in T, stamp).dry
                          /\ Observed(db.rows[x], x \in T, stamp).attempts = db.rows[x].attempts
    BY <1>d DEF Observed, Row
  <2>5. GoodWrite(i)
    <3>1. \A x \in Orders : rows[x] = IF x \in S THEN Observed(db.rows[x], x \in T, stamp)
                                      ELSE db.rows[x]
      OBVIOUS
    <3> HIDE DEF i, rows
    <3> QED
      BY <1>d, <2>3, <2>4, <3>1 DEF GoodWrite
  <2> QED
    BY <1>t, <2>1, <2>2, <2>5, GoodWriteKeepsInv
<1>5. ASSUME NEW kind \in {"dispatch", "db_worker"}, NEW force \in BOOLEAN,
             NEW n \in 1..MaxBatch,
             NEW chosen \in Batches(kind, db.rows, n), Select(p, kind, force, chosen)
      PROVE  IndInv'
  <2>1. /\ pc[p] = "idle"
        /\ pc' = [pc EXCEPT ![p] = "run"]
        /\ batch' = [batch EXCEPT ![p] = chosen]
        /\ todo' = [todo EXCEPT ![p] = chosen]
        /\ UNCHANGED <<db, txn, lock, doing, ledger, seen, mirrored>>
    BY <1>5 DEF Select
  <2>2. chosen \subseteq Orders /\ \A o \in chosen : db.rows[o].status = "queued"
    BY <1>d DEF Batches, Eligible, Row, Statuses
  <2>3. batch[p] = {} /\ lock # p
    <3>1. lock # p
      BY <2>1, NobodyIsNone DEF IndInv, LockDiscipline
    <3> QED
      BY <2>1, <3>1 DEF IndInv, LockDiscipline
  <2>4. \A q \in Procs : q # p => batch'[q] = batch[q] /\ todo'[q] = todo[q]
                                  /\ pc'[q] = pc[q]
    BY <2>1 DEF IndInv, TypeOK
  <2>5. batch'[p] = chosen /\ todo'[p] = chosen /\ pc'[p] = "run" /\ doing[p] = Nobody
    BY <2>1, <2>3 DEF IndInv, TypeOK, LockDiscipline
  <2>6. LockDiscipline'
    <3>1. lock' # Nobody => pc'[lock'] = "run"
      BY <2>1, <2>3, <2>4 DEF IndInv, LockDiscipline, TypeOK
    <3>2. \A q \in Procs :
            /\ pc'[q] # "run" => batch'[q] = {}
            /\ todo'[q] \subseteq batch'[q]
            /\ lock # q => todo'[q] = batch'[q] /\ doing[q] = Nobody
            /\ doing[q] # Nobody => doing[q] \in todo'[q]
      BY <2>4, <2>5 DEF IndInv, LockDiscipline
    <3> QED
      BY <2>1, <3>1, <3>2 DEF IndInv, LockDiscipline
  <2>7. TxnExtendsDb'
    <3> SUFFICES ASSUME NEW q \in Procs, lock = q
                 PROVE  /\ txn.mark = db.mark
                        /\ \A o \in Orders :
                             /\ txn.rows[o] = TxnRow(o, q)'
                             /\ txn.processed[o] = db.processed[o] +
                                  (IF o \in batch'[q] \ todo'[q] THEN 1 ELSE 0)
      BY <2>1 DEF TxnExtendsDb
    <3>1. batch'[q] = batch[q] /\ todo'[q] = todo[q]
      BY <2>3, <2>4
    <3>2. \A o \in Orders : TxnRow(o, q)' = TxnRow(o, q)
      BY <2>1, <3>1 DEF TxnRow
    <3> QED
      BY <3>1, <3>2 DEF IndInv, TxnExtendsDb
  <2>8. RowsSound'
    <3>1. \A o \in Orders, q \in Procs : o \in batch'[q] => db.rows[o].status # "absent"
      BY <2>2, <2>4, <2>5 DEF IndInv, RowsSound
    <3> QED
      BY <2>1, <3>1 DEF IndInv, RowsSound
  <2>9. AttemptBudget'
    <3> SUFFICES ASSUME NEW o \in Orders
                 PROVE  db.rows[o].attempts + Cardinality(Holders(o)') <= Cardinality(Procs)
      BY <2>1 DEF AttemptBudget
    <3>1. CASE o \in chosen
      <4>1. db.rows[o].attempts = 0
        BY <1>d, <2>2, <3>1
      <4>2. Holders(o)' \subseteq Procs
        BY DEF Holders
      <4>3. Cardinality(Holders(o)') \in Nat /\ Cardinality(Holders(o)') <= Cardinality(Procs)
        BY <4>2, SetsFinite, FS_Subset, FS_CardinalityType
      <4> QED
        BY <4>1, <4>3
    <3>2. CASE o \notin chosen
      <4>1. Holders(o)' = Holders(o)
        BY <2>3, <2>4, <2>5, <3>2 DEF Holders
      <4> QED
        BY <4>1 DEF IndInv, AttemptBudget
    <3> QED
      BY <3>1, <3>2
  <2>10. NoStrandedOrder' /\ AttemptsMatchAudit' /\ SimulatedHasNoTicket' /\ LedgerAhead'
    BY <2>1 DEF IndInv, NoStrandedOrder, AttemptsMatchAudit, SimulatedHasNoTicket, LedgerAhead
  <2> QED
    BY <1>t, <2>6, <2>7, <2>8, <2>9, <2>10 DEF IndInv
<1> QED
  BY <1>2, <1>3, <1>4, <1>5 DEF Command
-----------------------------------------------------------------------------
(* Steps of a batch run.                                                   *)

LEMMA MarkKeepsInv ==
    ASSUME IndInv, NEW p \in Procs, NEW o \in Orders, MarkProcessing(p, o), TypeOK'
    PROVE  IndInv'
<1>1. /\ pc[p] = "run" /\ doing[p] = Nobody /\ o \in todo[p]
      /\ lock \in {Nobody, p} /\ lock' = p
      /\ doing' = [doing EXCEPT ![p] = o]
      /\ txn' = [txn EXCEPT !.rows[o] = Bumped(txn.rows[o])]
      /\ UNCHANGED <<db, pc, task, batch, todo, ledger, seen, mirrored>>
  BY DEF MarkProcessing
<1>2. /\ txn'.mark = txn.mark /\ txn'.processed = txn.processed
      /\ txn'.rows = [txn.rows EXCEPT ![o] = Bumped(txn.rows[o])]
  BY <1>1 DEF IndInv, TypeOK, Image
<1>3. \A x \in Orders : txn'.rows[x] = IF x = o THEN Bumped(txn.rows[o]) ELSE txn.rows[x]
  BY <1>2 DEF IndInv, TypeOK, Image
<1>4. doing'[p] = o /\ \A q \in Procs : q # p => doing'[q] = doing[q]
  BY <1>1 DEF IndInv, TypeOK
<1>5. o # Nobody /\ p # Nobody
  BY NobodyIsNone
<1>6. /\ txn.mark = db.mark
      /\ \A x \in Orders :
            /\ txn.rows[x] = IF x \in batch[p] \ todo[p]
                             THEN Finished(Bumped(db.rows[x]), "dry_run_accepted")
                             ELSE db.rows[x]
            /\ txn.processed[x] = db.processed[x] +
                  (IF x \in batch[p] \ todo[p] THEN 1 ELSE 0)
  <2>1. CASE lock = p
    BY <1>1, <2>1, NobodyIsNone DEF IndInv, TxnExtendsDb, TxnRow
  <2>2. CASE lock = Nobody
    <3>1. txn = db /\ todo[p] = batch[p]
      BY <1>5, <2>2 DEF IndInv, LockDiscipline
    <3>2. \A x \in Orders : db.processed[x] \in Nat
      BY DEF IndInv, TypeOK, Image
    <3> QED
      BY <3>1, <3>2
  <2> QED
    BY <1>1, <2>1, <2>2
<1>7. LockDiscipline'
  <2>1. lock' # Nobody /\ pc'[lock'] = "run"
    BY <1>1, <1>5
  <2>2. \A q \in Procs : q # p =>
          /\ pc'[q] # "run" => batch'[q] = {}
          /\ todo'[q] = batch'[q]
          /\ doing'[q] = Nobody
    BY <1>1, <1>4, NobodyIsNone DEF IndInv, LockDiscipline
  <2>3. pc'[p] = "run" /\ todo'[p] \subseteq batch'[p] /\ doing'[p] \in todo'[p]
    BY <1>1, <1>4 DEF IndInv, LockDiscipline
  <2> QED
    BY <1>1, <2>1, <2>2, <2>3 DEF LockDiscipline
<1>8. TxnExtendsDb'
  <2> SUFFICES ASSUME NEW x \in Orders
               PROVE  /\ txn'.rows[x] = TxnRow(x, p)'
                      /\ txn'.processed[x] = db.processed[x] +
                           (IF x \in batch[p] \ todo[p] THEN 1 ELSE 0)
    BY <1>1, <1>2, <1>6 DEF TxnExtendsDb
  <2>1. CASE x = o
    BY <1>1, <1>2, <1>3, <1>4, <1>6, <2>1 DEF TxnRow
  <2>2. CASE x # o
    BY <1>1, <1>2, <1>3, <1>4, <1>6, <2>2 DEF TxnRow
  <2> QED
    BY <2>1, <2>2
<1>9. RowsSound' /\ NoStrandedOrder' /\ AttemptsMatchAudit' /\ SimulatedHasNoTicket'
  BY <1>1 DEF IndInv, RowsSound, NoStrandedOrder, AttemptsMatchAudit, SimulatedHasNoTicket
<1>10. AttemptBudget'
  BY <1>1 DEF IndInv, AttemptBudget, Holders
<1>11. LedgerAhead'
  BY <1>1, <1>2 DEF IndInv, LedgerAhead
<1> QED
  BY <1>7, <1>8, <1>9, <1>10, <1>11 DEF IndInv

LEMMA ExecuteKeepsInv ==
    ASSUME IndInv, NEW p \in Procs, ExecuteOrder(p), TypeOK'
    PROVE  IndInv'
<1> DEFINE o == doing[p]
           decision == ExecuteEndpoint(DryRun(task[p], txn.rows[o]))
           row == Finished(txn.rows[o], FinalStatus(task[p].kind, decision))
<1>1. /\ o # Nobody
      /\ ledger' = [ledger EXCEPT ![o] = @ + LedgerRows(decision)]
      /\ txn' = [txn EXCEPT !.rows = [txn.rows EXCEPT ![o] = row],
                            !.processed = [txn.processed EXCEPT ![o] = @ + 1]]
      /\ todo' = [todo EXCEPT ![p] = @ \ {o}]
      /\ doing' = [doing EXCEPT ![p] = Nobody]
      /\ UNCHANGED <<db, lock, pc, task, batch, seen, mirrored>>
  BY DEF ExecuteOrder
<1>2. o \in Orders /\ o \in todo[p] /\ todo[p] \subseteq batch[p] /\ lock = p
  BY <1>1 DEF IndInv, LockDiscipline, TypeOK
<1>3. txn.rows[o] = Bumped(db.rows[o]) /\ txn.rows[o] \in Row /\ db.rows[o] \in Row
  BY <1>2 DEF IndInv, TxnExtendsDb, TxnRow, TypeOK, Image
<1>4. txn.rows[o].dry
  BY <1>2, <1>3 DEF IndInv, RowsSound, Bumped, Row
<1>5. decision = "DRY_RUN_ACCEPTED"
  BY <1>4 DEF ExecuteEndpoint, DryRun
<1>6. row = Finished(Bumped(db.rows[o]), "dry_run_accepted")
  BY <1>3, <1>5 DEF FinalStatus
<1> HIDE DEF decision, row
<1>7. /\ txn'.rows = [txn.rows EXCEPT ![o] = row]
      /\ txn'.processed = [txn.processed EXCEPT ![o] = @ + 1]
      /\ txn'.mark = txn.mark
  BY <1>1 DEF IndInv, TypeOK, Image
<1>8. \A x \in Orders :
        /\ txn'.rows[x] = IF x = o THEN row ELSE txn.rows[x]
        /\ txn'.processed[x] = IF x = o THEN txn.processed[x] + 1 ELSE txn.processed[x]
        /\ ledger'[x] = IF x = o THEN ledger[x] + 1 ELSE ledger[x]
  BY <1>1, <1>2, <1>5, <1>7 DEF IndInv, TypeOK, Image, LedgerRows
<1>9. /\ todo'[p] = todo[p] \ {o} /\ doing'[p] = Nobody
      /\ \A q \in Procs : q # p => todo'[q] = todo[q] /\ doing'[q] = doing[q]
  BY <1>1 DEF IndInv, TypeOK
<1> HIDE DEF o
<1>10. LockDiscipline'
  BY <1>1, <1>2, <1>9, NobodyIsNone DEF IndInv, LockDiscipline
<1>11. TxnExtendsDb'
  <2> SUFFICES ASSUME NEW x \in Orders
               PROVE  /\ txn'.rows[x] = TxnRow(x, p)'
                      /\ txn'.processed[x] = db.processed[x] +
                           (IF x \in batch[p] \ todo'[p] THEN 1 ELSE 0)
    BY <1>1, <1>2, <1>7 DEF IndInv, TxnExtendsDb
  <2>0. /\ txn.rows[x] = TxnRow(x, p)
        /\ txn.processed[x] = db.processed[x] + (IF x \in batch[p] \ todo[p] THEN 1 ELSE 0)
        /\ db.processed[x] \in Nat
        /\ x # Nobody
    BY <1>2, NobodyIsNone DEF IndInv, TxnExtendsDb, TypeOK, Image
  <2>1. CASE x = o
    BY <1>1, <1>2, <1>6, <1>8, <1>9, <2>0, <2>1 DEF TxnRow
  <2>2. CASE x # o
    <3>1. doing[p] # x
      BY <2>2 DEF o
    <3> QED
      BY <1>1, <1>2, <1>8, <1>9, <2>0, <2>2, <3>1 DEF TxnRow
  <2> QED
    BY <2>1, <2>2
<1>12. RowsSound' /\ NoStrandedOrder' /\ AttemptsMatchAudit' /\ SimulatedHasNoTicket'
  BY <1>1 DEF IndInv, RowsSound, NoStrandedOrder, AttemptsMatchAudit, SimulatedHasNoTicket
<1>13. AttemptBudget'
  BY <1>1 DEF IndInv, AttemptBudget, Holders
<1>14. LedgerAhead'
  <2> SUFFICES ASSUME NEW x \in Orders
               PROVE  /\ txn'.processed[x] <= ledger'[x]
                      /\ mirrored[x] <= ledger'[x]
                      /\ \A q \in Procs : seen[q][x] <= ledger'[x]
    BY <1>1 DEF LedgerAhead
  <2>1. /\ txn.processed[x] \in Nat /\ ledger[x] \in Nat /\ mirrored[x] \in Nat
        /\ \A q \in Procs : seen[q][x] \in Nat
    BY DEF IndInv, TypeOK, Image
  <2>2. /\ txn.processed[x] <= ledger[x] /\ mirrored[x] <= ledger[x]
        /\ \A q \in Procs : seen[q][x] <= ledger[x]
    BY DEF IndInv, LedgerAhead
  <2> QED
    BY <1>8, <2>1, <2>2
<1> QED
  BY <1>10, <1>11, <1>12, <1>13, <1>14 DEF IndInv

LEMMA CommitKeepsInv ==
    ASSUME IndInv, NEW p \in Procs, CommitBatch(p), TypeOK'
    PROVE  IndInv'
<1>1. /\ pc[p] = "run" /\ todo[p] = {}
      /\ IF lock = p THEN db' = txn /\ lock' = Nobody ELSE UNCHANGED <<db, lock>>
      /\ pc' = [pc EXCEPT ![p] = "sync"]
      /\ batch' = [batch EXCEPT ![p] = {}]
      /\ UNCHANGED <<txn, todo, doing, ledger, seen, mirrored>>
  BY DEF CommitBatch
<1>2. /\ batch'[p] = {} /\ pc'[p] = "sync"
      /\ \A q \in Procs : q # p => batch'[q] = batch[q] /\ pc'[q] = pc[q]
  BY <1>1 DEF IndInv, TypeOK
<1>3. \A q \in Procs : doing[q] # Nobody => q = lock /\ q # p
  BY <1>1 DEF IndInv, LockDiscipline
<1>4. LockDiscipline'
  BY <1>1, <1>2, <1>3, NobodyIsNone DEF IndInv, LockDiscipline
<1>5. CASE lock = p
  <2>0. db' = txn /\ lock' = Nobody /\ txn' = txn /\ doing[p] = Nobody
    BY <1>1, <1>3, <1>5
  <2>1. \A o \in Orders :
          /\ txn.rows[o] = IF o \in batch[p]
                           THEN Finished(Bumped(db.rows[o]), "dry_run_accepted")
                           ELSE db.rows[o]
          /\ txn.processed[o] = db.processed[o] + (IF o \in batch[p] THEN 1 ELSE 0)
          /\ txn.mark[o] = db.mark[o]
          /\ db.rows[o] \in Row /\ db.processed[o] \in Nat /\ db.mark[o] \in Nat
    <3> TAKE o \in Orders
    <3>1. o # Nobody /\ batch[p] \ todo[p] = batch[p]
      BY <1>1, NobodyIsNone
    <3>2. txn.rows[o] = TxnRow(o, p) /\ txn.mark = db.mark
          /\ txn.processed[o] = db.processed[o] + (IF o \in batch[p] \ todo[p] THEN 1 ELSE 0)
      BY <1>5 DEF IndInv, TxnExtendsDb
    <3>3. db.rows[o] \in Row /\ db.processed[o] \in Nat /\ db.mark[o] \in Nat
      BY DEF IndInv, TypeOK, Image
    <3> QED
      BY <2>0, <3>1, <3>2, <3>3 DEF TxnRow
  <2>2. \A o \in Orders : o \in batch[p] =>
          /\ txn.rows[o].status = "dry_run_accepted" /\ ~txn.rows[o].ticket
          /\ txn.rows[o].attempts = db.rows[o].attempts + 1
          /\ txn.rows[o].dry = db.rows[o].dry
    BY <2>1 DEF Finished, Bumped, Row
  <2>3. TxnExtendsDb'
    BY <2>0, NobodyIsNone DEF TxnExtendsDb
  <2>4. RowsSound'
    <3> SUFFICES ASSUME NEW o \in Orders
                 PROVE  /\ txn.rows[o].dry
                        /\ txn.rows[o].status \in {"absent", "queued"} => txn.rows[o].attempts = 0
                        /\ \A q \in Procs : o \in batch'[q] => txn.rows[o].status # "absent"
      BY <2>0 DEF RowsSound
    <3>1. CASE o \in batch[p]
      BY <2>1, <2>2, <3>1 DEF IndInv, RowsSound
    <3>2. CASE o \notin batch[p]
      BY <1>2, <2>1, <3>2 DEF IndInv, RowsSound
    <3> QED
      BY <3>1, <3>2
  <2>5. NoStrandedOrder'
    BY <2>0, <2>1, <2>2 DEF IndInv, NoStrandedOrder
  <2>6. SimulatedHasNoTicket'
    BY <2>0, <2>1, <2>2 DEF IndInv, SimulatedHasNoTicket
  <2>7. AttemptsMatchAudit'
    <3> SUFFICES ASSUME NEW o \in Orders
                 PROVE  txn.rows[o].attempts = txn.processed[o] - txn.mark[o]
      BY <2>0 DEF AttemptsMatchAudit
    <3>1. db.rows[o].attempts = db.processed[o] - db.mark[o]
      BY DEF IndInv, AttemptsMatchAudit
    <3>2. db.rows[o].attempts \in Nat
      BY <2>1 DEF Row
    <3> QED
      BY <2>1, <2>2, <3>1, <3>2
  <2>8. AttemptBudget'
    <3> SUFFICES ASSUME NEW o \in Orders
                 PROVE  txn.rows[o].attempts + Cardinality(Holders(o)') <= Cardinality(Procs)
      BY <2>0 DEF AttemptBudget
    <3>0. db.rows[o].attempts \in Nat
          /\ db.rows[o].attempts + Cardinality(Holders(o)) <= Cardinality(Procs)
      BY <2>1 DEF IndInv, AttemptBudget, Row
    <3>1. CASE o \in batch[p]
      <4>1. p \in Holders(o) /\ Holders(o)' = Holders(o) \ {p}
        BY <1>2, <3>1 DEF Holders
      <4>2. Cardinality(Holders(o)') = Cardinality(Holders(o)) - 1
        BY <4>1, HoldersLose
      <4> QED
        BY <2>2, <3>0, <3>1, <4>2, HoldersBound
    <3>2. CASE o \notin batch[p]
      <4>1. Holders(o)' = Holders(o)
        BY <1>2, <3>2 DEF Holders
      <4> QED
        BY <2>1, <3>0, <3>2, <4>1
    <3> QED
      BY <3>1, <3>2
  <2>9. LedgerAhead'
    BY <1>1 DEF IndInv, LedgerAhead
  <2> QED
    BY <1>4, <2>3, <2>4, <2>5, <2>6, <2>7, <2>8, <2>9 DEF IndInv
<1>6. CASE lock # p
  <2>0. UNCHANGED <<db, lock, txn>> /\ batch[p] = {}
    BY <1>1, <1>6 DEF IndInv, LockDiscipline
  <2>1. batch' = batch
    BY <1>1, <2>0 DEF IndInv, TypeOK
  <2>2. TxnExtendsDb'
    BY <1>1, <2>0, <2>1 DEF IndInv, TxnExtendsDb, TxnRow
  <2>3. RowsSound' /\ NoStrandedOrder' /\ AttemptsMatchAudit' /\ SimulatedHasNoTicket'
    BY <2>0, <2>1 DEF IndInv, RowsSound, NoStrandedOrder, AttemptsMatchAudit,
                      SimulatedHasNoTicket
  <2>4. AttemptBudget' /\ LedgerAhead'
    BY <1>1, <2>0, <2>1 DEF IndInv, AttemptBudget, Holders, LedgerAhead
  <2> QED
    BY <1>4, <2>2, <2>3, <2>4 DEF IndInv
<1> QED
  BY <1>5, <1>6
-----------------------------------------------------------------------------
(* The mirror of the ledger, and early ends.                               *)

LEMMA SyncKeepsInv ==
    ASSUME IndInv, NEW p \in Procs, SyncRead(p) \/ SyncCommit(p) \/ SkipSync(p), TypeOK'
    PROVE  IndInv'
<1>1. /\ UNCHANGED <<db, txn, lock, batch, todo, doing, ledger>>
      /\ pc[p] # "run" /\ pc'[p] # "run" /\ \A q \in Procs : q # p => pc'[q] = pc[q]
  BY DEF SyncRead, SyncCommit, SkipSync, IndInv, TypeOK
<1>2. LockDiscipline'
  BY <1>1 DEF IndInv, LockDiscipline, TypeOK
<1>3. TxnExtendsDb'
  BY <1>1 DEF IndInv, TxnExtendsDb, TxnRow
<1>4. /\ RowsSound' /\ NoStrandedOrder' /\ AttemptsMatchAudit'
      /\ SimulatedHasNoTicket' /\ AttemptBudget'
  BY <1>1 DEF IndInv, RowsSound, NoStrandedOrder, AttemptsMatchAudit,
              SimulatedHasNoTicket, AttemptBudget, Holders
<1>5. LedgerAhead'
  <2>1. \A o \in Orders : /\ txn.processed[o] <= ledger[o] /\ mirrored[o] <= ledger[o]
                          /\ ledger[o] \in Nat
                          /\ \A q \in Procs : seen[q][o] <= ledger[o]
    BY DEF IndInv, LedgerAhead, TypeOK
  <2>2. CASE SyncRead(p)
    <3>1. mirrored' = mirrored /\ \A q \in Procs : seen'[q] = IF q = p THEN ledger ELSE seen[q]
      BY <2>2 DEF SyncRead, IndInv, TypeOK
    <3> QED
      BY <1>1, <2>1, <3>1 DEF LedgerAhead
  <2>3. CASE SyncCommit(p)
    <3>1. \A q \in Procs : seen'[q] = IF q = p THEN [o \in Orders |-> 0] ELSE seen[q]
      BY <2>3 DEF SyncCommit, IndInv, TypeOK
    <3>2. \A o \in Orders : mirrored'[o] = IF seen[p][o] > mirrored[o] THEN seen[p][o]
                                           ELSE mirrored[o]
      BY <2>3 DEF SyncCommit
    <3> QED
      BY <1>1, <2>1, <3>1, <3>2 DEF LedgerAhead
  <2>4. CASE SkipSync(p)
    BY <1>1, <2>1, <2>4 DEF SkipSync, LedgerAhead
  <2> QED
    BY <2>2, <2>3, <2>4
<1> QED
  BY <1>2, <1>3, <1>4, <1>5 DEF IndInv

LEMMA AbortKeepsInv ==
    ASSUME IndInv, NEW p \in Procs, Abort(p), TypeOK'
    PROVE  IndInv'
<1>1. /\ IF lock = p THEN txn' = db /\ lock' = Nobody ELSE UNCHANGED <<txn, lock>>
      /\ UNCHANGED <<db, ledger, mirrored>>
  BY DEF Abort
<1>2. /\ batch'[p] = {} /\ todo'[p] = {} /\ doing'[p] = Nobody /\ pc'[p] = "idle"
      /\ seen'[p] = [o \in Orders |-> 0]
      /\ \A q \in Procs : q # p =>
            /\ batch'[q] = batch[q] /\ todo'[q] = todo[q] /\ doing'[q] = doing[q]
            /\ pc'[q] = pc[q] /\ seen'[q] = seen[q]
  BY DEF Abort, IndInv, TypeOK
<1>3. lock' # p /\ (lock' # Nobody => lock' = lock /\ txn' = txn)
  BY <1>1, NobodyIsNone
<1>4. LockDiscipline'
  <2>1. lock' = Nobody => txn' = db'
    BY <1>1, NobodyIsNone DEF IndInv, LockDiscipline
  <2>2. lock' # Nobody => pc'[lock'] = "run"
    BY <1>2, <1>3 DEF IndInv, LockDiscipline, TypeOK
  <2>3. \A q \in Procs : q # p =>
          /\ pc'[q] # "run" => batch'[q] = {}
          /\ todo'[q] \subseteq batch'[q]
          /\ lock # q => todo'[q] = batch'[q] /\ doing'[q] = Nobody
          /\ doing'[q] # Nobody => doing'[q] \in todo'[q]
    BY <1>2 DEF IndInv, LockDiscipline
  <2>4. \A q \in Procs : q # p => (lock' # q => lock # q)
    BY <1>1
  <2> QED
    BY <1>2, <2>1, <2>2, <2>3, <2>4 DEF LockDiscipline
<1>5. TxnExtendsDb'
  <2> SUFFICES ASSUME NEW q \in Procs, lock' = q
               PROVE  /\ txn'.mark = db.mark
                      /\ \A o \in Orders :
                            /\ txn'.rows[o] = TxnRow(o, q)'
                            /\ txn'.processed[o] = db.processed[o] +
                                  (IF o \in batch'[q] \ todo'[q] THEN 1 ELSE 0)
    BY <1>1 DEF TxnExtendsDb
  <2>1. q # p /\ lock = q /\ txn' = txn
    BY <1>3, NobodyIsNone
  <2>2. \A o \in Orders : TxnRow(o, q)' = TxnRow(o, q)
    BY <1>1, <1>2, <2>1 DEF TxnRow
  <2> QED
    BY <1>2, <2>1, <2>2 DEF IndInv, TxnExtendsDb
<1>6. RowsSound' /\ NoStrandedOrder' /\ AttemptsMatchAudit' /\ SimulatedHasNoTicket'
  BY <1>1, <1>2 DEF IndInv, RowsSound, NoStrandedOrder, AttemptsMatchAudit,
                    SimulatedHasNoTicket
<1>7. AttemptBudget'
  <2> SUFFICES ASSUME NEW o \in Orders
               PROVE  db.rows[o].attempts + Cardinality(Holders(o)') <= Cardinality(Procs)
    BY <1>1 DEF AttemptBudget
  <2>1. Holders(o)' \subseteq Holders(o)
    BY <1>2 DEF Holders
  <2>2. db.rows[o].attempts \in Nat
        /\ db.rows[o].attempts + Cardinality(Holders(o)) <= Cardinality(Procs)
    BY DEF IndInv, AttemptBudget, TypeOK, Image, Row
  <2> QED
    BY <2>1, <2>2, HoldersShrink, HoldersBound
<1>8. LedgerAhead'
  <2>1. \A o \in Orders : txn'.processed[o] <= ledger[o]
    <3>1. CASE lock # p
      BY <1>1, <3>1 DEF IndInv, LedgerAhead
    <3>2. CASE lock = p
      <4> TAKE o \in Orders
      <4>2. db.processed[o] \in Nat /\ txn.processed[o] \in Nat /\ ledger[o] \in Nat
        BY DEF IndInv, TypeOK, Image
      <4>3. txn.processed[o] \in {db.processed[o], db.processed[o] + 1}
        <5>1. txn.processed[o] = db.processed[o] +
                (IF o \in batch[p] \ todo[p] THEN 1 ELSE 0)
          BY <3>2 DEF IndInv, TxnExtendsDb
        <5> QED
          BY <5>1, <4>2
      <4>4. txn.processed[o] <= ledger[o]
        BY DEF IndInv, LedgerAhead
      <4>1. txn.processed[o] <= ledger[o] /\ db.processed[o] <= txn.processed[o]
        BY <4>2, <4>3, <4>4
      <4> QED
        BY <1>1, <3>2, <4>1, <4>2
    <3> QED
      BY <3>1, <3>2
  <2>2. \A o \in Orders : ledger[o] \in Nat
    BY DEF IndInv, TypeOK
  <2> QED
    BY <1>1, <1>2, <2>1, <2>2 DEF IndInv, LedgerAhead
<1> QED
  BY <1>4, <1>5, <1>6, <1>7, <1>8 DEF IndInv
-----------------------------------------------------------------------------
(* The invariant holds initially and is kept by every step.                *)

LEMMA InitInv == Init => IndInv
<1> SUFFICES ASSUME Init PROVE IndInv
  OBVIOUS
<1>1. [rows |-> [o \in Orders |-> AbsentRow], processed |-> [o \in Orders |-> 0],
       mark |-> [o \in Orders |-> 0]] \in Image
  BY AbsentRowType DEF Image
<1>2. TypeOK
  BY <1>1 DEF Init, TypeOK, NoTask
<1>3. \A o \in Orders : db.rows[o] = AbsentRow /\ db.processed[o] = 0 /\ db.mark[o] = 0
  BY DEF Init
<1>4. LockDiscipline /\ TxnExtendsDb
  BY NobodyIsNone DEF Init, LockDiscipline, TxnExtendsDb
<1>5. RowsSound /\ NoStrandedOrder /\ AttemptsMatchAudit /\ SimulatedHasNoTicket
  BY <1>3 DEF Init, RowsSound, NoStrandedOrder, AttemptsMatchAudit,
              SimulatedHasNoTicket, AbsentRow
<1>6. AttemptBudget
  BY <1>3, HoldersBound DEF AttemptBudget, AbsentRow
<1>7. LedgerAhead
  BY DEF Init, LedgerAhead
<1> QED
  BY <1>2, <1>4, <1>5, <1>6, <1>7 DEF IndInv

LEMMA NextKeepsInv == IndInv /\ [Next]_vars => IndInv'
<1> SUFFICES ASSUME IndInv, [Next]_vars PROVE IndInv'
  OBVIOUS
<1>1. CASE UNCHANGED vars
  <2> USE <1>1 DEF vars, IndInv
  <2>1. TypeOK'
    BY DEF TypeOK
  <2>2. LockDiscipline'
    BY DEF LockDiscipline
  <2>3. TxnExtendsDb'
    <3>1. \A o \in Orders, p \in Procs : TxnRow(o, p)' = TxnRow(o, p)
      BY DEF TxnRow
    <3> QED
      BY <3>1 DEF TxnExtendsDb
  <2>4. RowsSound' /\ NoStrandedOrder' /\ AttemptsMatchAudit' /\ SimulatedHasNoTicket'
    BY DEF RowsSound, NoStrandedOrder, AttemptsMatchAudit, SimulatedHasNoTicket
  <2>5. AttemptBudget'
    BY DEF AttemptBudget, Holders
  <2>6. LedgerAhead'
    BY DEF LedgerAhead
  <2> QED
    BY <2>1, <2>2, <2>3, <2>4, <2>5, <2>6
<1>2. ASSUME NEW p \in Procs, Command(p) PROVE IndInv'
  BY <1>2, CommandKeepsInv
<1>3. ASSUME NEW p \in Procs, Step(p) \/ Abort(p) PROVE IndInv'
  <2>1. TypeOK'
    BY <1>3, StepType DEF IndInv
  <2> QED
    BY <1>3, <2>1, MarkKeepsInv, ExecuteKeepsInv, CommitKeepsInv, SyncKeepsInv,
       AbortKeepsInv DEF Step, LockTimeout
<1> QED
  BY <1>1, <1>2, <1>3 DEF Next

(* The write lock, the open transaction, the committed rows, the attempt   *)
(* counters and the ledger stay in the relation IndInv describes.          *)
THEOREM Invariant == Spec => []IndInv
  BY InitInv, NextKeepsInv, PTL DEF Spec

(* No committed row is left in 'processing', blocked or failed, however    *)
(* many processes run and wherever they are aborted.                       *)
THEOREM NothingStranded == Spec => []NoStrandedOrder
<1>1. IndInv => NoStrandedOrder
  BY DEF IndInv
<1> QED
  BY <1>1, Invariant, PTL

(* attempts is exactly the number of processing events in the audit trail  *)
(* since the last requeue: concurrent batch runs lose no update.           *)
THEOREM NoLostAttempt == Spec => []AttemptsMatchAudit
<1>1. IndInv => AttemptsMatchAudit
  BY DEF IndInv
<1> QED
  BY <1>1, Invariant, PTL

(* An order is processed, between two requeues, at most once per process   *)
(* that can run concurrently.                                              *)
THEOREM BoundedReprocessing == Spec => []AttemptsBounded
<1>1. IndInv => AttemptsBounded
  <2> SUFFICES ASSUME IndInv, NEW o \in Orders
               PROVE  db.rows[o].attempts <= Cardinality(Procs)
    BY DEF AttemptsBounded
  <2>1. db.rows[o].attempts \in Nat
        /\ db.rows[o].attempts + Cardinality(Holders(o)) <= Cardinality(Procs)
    BY DEF IndInv, AttemptBudget, TypeOK, Image, Row
  <2> QED
    BY <2>1, HoldersBound
<1> QED
  BY <1>1, Invariant, PTL

(* Every committed processing event has its own row in the trading ledger, *)
(* and audit_events mirrors only rows the file has.                        *)
THEOREM EvidencePrecedesCommit == Spec => []EvidenceChain
<1>1. IndInv => EvidenceChain
  <2> SUFFICES ASSUME IndInv, NEW o \in Orders
               PROVE  db.processed[o] <= ledger[o] /\ mirrored[o] <= ledger[o]
    BY DEF EvidenceChain
  <2>1. txn.processed[o] <= ledger[o] /\ mirrored[o] <= ledger[o]
    BY DEF IndInv, LedgerAhead
  <2>2. db.processed[o] \in Nat /\ txn.processed[o] \in Nat /\ ledger[o] \in Nat
    BY DEF IndInv, TypeOK, Image
  <2>3. db.processed[o] <= txn.processed[o]
    <3>1. CASE lock = Nobody
      BY <2>2, <3>1 DEF IndInv, LockDiscipline
    <3>2. CASE lock \in Procs
      BY <2>2, <3>2 DEF IndInv, TxnExtendsDb
    <3> QED
      BY <3>1, <3>2 DEF IndInv, TypeOK
  <2> QED
    BY <2>1, <2>2, <2>3
<1> QED
  BY <1>1, Invariant, PTL

(* A simulated acceptance never carries a broker ticket.                   *)
THEOREM NoTicketFromSimulation == Spec => []SimulatedHasNoTicket
<1>1. IndInv => SimulatedHasNoTicket
  BY DEF IndInv
<1> QED
  BY <1>1, Invariant, PTL
-----------------------------------------------------------------------------
(* What a step does to the committed table.                                *)

Same(S) == \A x \in Orders \ S : db'.rows[x] = db.rows[x]

Becomes(S, s) ==
    \A x \in S : db'.rows[x].status = s /\ db'.rows[x].attempts = db.rows[x].attempts

Enqueues(o) == db.rows[o].status = "absent" /\ Same({o}) /\ Becomes({o}, "queued")

Requeues(o) ==
    /\ db.rows[o].status # "absent"
    /\ Same({o})
    /\ db'.rows[o].status = "queued" /\ db'.rows[o].attempts = 0

Closes(o, s) == db.rows[o].status # "absent" /\ Same({o}) /\ Becomes({o}, s)

Observes(S) == Same(S) /\ Becomes(S, "broker_pending_observed")

Accepts(S) ==
    /\ Same(S)
    /\ \A x \in S : /\ db.rows[x].status # "absent"
                    /\ db'.rows[x].status = "dry_run_accepted"
                    /\ db'.rows[x].attempts = db.rows[x].attempts + 1

LEMMA CommandEffect ==
    ASSUME IndInv, NEW p \in Procs, Command(p)
    PROVE  \/ db' = db
           \/ \E o \in Orders : \/ Enqueues(o) \/ Requeues(o)
                                \/ Closes(o, "canceled") \/ Closes(o, "archived")
           \/ \E S \in SUBSET Orders : Observes(S)
<1>0. /\ db \in Image /\ db.rows \in [Orders -> Row]
      /\ \A o \in Orders : db.rows[o] \in Row
      /\ \A o \in Orders : db.rows[o].status = "absent" => db.rows[o].attempts = 0
  BY ImageParts DEF IndInv, TypeOK, RowsSound
<1>1. ASSUME NEW o \in Orders, NEW prio \in Priorities, NEW max \in 1..MaxAttempts,
             NEW stamp \in Stamps, EnqueueOrder(p, o, prio, max, stamp)
      PROVE  Enqueues(o)
  <2> DEFINE row == [status |-> "queued", attempts |-> 0, max |-> max,
                     prio |-> prio, created |-> stamp,
                     ticket |-> FALSE, dry |-> TRUE]
  <2>1. db' = [db EXCEPT !.rows[o] = row] /\ db.rows[o].status = "absent"
    BY <1>1 DEF EnqueueOrder, WriteAndCommit
  <2>2. db'.rows = [db.rows EXCEPT ![o] = row]
    BY <1>0, <2>1 DEF Image
  <2>3. db'.rows[o] = row /\ \A x \in Orders \ {o} : db'.rows[x] = db.rows[x]
    BY <1>0, <2>2
  <2> QED
    BY <1>0, <2>1, <2>3 DEF Enqueues, Same, Becomes
<1>2. ASSUME NEW o \in Orders, NEW s \in {"queued", "canceled", "archived"},
             UpdateQueueStatus(p, o, s)
      PROVE  \/ db'.rows = db.rows \/ Requeues(o)
             \/ Closes(o, "canceled") \/ Closes(o, "archived")
  <2> DEFINE row == IF s = "queued" THEN Requeued(db.rows[o])
                    ELSE [db.rows[o] EXCEPT !.status = s]
             rows == IF db.rows[o].status # "absent"
                     THEN [db.rows EXCEPT ![o] = row] ELSE db.rows
             mark == IF s = "queued" THEN [db.mark EXCEPT ![o] = db.processed[o]]
                     ELSE db.mark
  <2>1. db' = [db EXCEPT !.rows = rows, !.mark = mark]
    BY <1>2 DEF UpdateQueueStatus, WriteAndCommit
  <2>2. db'.rows = rows
    BY <1>0, <2>1 DEF Image
  <2>3. CASE db.rows[o].status # "absent"
    <3>1. db'.rows[o] = row /\ \A x \in Orders \ {o} : db'.rows[x] = db.rows[x]
      BY <1>0, <2>2, <2>3
    <3>2. CASE s = "queued"
      BY <1>0, <2>3, <3>1, <3>2 DEF Requeues, Same, Requeued, Row
    <3>3. CASE s # "queued"
      <4>1. row.status = s /\ row.attempts = db.rows[o].attempts
        BY <1>0, <3>3 DEF Row
      <4> QED
        BY <1>2, <2>3, <3>1, <3>3, <4>1 DEF Closes, Same, Becomes
    <3> QED
      BY <3>2, <3>3
  <2> QED
    BY <2>2, <2>3
<1>3. ASSUME NEW S \in SUBSET Orders, NEW T \in SUBSET S, NEW stamp \in Stamps,
             ReconcileSnapshot(p, S, T, stamp)
      PROVE  Observes(S)
  <2> DEFINE rows == [o \in Orders |-> IF o \in S THEN Observed(db.rows[o], o \in T, stamp)
                                       ELSE db.rows[o]]
  <2>1. db' = [db EXCEPT !.rows = rows]
    BY <1>3 DEF ReconcileSnapshot, WriteAndCommit
  <2>2. db'.rows = rows
    BY <1>0, <2>1 DEF Image
  <2>3. \A x \in Orders :
          /\ Observed(db.rows[x], x \in T, stamp).status = "broker_pending_observed"
          /\ Observed(db.rows[x], x \in T, stamp).attempts = db.rows[x].attempts
    BY <1>0 DEF Observed, Row
  <2> QED
    BY <2>2, <2>3 DEF Observes, Same, Becomes
<1>4. ASSUME NEW kind \in {"dispatch", "db_worker"}, NEW force \in BOOLEAN,
             NEW n \in 1..MaxBatch,
             NEW chosen \in Batches(kind, db.rows, n), Select(p, kind, force, chosen)
      PROVE  db' = db
  BY <1>4 DEF Select
<1>5. ASSUME db'.rows = db.rows PROVE Observes({})
  BY <1>5 DEF Observes, Same, Becomes
<1> QED
  BY <1>1, <1>2, <1>3, <1>4, <1>5 DEF Command

LEMMA StepEffect ==
    ASSUME IndInv, NEW p \in Procs, Step(p) \/ Abort(p)
    PROVE  db' = db \/ (CommitBatch(p) /\ Accepts(batch[p]))
<1>1. CASE CommitBatch(p) /\ lock = p
  <2>0. todo[p] = {} /\ db' = txn /\ doing[p] = Nobody /\ batch[p] \subseteq Orders
    BY <1>1 DEF CommitBatch, IndInv, LockDiscipline, TypeOK
  <2>1. \A o \in Orders :
          /\ txn.rows[o] = IF o \in batch[p]
                           THEN Finished(Bumped(db.rows[o]), "dry_run_accepted")
                           ELSE db.rows[o]
          /\ db.rows[o] \in Row
          /\ o \in batch[p] => db.rows[o].status # "absent"
    <3> TAKE o \in Orders
    <3>1. o # Nobody /\ batch[p] \ todo[p] = batch[p]
      BY <2>0, NobodyIsNone
    <3>2. txn.rows[o] = TxnRow(o, p)
      BY <1>1 DEF IndInv, TxnExtendsDb
    <3>3. db.rows[o] \in Row /\ (o \in batch[p] => db.rows[o].status # "absent")
      BY DEF IndInv, TypeOK, Image, RowsSound
    <3> QED
      BY <2>0, <3>1, <3>2, <3>3 DEF TxnRow
  <2>2. \A x \in batch[p] : /\ txn.rows[x].status = "dry_run_accepted"
                            /\ txn.rows[x].attempts = db.rows[x].attempts + 1
    BY <2>0, <2>1 DEF Finished, Bumped, Row
  <2> QED
    BY <1>1, <2>0, <2>1, <2>2 DEF Accepts, Same
<1>2. CASE CommitBatch(p) /\ lock # p
  BY <1>2 DEF CommitBatch
<1>3. CASE ~CommitBatch(p)
  BY <1>3 DEF Step, MarkProcessing, ExecuteOrder, SyncRead, SyncCommit, SkipSync,
              LockTimeout, Abort
<1> QED
  BY <1>1, <1>2, <1>3
-----------------------------------------------------------------------------
(* The committed table implements QueueContract: every reader sees only    *)
(* whole commands and whole batches, never 'processing' and never a batch  *)
(* that was rolled back.                                                   *)
THEOREM RefinesContract == Spec => ImplementsContract
<1>1. Init => Contract!CInit
  <2> SUFFICES ASSUME Init PROVE Contract!CInit
    OBVIOUS
  <2>1. \A o \in Orders : db.rows[o] = AbsentRow
    BY DEF Init
  <2> QED
    BY <2>1 DEF Contract!CInit, AbsentRow
<1>2. IndInv /\ [Next]_vars => [Contract!CNext]_(Contract!cvars)
  <2> SUFFICES ASSUME IndInv, [Next]_vars
               PROVE  Contract!CNext \/ UNCHANGED Contract!cvars
    OBVIOUS
  <2>1. CASE db' = db
    BY <2>1 DEF Contract!cvars
  <2>2. ASSUME NEW o \in Orders, Enqueues(o) PROVE Contract!Enqueue(o)
    BY <2>2 DEF Contract!Enqueue, Enqueues, Same, Becomes
  <2>3. ASSUME NEW o \in Orders, Requeues(o) PROVE Contract!Requeue(o)
    BY <2>3 DEF Contract!Requeue, Requeues, Same
  <2>4. ASSUME NEW o \in Orders, NEW s, Closes(o, s) PROVE Contract!Close(o, s)
    BY <2>4 DEF Contract!Close, Closes, Same, Becomes
  <2>5. ASSUME NEW S \in SUBSET Orders, Observes(S) PROVE Contract!Observe(S)
    BY <2>5 DEF Contract!Observe, Observes, Same, Becomes
  <2>6. ASSUME NEW S \in SUBSET Orders, Accepts(S) PROVE Contract!RunBatch(S)
    BY <2>6 DEF Contract!RunBatch, Accepts, Same
  <2>7. ASSUME NEW p \in Procs, Command(p) PROVE Contract!CNext \/ UNCHANGED Contract!cvars
    BY <2>7, <2>1, <2>2, <2>3, <2>4, <2>5, CommandEffect DEF Contract!CNext
  <2>8. ASSUME NEW p \in Procs, Step(p) \/ Abort(p)
        PROVE  Contract!CNext \/ UNCHANGED Contract!cvars
    <3>1. batch[p] \in SUBSET Orders
      BY DEF IndInv, TypeOK
    <3> QED
      BY <2>8, <2>1, <2>6, <3>1, StepEffect DEF Contract!CNext
  <2> QED
    BY <2>1, <2>7, <2>8 DEF Next, vars
<1> QED
  BY <1>1, <1>2, Invariant, PTL DEF Spec, ImplementsContract, Contract!CSpec
-----------------------------------------------------------------------------
(* A cancelled or archived order that no call in flight had selected stays *)
(* as it is until it is requeued or reported by a broker snapshot.         *)
THEOREM ClosedIsFinal == Spec => ClosedStaysClosed
<1>1. ASSUME IndInv, [Next]_vars, NEW o \in Orders, QuietlyClosed(o)
      PROVE  \/ QuietlyClosed(o)'
             \/ db'.rows[o].status \in {"queued", "broker_pending_observed"}
  <2>0. db.rows[o].status \in {"canceled", "archived"} /\ \A q \in Procs : o \notin batch[q]
    BY <1>1 DEF QuietlyClosed, Holders
  <2>1. \A q \in Procs : o \notin batch'[q]
    <3>1. ASSUME NEW p \in Procs, Command(p) PROVE \A q \in Procs : o \notin batch'[q]
      <4>1. ASSUME NEW kind \in {"dispatch", "db_worker"}, NEW force \in BOOLEAN,
                   NEW n \in 1..MaxBatch,
                   NEW chosen \in Batches(kind, db.rows, n), Select(p, kind, force, chosen)
            PROVE  \A q \in Procs : o \notin batch'[q]
        <5>1. o \notin chosen
          BY <2>0 DEF Batches, Eligible
        <5> QED
          BY <1>1, <2>0, <4>1, <5>1 DEF Select, IndInv, TypeOK
      <4>2. CASE UNCHANGED batch
        BY <2>0, <4>2
      <4> QED
        BY <3>1, <4>1, <4>2 DEF Command, EnqueueOrder, UpdateQueueStatus,
                                ReconcileSnapshot, WriteAndCommit
    <3>2. ASSUME NEW p \in Procs, Step(p) \/ Abort(p)
          PROVE  \A q \in Procs : o \notin batch'[q]
      <4>1. batch' = batch \/ batch' = [batch EXCEPT ![p] = {}]
        BY <3>2 DEF Step, MarkProcessing, ExecuteOrder, CommitBatch, SyncRead,
                    SyncCommit, SkipSync, LockTimeout, Abort
      <4> QED
        BY <1>1, <2>0, <4>1 DEF IndInv, TypeOK
    <3>3. CASE UNCHANGED vars
      BY <2>0, <3>3 DEF vars
    <3> QED
      BY <1>1, <3>1, <3>2, <3>3 DEF Next
  <2>2. db'.rows[o].status \in {db.rows[o].status, "canceled", "archived", "queued",
                                "broker_pending_observed"}
    <3>1. ASSUME NEW p \in Procs, Command(p)
          PROVE  db'.rows[o].status \in {db.rows[o].status, "canceled", "archived",
                                         "queued", "broker_pending_observed"}
      BY <1>1, <3>1, CommandEffect DEF Enqueues, Requeues, Closes, Observes, Same, Becomes
    <3>2. ASSUME NEW p \in Procs, Step(p) \/ Abort(p)
          PROVE  db'.rows[o].status = db.rows[o].status
      <4>1. o \notin batch[p]
        BY <2>0
      <4> QED
        BY <1>1, <3>2, <4>1, StepEffect DEF Accepts, Same
    <3>3. CASE UNCHANGED vars
      BY <3>3 DEF vars
    <3> QED
      BY <1>1, <3>1, <3>2, <3>3 DEF Next
  <2>3. Holders(o)' = {}
    BY <2>1 DEF Holders
  <2> QED
    BY <2>0, <2>2, <2>3 DEF QuietlyClosed
<1>2. IndInv /\ [Next]_vars =>
        [\A o \in Orders :
           QuietlyClosed(o) =>
               \/ QuietlyClosed(o)'
               \/ db'.rows[o].status \in {"queued", "broker_pending_observed"}]_vars
  BY <1>1
<1> QED
  BY <1>2, Invariant, PTL DEF Spec, ClosedStaysClosed
=============================================================================
