--------------------------- MODULE PendingWorker ---------------------------
(***************************************************************************)
(* tools/mt5_pending_order_worker.py: run_worker reads a file of order     *)
(* intents once, reads the last state of every intent from its own CSV     *)
(* ledger once, and then walks through the intents: each is skipped as a   *)
(* duplicate, rejected by validation, or sent to execute_endpoint, which   *)
(* simulates a dry run and appends a row to the trading ledger.  Each      *)
(* outcome is appended to the worker ledger afterwards.  There is no lock: *)
(* two runs may overlap, and a run may be killed between any two appends.  *)
(***************************************************************************)
EXTENDS Integers, Sequences, FiniteSets

CONSTANTS
    Intents,        \* intent ids (given by the client or built by hashing)
    Procs,          \* runs of the worker that can overlap
    Files,          \* contents of the intents file the producer may write
    MaxIntents,     \* --max-intents
    Copies,         \* how often an intent may occur in one file
    MaxRows,        \* bound: trading ledger rows per intent TLC explores
    MaxMisreads     \* bound: failed reads of the worker ledger TLC explores

Entry == [id : Intents, valid : BOOLEAN, dry : BOOLEAN]

ASSUME FilesAssumption == IsFiniteSet(Procs) /\ Files \subseteq Seq(Entry)
ASSUME BoundsAssumption ==
    MaxIntents \in Nat /\ Copies \in Nat /\ MaxRows \in Nat /\ MaxMisreads \in Nat
ASSUME CopiesAssumption ==
    \A f \in Files, i \in Intents : Cardinality({k \in DOMAIN f : f[k].id = i}) <= Copies

VARIABLES
    file,       \* the intents file
    last,       \* State column of the intent's last worker ledger row
    accepted,   \* DRY_RUN_ACCEPTED rows of the worker ledger, per intent
    streak,     \* how many of them follow the intent's last other row
    trading,    \* trading ledger rows, per intent
    output,     \* the summary in the status file
    misreads,   \* reads of the worker ledger that failed
    pc, queue, existing, result, summary

wvars == <<file, last, accepted, streak, trading, output, misreads, pc,
           queue, existing, result, summary>>
-----------------------------------------------------------------------------
States == {"none", "DRY_RUN_ACCEPTED", "DRY_RUN_REJECTED", "DUPLICATE_SKIPPED",
           "EXECUTION_LANE_REMOVED"}

\* Mutant: the test looks for the live state only.
AlreadyProcessedLive == {"ORDER_SEND_ACCEPTED"}

\* Live sends are gone, so of the four states the code tests for only this
\* one is ever written.
AlreadyProcessed == {"DRY_RUN_ACCEPTED"}

NoCounts == [accepted |-> 0, rejected |-> 0, skipped |-> 0]

\* Mutant: a refusal counts as an acceptance.
ColumnOptimistic(state) == IF state = "DUPLICATE_SKIPPED" THEN "skipped" ELSE "accepted"

Column(state) ==
    CASE state = "DRY_RUN_ACCEPTED" -> "accepted"
      [] state = "DUPLICATE_SKIPPED" -> "skipped"
      [] OTHER -> "rejected"

NoStates == [i \in Intents |-> "none"]

WInit ==
    /\ file = <<>>
    /\ last = NoStates
    /\ accepted = [i \in Intents |-> 0]
    /\ streak = [i \in Intents |-> 0]
    /\ trading = [i \in Intents |-> 0]
    /\ output = NoCounts
    /\ misreads = 0
    /\ pc = [p \in Procs |-> "idle"]
    /\ queue = [p \in Procs |-> <<>>]
    /\ existing = [p \in Procs |-> NoStates]
    /\ result = [p \in Procs |-> "none"]
    /\ summary = [p \in Procs |-> NoCounts]

\* The producer replaces the intents file.
WriteIntents(f) ==
    /\ file' = f
    /\ UNCHANGED <<last, accepted, streak, trading, output, misreads, pc, queue,
                   existing, result, summary>>

\* load_intents and raw_intents[:max_intents].
LoadIntents(p) ==
    /\ pc[p] = "idle"
    /\ \A i \in Intents :
          trading[i] + Copies * Cardinality({q \in Procs : pc[q] # "idle"} \cup {p})
              <= MaxRows
    /\ pc' = [pc EXCEPT ![p] = "loaded"]
    /\ queue' = [queue EXCEPT ![p] =
                    SubSeq(file, 1, IF MaxIntents < Len(file) THEN MaxIntents
                                    ELSE Len(file))]
    /\ UNCHANGED <<file, last, accepted, streak, trading, output, misreads,
                   existing, result, summary>>

\* read_existing_intent_states: of several rows the last one counts.  Any
\* exception while the ledger is read makes the answer an empty dictionary:
\* the run goes on and takes every intent for a new one.
ReadExistingIntentStates(p) ==
    /\ pc[p] = "loaded"
    /\ pc' = [pc EXCEPT ![p] = "loop"]
    /\ \/ /\ existing' = [existing EXCEPT ![p] = last]
          /\ UNCHANGED misreads
       \/ /\ misreads < MaxMisreads
          /\ existing' = [existing EXCEPT ![p] = NoStates]
          /\ misreads' = misreads + 1
    /\ UNCHANGED <<file, last, accepted, streak, trading, output, queue,
                   result, summary>>

\* Mutant: the row holds the counter's name in place of the state.
AppendColumn(p, i, state) ==
    /\ last' = [last EXCEPT ![i] = Column(state)]
    /\ summary' = [summary EXCEPT ![p][Column(state)] = @ + 1]
    /\ queue' = [queue EXCEPT ![p] = Tail(@)]
    /\ UNCHANGED <<accepted, streak>>

\* append_worker_ledger, and the counter of the run.
AppendWorkerLedger(p, i, state) ==
    LET column == Column(state)
        hit == state = "DRY_RUN_ACCEPTED"
    IN  /\ last' = [last EXCEPT ![i] = state]
        /\ accepted' = [accepted EXCEPT ![i] = IF hit THEN @ + 1 ELSE @]
        /\ streak' = [streak EXCEPT ![i] = IF hit THEN @ + 1 ELSE 0]
        /\ summary' = [summary EXCEPT ![p][column] = @ + 1]
        /\ queue' = [queue EXCEPT ![p] = Tail(@)]

\* The membership test uses the states read when the run began.
SkipDuplicate(p) ==
    /\ pc[p] = "loop" /\ queue[p] # <<>> /\ result[p] = "none"
    /\ existing[p][Head(queue[p]).id] \in AlreadyProcessed
    /\ AppendWorkerLedger(p, Head(queue[p]).id, "DUPLICATE_SKIPPED")
    /\ UNCHANGED <<file, trading, output, misreads, pc, existing, result>>

RejectInvalid(p) ==
    /\ pc[p] = "loop" /\ queue[p] # <<>> /\ result[p] = "none"
    /\ existing[p][Head(queue[p]).id] \notin AlreadyProcessed
    /\ ~Head(queue[p]).valid
    /\ AppendWorkerLedger(p, Head(queue[p]).id, "DRY_RUN_REJECTED")
    /\ UNCHANGED <<file, trading, output, misreads, pc, existing, result>>

\* Mutant: the simulation returns before append_audit.
NoTradingRows(dry) == 0

TradingRows(dry) == IF dry THEN 1 ELSE 0

\* execute_endpoint: a dry run leaves a trading ledger row, anything else is
\* refused.  --dry-run turns every intent into a dry run.
ExecuteIntent(p, forceDryRun) ==
    LET entry == Head(queue[p])
        dry == forceDryRun \/ entry.dry
    IN  /\ pc[p] = "loop" /\ queue[p] # <<>> /\ result[p] = "none"
        /\ existing[p][entry.id] \notin AlreadyProcessed
        /\ entry.valid
        /\ result' = [result EXCEPT ![p] = IF dry THEN "DRY_RUN_ACCEPTED"
                                           ELSE "EXECUTION_LANE_REMOVED"]
        /\ trading' = [trading EXCEPT ![entry.id] = @ + TradingRows(dry)]
        /\ UNCHANGED <<file, last, accepted, streak, output, misreads, pc,
                       queue, existing, summary>>

\* The row for what execute_endpoint answered.
RecordResult(p) ==
    /\ result[p] # "none"
    /\ AppendWorkerLedger(p, Head(queue[p]).id, result[p])
    /\ result' = [result EXCEPT ![p] = "none"]
    /\ UNCHANGED <<file, trading, output, misreads, pc, existing>>

Reset(p) ==
    /\ pc' = [pc EXCEPT ![p] = "idle"]
    /\ queue' = [queue EXCEPT ![p] = <<>>]
    /\ existing' = [existing EXCEPT ![p] = NoStates]
    /\ result' = [result EXCEPT ![p] = "none"]
    /\ summary' = [summary EXCEPT ![p] = NoCounts]

\* write_json of the status file.
WriteOutput(p) ==
    /\ pc[p] = "loop" /\ queue[p] = <<>>
    /\ output' = summary[p]
    /\ Reset(p)
    /\ UNCHANGED <<file, last, accepted, streak, trading, misreads>>

\* The API server kills the process, or the machine stops.
Crash(p) ==
    /\ pc[p] # "idle"
    /\ Reset(p)
    /\ UNCHANGED <<file, last, accepted, streak, trading, output, misreads>>

WNext ==
    \/ \E f \in Files : WriteIntents(f)
    \/ \E p \in Procs :
          \/ LoadIntents(p) \/ ReadExistingIntentStates(p)
          \/ SkipDuplicate(p) \/ RejectInvalid(p)
          \/ \E forceDryRun \in BOOLEAN : ExecuteIntent(p, forceDryRun)
          \/ RecordResult(p) \/ WriteOutput(p) \/ Crash(p)

WSpec == WInit /\ [][WNext]_wvars
-----------------------------------------------------------------------------
Counts == [accepted : Nat, rejected : Nat, skipped : Nat]

WTypeOK ==
    /\ file \in Seq(Entry)
    /\ last \in [Intents -> States]
    /\ accepted \in [Intents -> Nat]
    /\ streak \in [Intents -> Nat]
    /\ trading \in [Intents -> Nat]
    /\ output \in Counts
    /\ misreads \in Nat
    /\ pc \in [Procs -> {"idle", "loaded", "loop"}]
    /\ queue \in [Procs -> Seq(Entry)]
    /\ existing \in [Procs -> [Intents -> States]]
    /\ result \in [Procs -> {"none", "DRY_RUN_ACCEPTED", "EXECUTION_LANE_REMOVED"}]
    /\ summary \in [Procs -> Counts]

\* Every acceptance the worker ledger claims has a row of its own in the
\* trading ledger, also while runs overlap and die between the two appends.
AcceptanceBacked ==
    \A i \in Intents :
        accepted[i] + Cardinality({p \in Procs :
            /\ result[p] = "DRY_RUN_ACCEPTED"
            /\ Head(queue[p]).id = i}) <= trading[i]

\* A run may accept an intent as often as its copy of the file repeats it;
\* in a streak that is true of the runs that read before it began, at most
\* all that can overlap, and of every run that could not read the ledger.
Allowance == (Cardinality(Procs) + misreads) * Copies

\* The snapshot of states goes stale during a run, so overlapping runs and
\* repeated intents are accepted more than once in a row, but no more often
\* than they can overlap: a run that starts later sees the acceptance, unless
\* its read of the ledger fails, and each failed read costs one more run's
\* worth of acceptances, not more.
StreakBounded == \A i \in Intents : streak[i] <= Allowance

\* The acceptances in the worker ledger: an intent with its first, its second
\* ... acceptance.
AcceptanceRows == UNION {{i} \X (1..accepted[i]) : i \in Intents}

\* The status file never reports more acceptances than the worker ledger
\* holds: a run counts only what it has appended.
OutputBacked == output.accepted <= Cardinality(AcceptanceRows)

\* An intent is accepted once: the reason a duplicate is skipped with is
\* "intent_already_processed".
AcceptedOnce == \A i \in Intents : accepted[i] <= 1
=============================================================================
