------------------------- MODULE PendingWorkerProofs -------------------------
(***************************************************************************)
(* Proofs about PendingWorker.  Between execute_endpoint's row in the      *)
(* trading ledger and the worker's own row a run can be overtaken or       *)
(* killed, so the invariant counts the rows that are still to be written.  *)
(***************************************************************************)
EXTENDS PendingWorker, FiniteSetTheorems, TLAPS

\* Runs that were told an intent is accepted and have not recorded it yet.
Unrecorded(i) == {p \in Procs : /\ result[p] = "DRY_RUN_ACCEPTED"
                                /\ Head(queue[p]).id = i}

\* A result is always about the head of the queue of a run in its loop.
Pending ==
    \A p \in Procs : result[p] # "none" => pc[p] = "loop" /\ queue[p] # <<>>

Backed ==
    \A i \in Intents : accepted[i] + Cardinality(Unrecorded(i)) <= trading[i]

\* The inductive invariant.
WInv == WTypeOK /\ Pending /\ Backed
-----------------------------------------------------------------------------
LEMMA UnrecordedFinite ==
    ASSUME NEW i
    PROVE  /\ IsFiniteSet(Unrecorded(i)) /\ Cardinality(Unrecorded(i)) \in Nat
           /\ IsFiniteSet(Unrecorded(i)')
           /\ Cardinality(Unrecorded(i)') \in Nat
<1>1. Unrecorded(i) \subseteq Procs /\ Unrecorded(i)' \subseteq Procs
  BY DEF Unrecorded
<1> QED
  BY <1>1, FilesAssumption, FS_Subset, FS_CardinalityType

\* What happens to the acceptances when no trading row is removed and no
\* acceptance is recorded.
LEMMA NothingRecorded ==
    ASSUME WInv, NEW i \in Intents, accepted'[i] = accepted[i],
           trading'[i] = trading[i], Unrecorded(i)' \subseteq Unrecorded(i)
    PROVE  accepted'[i] + Cardinality(Unrecorded(i)') <= trading'[i]
<1>1. Cardinality(Unrecorded(i)') <= Cardinality(Unrecorded(i))
  BY UnrecordedFinite, FS_Subset
<1>2. /\ accepted[i] \in Nat /\ trading[i] \in Nat
      /\ accepted[i] + Cardinality(Unrecorded(i)) <= trading[i]
  BY DEF WInv, WTypeOK, Backed
<1> QED
  BY <1>1, <1>2, UnrecordedFinite

LEMMA NoCountsTyped == NoCounts \in Counts /\ NoStates \in [Intents -> States]
  BY DEF NoCounts, Counts, NoStates, States

\* The head of a queue is an entry of the file the run has read.
LEMMA HeadTyped ==
    ASSUME WTypeOK, NEW p \in Procs, queue[p] # <<>>
    PROVE  /\ Head(queue[p]) \in Entry /\ Head(queue[p]).id \in Intents
           /\ Tail(queue[p]) \in Seq(Entry)
<1>1. queue[p] \in Seq(Entry)
  BY DEF WTypeOK
<1>2. Head(queue[p]) \in Entry /\ Tail(queue[p]) \in Seq(Entry)
  BY <1>1
<1> QED
  BY <1>2 DEF Entry

LEMMA AppendTyped ==
    ASSUME WTypeOK, NEW p \in Procs, NEW i \in Intents,
           NEW state \in States \ {"none"}, queue[p] # <<>>,
           AppendWorkerLedger(p, i, state)
    PROVE  /\ last' \in [Intents -> States]
           /\ accepted' \in [Intents -> Nat]
           /\ streak' \in [Intents -> Nat]
           /\ summary' \in [Procs -> Counts]
           /\ queue' \in [Procs -> Seq(Entry)]
<1>1. last' \in [Intents -> States]
  BY DEF AppendWorkerLedger, WTypeOK
<1>2. accepted' \in [Intents -> Nat] /\ streak' \in [Intents -> Nat]
  BY DEF AppendWorkerLedger, WTypeOK
<1>3. summary' \in [Procs -> Counts]
  <2>1. Column(state) \in {"accepted", "rejected", "skipped"}
    BY DEF Column
  <2>2. summary \in [Procs -> Counts] /\ summary[p] \in Counts
    BY DEF WTypeOK
  <2>3. [summary[p] EXCEPT ![Column(state)] = @ + 1] \in Counts
    <3>1. CASE Column(state) = "accepted"
      BY <2>2, <3>1 DEF Counts
    <3>2. CASE Column(state) = "rejected"
      BY <2>2, <3>2 DEF Counts
    <3>3. CASE Column(state) = "skipped"
      BY <2>2, <3>3 DEF Counts
    <3> QED
      BY <2>1, <3>1, <3>2, <3>3
  <2>4. summary' = [summary EXCEPT
                      ![p] = [summary[p] EXCEPT ![Column(state)] = @ + 1]]
    BY DEF AppendWorkerLedger
  <2> QED
    BY <2>2, <2>3, <2>4
<1>4. queue' \in [Procs -> Seq(Entry)]
  BY HeadTyped DEF AppendWorkerLedger, WTypeOK
<1> QED
  BY <1>1, <1>2, <1>3, <1>4

LEMMA InitEstablishes == ASSUME WInit PROVE WInv
<1>1. WTypeOK
  BY NoCountsTyped DEF WInit, WTypeOK
<1>2. Pending
  BY DEF WInit, Pending
<1>3. Backed
  <2> SUFFICES ASSUME NEW i \in Intents
               PROVE  accepted[i] + Cardinality(Unrecorded(i)) <= trading[i]
    BY DEF Backed
  <2>1. Unrecorded(i) = {}
    BY DEF WInit, Unrecorded
  <2>2. Cardinality(Unrecorded(i)) = 0
    BY <2>1, FS_EmptySet
  <2> QED
    BY <2>2 DEF WInit
<1> QED
  BY <1>1, <1>2, <1>3 DEF WInv
-----------------------------------------------------------------------------
LEMMA WriteIntentsKeeps ==
    ASSUME WInv, NEW f \in Files, WriteIntents(f) PROVE WInv'
<1>1. WTypeOK' /\ Pending'
  BY FilesAssumption DEF WInv, WriteIntents, WTypeOK, Pending
<1>2. \A i \in Intents : Unrecorded(i)' = Unrecorded(i)
  BY DEF WriteIntents, Unrecorded
<1>3. Backed'
  BY <1>2, NothingRecorded DEF WriteIntents, Backed
<1> QED
  BY <1>1, <1>3 DEF WInv

LEMMA LoadKeeps ==
    ASSUME WInv, NEW p \in Procs,
           LoadIntents(p) \/ ReadExistingIntentStates(p)
    PROVE  WInv'
<1>1. result[p] = "none" /\ result' = result
  BY DEF WInv, Pending, LoadIntents, ReadExistingIntentStates
<1>2. \A q \in Procs : q # p => pc'[q] = pc[q] /\ queue'[q] = queue[q]
  BY DEF WInv, WTypeOK, LoadIntents, ReadExistingIntentStates
<1>3. WTypeOK'
  <2>1. CASE LoadIntents(p)
    <3> DEFINE n == IF MaxIntents < Len(file) THEN MaxIntents ELSE Len(file)
    <3>1. file \in Seq(Entry) /\ Len(file) \in Nat
      BY DEF WInv, WTypeOK
    <3>2. n \in 0..Len(file)
      BY <3>1, BoundsAssumption
    <3>3. SubSeq(file, 1, n) \in Seq(Entry)
      BY <3>1, <3>2
    <3> QED
      BY <2>1, <3>3 DEF WInv, WTypeOK, LoadIntents
  <2>2. CASE ReadExistingIntentStates(p)
    <3>1. PICK states \in [Intents -> States] :
             existing' = [existing EXCEPT ![p] = states]
      BY <2>2, NoCountsTyped DEF WInv, WTypeOK, ReadExistingIntentStates
    <3>2. misreads' \in Nat /\ pc' = [pc EXCEPT ![p] = "loop"]
      BY <2>2 DEF WInv, WTypeOK, ReadExistingIntentStates
    <3>3. UNCHANGED <<file, last, accepted, streak, trading, output, queue,
                      result, summary>>
      BY <2>2 DEF ReadExistingIntentStates
    <3> QED
      BY <3>1, <3>2, <3>3 DEF WInv, WTypeOK
  <2> QED
    BY <2>1, <2>2
<1>4. Pending'
  BY <1>1, <1>2 DEF WInv, Pending
<1>5. \A i \in Intents : Unrecorded(i)' = Unrecorded(i)
  BY <1>1, <1>2 DEF Unrecorded
<1>6. UNCHANGED <<accepted, trading>>
  BY DEF LoadIntents, ReadExistingIntentStates
<1>7. Backed'
  BY <1>5, <1>6, NothingRecorded DEF Backed
<1> QED
  BY <1>3, <1>4, <1>7 DEF WInv

\* A duplicate or an invalid intent: a row without an acceptance.
LEMMA RefuseKeeps ==
    ASSUME WInv, NEW p \in Procs, SkipDuplicate(p) \/ RejectInvalid(p)
    PROVE  WInv'
<1> DEFINE i == Head(queue[p]).id
<1>1. /\ result[p] = "none" /\ queue[p] # <<>>
      /\ UNCHANGED <<file, trading, output, misreads, pc, existing, result>>
      /\ \E state \in {"DUPLICATE_SKIPPED", "DRY_RUN_REJECTED"} :
           AppendWorkerLedger(p, i, state)
  BY DEF SkipDuplicate, RejectInvalid
<1>2. i \in Intents
  BY <1>1, HeadTyped DEF WInv
<1>3. accepted' = accepted /\ queue' = [queue EXCEPT ![p] = Tail(@)]
  BY <1>1 DEF AppendWorkerLedger, WInv, WTypeOK
<1>4. WTypeOK'
  BY <1>1, <1>2, AppendTyped DEF WInv, WTypeOK, States
<1>5. \A q \in Procs : q # p => queue'[q] = queue[q]
  BY <1>3
<1>6. Pending'
  BY <1>1, <1>5 DEF WInv, Pending
<1>7. \A k \in Intents : Unrecorded(k)' = Unrecorded(k)
  BY <1>1, <1>5 DEF Unrecorded
<1>8. Backed'
  BY <1>1, <1>3, <1>7, NothingRecorded DEF Backed
<1> QED
  BY <1>4, <1>6, <1>8 DEF WInv

LEMMA ExecuteKeeps ==
    ASSUME WInv, NEW p \in Procs, NEW forceDryRun \in BOOLEAN,
           ExecuteIntent(p, forceDryRun)
    PROVE  WInv'
<1> DEFINE i == Head(queue[p]).id
           dry == forceDryRun \/ Head(queue[p]).dry
<1>1. /\ pc[p] = "loop" /\ queue[p] # <<>> /\ result[p] = "none"
      /\ UNCHANGED <<file, last, accepted, streak, output, misreads, pc,
                     queue, existing, summary>>
      /\ result' = [result EXCEPT ![p] = IF dry THEN "DRY_RUN_ACCEPTED"
                                         ELSE "EXECUTION_LANE_REMOVED"]
      /\ trading' = [trading EXCEPT ![i] = @ + IF dry THEN 1 ELSE 0]
  BY DEF ExecuteIntent, TradingRows
<1>2. i \in Intents
  BY <1>1, HeadTyped DEF WInv
<1> HIDE DEF dry
<1>3. WTypeOK'
  BY <1>1, <1>2 DEF WInv, WTypeOK
<1>4. Pending'
  BY <1>1 DEF WInv, WTypeOK, Pending
<1>5. ASSUME NEW k \in Intents
      PROVE  accepted'[k] + Cardinality(Unrecorded(k)') <= trading'[k]
  <2>1. CASE k = i /\ dry
    <3>1. Unrecorded(k)' = Unrecorded(k) \cup {p} /\ p \notin Unrecorded(k)
      BY <1>1, <2>1 DEF Unrecorded, WInv, WTypeOK
    <3>2. Cardinality(Unrecorded(k)') = Cardinality(Unrecorded(k)) + 1
      BY <3>1, UnrecordedFinite, FS_AddElement
    <3>3. trading'[k] = trading[k] + 1 /\ accepted'[k] = accepted[k]
      BY <1>1, <2>1 DEF WInv, WTypeOK
    <3>4. /\ accepted[k] \in Nat /\ trading[k] \in Nat
          /\ accepted[k] + Cardinality(Unrecorded(k)) <= trading[k]
      BY DEF WInv, WTypeOK, Backed
    <3> QED
      BY <3>2, <3>3, <3>4, UnrecordedFinite
  <2>2. CASE ~(k = i /\ dry)
    <3>1. Unrecorded(k)' \subseteq Unrecorded(k)
      BY <1>1, <2>2 DEF Unrecorded, WInv, WTypeOK
    <3>2. trading'[k] = trading[k] /\ accepted'[k] = accepted[k]
      BY <1>1, <2>2 DEF WInv, WTypeOK
    <3> QED
      BY <3>1, <3>2, NothingRecorded
  <2> QED
    BY <2>1, <2>2
<1> QED
  BY <1>3, <1>4, <1>5 DEF WInv, Backed

LEMMA RecordKeeps ==
    ASSUME WInv, NEW p \in Procs, RecordResult(p) PROVE WInv'
<1> DEFINE i == Head(queue[p]).id
           hit == result[p] = "DRY_RUN_ACCEPTED"
<1>1. /\ result[p] # "none" /\ queue[p] # <<>> /\ pc[p] = "loop"
      /\ result' = [result EXCEPT ![p] = "none"]
      /\ AppendWorkerLedger(p, i, result[p])
      /\ UNCHANGED <<file, trading, output, misreads, pc, existing>>
  BY DEF RecordResult, WInv, Pending
<1>2. i \in Intents /\ result[p] \in States \ {"none"}
  BY <1>1, HeadTyped DEF WInv, WTypeOK, States
<1>3. /\ accepted' = [accepted EXCEPT ![i] = IF hit THEN @ + 1 ELSE @]
      /\ queue' = [queue EXCEPT ![p] = Tail(@)]
  BY <1>1 DEF AppendWorkerLedger
<1>4. WTypeOK'
  BY <1>1, <1>2, AppendTyped DEF WInv, WTypeOK
<1>5. Pending'
  BY <1>1, <1>3 DEF WInv, WTypeOK, Pending
<1>6. ASSUME NEW k \in Intents
      PROVE  accepted'[k] + Cardinality(Unrecorded(k)') <= trading'[k]
  <2>1. Unrecorded(k)' = Unrecorded(k) \ {p}
    BY <1>1, <1>3 DEF Unrecorded, WInv, WTypeOK
  <2>2. CASE k = i /\ hit
    <3>1. p \in Unrecorded(k)
      BY <2>2 DEF Unrecorded
    <3>2. Cardinality(Unrecorded(k)') = Cardinality(Unrecorded(k)) - 1
      BY <2>1, <3>1, UnrecordedFinite, FS_RemoveElement
    <3>3. trading'[k] = trading[k] /\ accepted'[k] = accepted[k] + 1
      BY <1>1, <1>3, <2>2 DEF WInv, WTypeOK
    <3>4. /\ accepted[k] \in Nat /\ trading[k] \in Nat
          /\ accepted[k] + Cardinality(Unrecorded(k)) <= trading[k]
      BY DEF WInv, WTypeOK, Backed
    <3> QED
      BY <3>2, <3>3, <3>4, UnrecordedFinite
  <2>3. CASE ~(k = i /\ hit)
    <3>1. trading'[k] = trading[k] /\ accepted'[k] = accepted[k]
      BY <1>1, <1>3, <2>3 DEF WInv, WTypeOK
    <3> QED
      BY <2>1, <3>1, NothingRecorded
  <2> QED
    BY <2>2, <2>3
<1> QED
  BY <1>4, <1>5, <1>6 DEF WInv, Backed

\* The end of a run, whether it finished or was killed.
LEMMA EndKeeps ==
    ASSUME WInv, NEW p \in Procs, WriteOutput(p) \/ Crash(p) PROVE WInv'
<1>1. /\ Reset(p)
      /\ UNCHANGED <<file, last, accepted, streak, trading, misreads>>
      /\ output' \in {output, summary[p]}
  BY DEF WriteOutput, Crash
<1>2. <<>> \in Seq(Entry)
  OBVIOUS
<1>3. WTypeOK'
  BY <1>1, <1>2, NoCountsTyped DEF WInv, WTypeOK, Reset
<1>4. Pending'
  BY <1>1 DEF WInv, WTypeOK, Pending, Reset
<1>5. \A k \in Intents : Unrecorded(k)' \subseteq Unrecorded(k)
  BY <1>1 DEF Unrecorded, Reset, WInv, WTypeOK
<1>6. Backed'
  BY <1>1, <1>5, NothingRecorded DEF Backed
<1> QED
  BY <1>3, <1>4, <1>6 DEF WInv

LEMMA WStepKeeps == ASSUME WInv, [WNext]_wvars PROVE WInv'
<1>1. ASSUME NEW f \in Files, WriteIntents(f) PROVE WInv'
  BY <1>1, WriteIntentsKeeps
<1>2. ASSUME NEW p \in Procs, LoadIntents(p) \/ ReadExistingIntentStates(p)
      PROVE  WInv'
  BY <1>2, LoadKeeps
<1>3. ASSUME NEW p \in Procs, SkipDuplicate(p) \/ RejectInvalid(p)
      PROVE  WInv'
  BY <1>3, RefuseKeeps
<1>4. ASSUME NEW p \in Procs, NEW force \in BOOLEAN, ExecuteIntent(p, force)
      PROVE  WInv'
  BY <1>4, ExecuteKeeps
<1>5. ASSUME NEW p \in Procs, RecordResult(p) PROVE WInv'
  BY <1>5, RecordKeeps
<1>6. ASSUME NEW p \in Procs, WriteOutput(p) \/ Crash(p) PROVE WInv'
  BY <1>6, EndKeeps
<1>7. CASE UNCHANGED wvars
  BY <1>7 DEF wvars, WInv, WTypeOK, Pending, Backed, Unrecorded
<1> QED
  BY <1>1, <1>2, <1>3, <1>4, <1>5, <1>6, <1>7 DEF WNext

\* The invariant holds for any intents, files and overlapping runs.
THEOREM WInvHolds == WSpec => []WInv
  BY InitEstablishes, WStepKeeps, PTL DEF WSpec

\* Files, ledgers and the runs in progress stay well formed.
THEOREM WTypes == WSpec => []WTypeOK
<1>1. WInv => WTypeOK
  BY DEF WInv
<1> QED
  BY <1>1, WInvHolds, PTL

\* Every acceptance the worker ledger claims has a trading ledger row of its
\* own, and so has every acceptance a run is about to record.
THEOREM AcceptancesAreBacked == WSpec => []AcceptanceBacked
<1>1. WInv => AcceptanceBacked
  BY DEF WInv, Backed, AcceptanceBacked, Unrecorded
<1> QED
  BY <1>1, WInvHolds, PTL
-----------------------------------------------------------------------------
(* Acceptances in a row.  A run accepts an intent only when the states it  *)
(* has read do not say that it is accepted already, so what can prolong a  *)
(* streak is in the queues of the runs that read them before.              *)

\* Where an intent is in a queue, counted from the end, so that a place does
\* not move when the head is done; and where it is in a file.
Places(rows, i) ==
    {m \in 0..(Len(rows) - 1) : rows[Len(rows) - m].id = i}
Occurrences(rows, i) == {k \in DOMAIN rows : rows[k].id = i}

\* What runs may still accept.
Tokens(i) ==
    {t \in Procs \X Nat : /\ pc[t[1]] = "loop"
                          /\ existing[t[1]][i] \notin AlreadyProcessed
                          /\ t[2] \in Places(queue[t[1]], i)}

Streaks == \A i \in Intents : streak[i] > 0 => last[i] \in AlreadyProcessed
Undecided ==
    \A p \in Procs : result[p] # "none" =>
        existing[p][Head(queue[p]).id] \notin AlreadyProcessed
FewCopies ==
    /\ \A i \in Intents : Cardinality(Occurrences(file, i)) <= Copies
    /\ \A p \in Procs, i \in Intents :
          Cardinality(Places(queue[p], i)) <= Copies
Covered ==
    \A i \in Intents :
        streak[i] + Cardinality(Tokens(i)) <= Allowance

\* The inductive invariant.
SInv == WInv /\ Streaks /\ Undecided /\ FewCopies /\ Covered

LEMMA PlacesFinite ==
    ASSUME NEW rows \in Seq(Entry), NEW i
    PROVE  /\ Places(rows, i) \in SUBSET Nat
           /\ IsFiniteSet(Places(rows, i))
           /\ Cardinality(Places(rows, i)) \in Nat
           /\ IsFiniteSet(Occurrences(rows, i))
           /\ Cardinality(Occurrences(rows, i)) \in Nat
<1>1. Len(rows) \in Nat /\ DOMAIN rows = 1..Len(rows)
  OBVIOUS
<1>2. IsFiniteSet(0..(Len(rows) - 1)) /\ IsFiniteSet(1..Len(rows))
  BY <1>1, FS_Interval
<1>3. /\ Places(rows, i) \in SUBSET (0..(Len(rows) - 1))
      /\ Occurrences(rows, i) \in SUBSET (1..Len(rows))
  BY <1>1 DEF Places, Occurrences
<1>4. Places(rows, i) \in SUBSET Nat
  BY <1>1, <1>3
<1> QED
  BY <1>2, <1>3, <1>4, FS_Subset, FS_CardinalityType

\* Taking the head away takes at most its own place away.
LEMMA TailPlaces ==
    ASSUME NEW rows \in Seq(Entry), rows # <<>>, NEW i
    PROVE  /\ Places(Tail(rows), i) \in SUBSET Places(rows, i)
           /\ Len(rows) - 1 \notin Places(Tail(rows), i)
           /\ Head(rows).id = i => Len(rows) - 1 \in Places(rows, i)
           /\ Len(rows) - 1 \in Nat
<1>1. PICK n \in Nat : n = Len(rows) /\ n >= 1
  OBVIOUS
<1>2. PICK rest \in Seq(Entry) : rest = Tail(rows)
  <2>1. Tail(rows) \in Seq(Entry)
    OBVIOUS
  <2> QED
    BY <2>1
<1>3. Len(rest) = n - 1 /\ \A k \in 1..(n - 1) : rest[k] = rows[k + 1]
  BY <1>1, <1>2
<1>4. ASSUME NEW m \in Places(rest, i) PROVE m \in Places(rows, i) /\ m # n - 1
  <2>1. m \in 0..(n - 2) /\ rest[n - 1 - m].id = i
    BY <1>1, <1>3 DEF Places
  <2>2. n - 1 - m \in 1..(n - 1) /\ n - 1 - m + 1 = n - m
    BY <2>1
  <2>3. rows[n - m].id = i
    BY <1>3, <2>1, <2>2
  <2> QED
    BY <1>1, <2>1, <2>3 DEF Places
<1>5. Head(rows) = rows[1] /\ n - (n - 1) = 1 /\ n - 1 \in 0..(n - 1)
  BY <1>1
<1>6. Head(rows).id = i => n - 1 \in Places(rows, i)
  BY <1>1, <1>5 DEF Places
<1> QED
  BY <1>1, <1>2, <1>4, <1>6

\* A prefix has no more copies of an intent than the whole.
LEMMA PrefixPlaces ==
    ASSUME NEW rows \in Seq(Entry), NEW n \in 0..Len(rows), NEW i
    PROVE  Cardinality(Places(SubSeq(rows, 1, n), i))
             <= Cardinality(Occurrences(rows, i))
<1>1. PICK part : part = SubSeq(rows, 1, n)
  OBVIOUS
<1>2. /\ part \in Seq(Entry) /\ Len(part) = n /\ n \in Nat
      /\ \A k \in 1..n : part[k] = rows[k]
      /\ DOMAIN rows = 1..Len(rows) /\ n <= Len(rows) /\ Len(rows) \in Nat
  BY <1>1
<1>3. PICK f : f = [m \in Places(part, i) |-> n - m]
  OBVIOUS
<1>4. \A m \in Places(part, i) : m \in 0..(n - 1) /\ part[n - m].id = i
  BY <1>2 DEF Places
<1>5. \A m \in Places(part, i) : n - m \in Occurrences(rows, i)
  <2> TAKE m \in Places(part, i)
  <2>1. n - m \in 1..n
    BY <1>2, <1>4
  <2>2. rows[n - m].id = i /\ n - m \in DOMAIN rows
    BY <1>2, <1>4, <2>1
  <2> QED
    BY <2>2 DEF Occurrences
<1>6. f \in Injection(Places(part, i), Occurrences(rows, i))
  <2>1. f \in [Places(part, i) -> Occurrences(rows, i)]
    BY <1>3, <1>5
  <2>2. \A m, k \in Places(part, i) : f[m] = f[k] => m = k
    <3> TAKE m, k \in Places(part, i)
    <3>1. m \in Int /\ k \in Int /\ f[m] = n - m /\ f[k] = n - k
      BY <1>3, <1>4
    <3> QED
      BY <1>2, <3>1
  <2> QED
    BY <2>1, <2>2 DEF Injection, IsInjective
<1> QED
  BY <1>1, <1>6, PlacesFinite, FS_Injection

\* Sets of at most n numbers, one for each run, fit into a grid.
LEMMA GridBound ==
    ASSUME NEW F \in [Procs -> SUBSET Nat], NEW n \in Nat,
           \A p \in Procs : IsFiniteSet(F[p]) /\ Cardinality(F[p]) <= n,
           NEW T, \A t \in T : t \in Procs \X Nat /\ t[2] \in F[t[1]]
    PROVE  /\ IsFiniteSet(T) /\ Cardinality(T) \in Nat
           /\ Cardinality(T) <= Cardinality(Procs) * n
<1>1. \A p \in Procs : \E g \in [F[p] -> 1..n] :
         \A j, k \in F[p] : g[j] = g[k] => j = k
  <2> TAKE p \in Procs
  <2>1. PICK c \in Nat : c = Cardinality(F[p]) /\ c <= n
    BY FS_CardinalityType
  <2>2. IsFiniteSet(1..c) /\ Cardinality(1..c) = c
    BY <2>1, FS_Interval
  <2>3. PICK g : g \in Bijection(F[p], 1..c)
    BY <2>1, <2>2, FS_SameCardinalityBij DEF ExistsBijection
  <2>4. /\ g \in [F[p] -> 1..c]
        /\ \A j, k \in F[p] : g[j] = g[k] => j = k
    BY <2>3 DEF Bijection, Injection, IsInjective
  <2>5. g \in [F[p] -> 1..n]
    <3>1. \A j \in F[p] : g[j] \in 1..n
      BY <2>1, <2>4
    <3> QED
      BY <2>4, <3>1
  <2> QED
    BY <2>4, <2>5
<1>2. PICK G : G = [p \in Procs |-> CHOOSE g \in [F[p] -> 1..n] :
                       \A j, k \in F[p] : g[j] = g[k] => j = k]
  OBVIOUS
<1>3. \A p \in Procs : /\ G[p] \in [F[p] -> 1..n]
                       /\ \A j, k \in F[p] : G[p][j] = G[p][k] => j = k
  BY <1>1, <1>2
<1>4. PICK f : f = [t \in T |-> <<t[1], G[t[1]][t[2]]>>]
  OBVIOUS
<1>5. f \in Injection(T, Procs \X (1..n))
  <2>1. f \in [T -> Procs \X (1..n)]
    BY <1>3, <1>4
  <2>2. \A s, t \in T : f[s] = f[t] => s = t
    <3> TAKE s, t \in T
    <3> SUFFICES ASSUME f[s] = f[t] PROVE s = t
      OBVIOUS
    <3>1. <<s[1], G[s[1]][s[2]]>> = <<t[1], G[t[1]][t[2]]>>
      BY <1>4
    <3>2. s[1] = t[1] /\ G[s[1]][s[2]] = G[s[1]][t[2]]
      <4>1. \A a, b, c, d : <<a, b>> = <<c, d>> => a = c /\ b = d
        OBVIOUS
      <4>2. s[1] = t[1] /\ G[s[1]][s[2]] = G[t[1]][t[2]]
        BY <3>1, <4>1
      <4> QED
        BY <4>1, <4>2
    <3>3. s[1] \in Procs /\ s[2] \in F[s[1]] /\ t[2] \in F[s[1]]
      BY <3>2
    <3>4. s[2] = t[2]
      BY <1>3, <3>2, <3>3
    <3>5. s = <<s[1], s[2]>> /\ t = <<t[1], t[2]>>
      OBVIOUS
    <3> QED
      BY <3>2, <3>4, <3>5
  <2> QED
    BY <2>1, <2>2 DEF Injection, IsInjective
<1>6. IsFiniteSet(1..n) /\ Cardinality(1..n) = n
  BY FS_Interval
<1>7. /\ IsFiniteSet(Procs \X (1..n))
      /\ Cardinality(Procs \X (1..n)) = Cardinality(Procs) * n
  BY <1>6, FilesAssumption, FS_Product
<1>8. IsFiniteSet(T) /\ Cardinality(T) <= Cardinality(Procs \X (1..n))
  BY <1>5, <1>7, FS_Injection
<1> QED
  BY <1>7, <1>8, FS_CardinalityType

\* Runs can never accept an intent more often than this.
LEMMA QueuesBounded ==
    ASSUME NEW rows \in [Procs -> Seq(Entry)], NEW i,
           \A p \in Procs : Cardinality(Places(rows[p], i)) <= Copies,
           NEW T, \A t \in T : /\ t \in Procs \X Nat
                               /\ t[2] \in Places(rows[t[1]], i)
    PROVE  /\ IsFiniteSet(T) /\ Cardinality(T) \in Nat
           /\ Cardinality(T) <= Cardinality(Procs) * Copies
<1>1. PICK F : F = [p \in Procs |-> Places(rows[p], i)]
  OBVIOUS
<1>2. F \in [Procs -> SUBSET Nat]
  BY <1>1, PlacesFinite
<1>3. \A p \in Procs : IsFiniteSet(F[p]) /\ Cardinality(F[p]) <= Copies
  BY <1>1, PlacesFinite
<1>4. \A t \in T : t \in Procs \X Nat /\ t[2] \in F[t[1]]
  BY <1>1
<1>5. Copies \in Nat
  BY BoundsAssumption
<1> QED
  BY <1>2, <1>3, <1>4, <1>5, GridBound

LEMMA TokensBounded ==
    ASSUME WTypeOK, FewCopies, NEW i \in Intents
    PROVE  /\ IsFiniteSet(Tokens(i)) /\ Cardinality(Tokens(i)) \in Nat
           /\ Cardinality(Tokens(i)) <= Cardinality(Procs) * Copies
<1>1. /\ queue \in [Procs -> Seq(Entry)]
      /\ \A p \in Procs : Cardinality(Places(queue[p], i)) <= Copies
  BY DEF WTypeOK, FewCopies
<1>2. \A t \in Tokens(i) : t \in Procs \X Nat /\ t[2] \in Places(queue[t[1]], i)
  BY DEF Tokens
<1> QED
  BY <1>1, <1>2, QueuesBounded

\* The allowance in figures: a failed read adds one run's worth.
LEMMA Allowed ==
    ASSUME WTypeOK, WTypeOK'
    PROVE  /\ Allowance \in Nat /\ Allowance' \in Nat
           /\ Cardinality(Procs) * Copies <= Allowance
           /\ Cardinality(Procs) * Copies <= Allowance'
           /\ misreads' = misreads => Allowance' = Allowance
           /\ misreads' = misreads + 1 => Allowance' = Allowance + Copies
<1>1. PICK n \in Nat : n = Cardinality(Procs)
  BY FilesAssumption, FS_CardinalityType
<1>2. PICK c \in Nat : c = Copies
  BY BoundsAssumption
<1>3. PICK m \in Nat, k \in Nat : m = misreads /\ k = misreads'
  BY DEF WTypeOK
<1>4. /\ (n + m) * c \in Nat /\ (n + k) * c \in Nat
      /\ n * c <= (n + m) * c /\ n * c <= (n + k) * c
      /\ k = m + 1 => (n + k) * c = (n + m) * c + c
  OBVIOUS
<1> QED
  BY <1>1, <1>2, <1>3, <1>4 DEF Allowance

\* No streak grows and no run gets more to accept.
LEMMA CoverageKept ==
    ASSUME SInv, WInv', FewCopies', misreads' = misreads,
           \A i \in Intents : /\ streak'[i] <= streak[i]
                               /\ \/ Tokens(i)' \in SUBSET Tokens(i)
                                  \/ streak'[i] = 0
    PROVE  Covered'
<1> SUFFICES ASSUME NEW i \in Intents
             PROVE  streak'[i] + Cardinality(Tokens(i)')
                      <= Allowance'
  BY DEF Covered
<1>1. streak[i] \in Nat /\ streak'[i] \in Nat
  BY DEF SInv, WInv, WTypeOK
<1>2. /\ IsFiniteSet(Tokens(i)) /\ Cardinality(Tokens(i)) \in Nat
      /\ streak[i] + Cardinality(Tokens(i)) <= Allowance
  BY TokensBounded DEF SInv, WInv, Covered
<1>3. /\ Allowance \in Nat /\ Allowance' = Allowance
      /\ Cardinality(Procs) * Copies <= Allowance
      /\ Cardinality(Procs) * Copies \in Nat
  <2>1. Cardinality(Procs) \in Nat /\ Copies \in Nat
    BY FilesAssumption, BoundsAssumption, FS_CardinalityType
  <2>2. Cardinality(Procs) * Copies \in Nat
    BY <2>1
  <2> QED
    BY <2>2, Allowed DEF SInv, WInv
<1>4. CASE Tokens(i)' \in SUBSET Tokens(i)
  <2>1. /\ Cardinality(Tokens(i)') <= Cardinality(Tokens(i))
        /\ Cardinality(Tokens(i)') \in Nat
    BY <1>2, <1>4, FS_Subset, FS_CardinalityType
  <2>2. streak'[i] <= streak[i]
    OBVIOUS
  <2> QED
    BY <1>1, <1>2, <1>3, <2>1, <2>2
<1>5. CASE streak'[i] = 0
  <2>1. /\ queue' \in [Procs -> Seq(Entry)]
        /\ \A p \in Procs : Cardinality(Places(queue'[p], i)) <= Copies
    BY DEF WInv, WTypeOK, FewCopies
  <2>2. \A t \in Tokens(i)' : /\ t \in Procs \X Nat
                              /\ t[2] \in Places(queue'[t[1]], i)
    BY DEF Tokens
  <2>3. /\ Cardinality(Tokens(i)') <= Cardinality(Procs) * Copies
        /\ Cardinality(Tokens(i)') \in Nat
    BY <2>1, <2>2, QueuesBounded
  <2> QED
    BY <1>3, <1>5, <2>3
<1> QED
  BY <1>4, <1>5

LEMMA SInitEstablishes == ASSUME WInit PROVE SInv
<1>1. WInv
  BY InitEstablishes
<1>2. Streaks /\ Undecided
  BY DEF WInit, Streaks, Undecided
<1>3. Cardinality({}) = 0 /\ Copies \in Nat
  BY FS_EmptySet, BoundsAssumption
<1>4. FewCopies
  <2>1. \A i : Occurrences(<<>>, i) = {} /\ Places(<<>>, i) = {}
    BY DEF Occurrences, Places
  <2>2. \A i : /\ Cardinality(Occurrences(<<>>, i)) <= Copies
               /\ Cardinality(Places(<<>>, i)) <= Copies
    <3> TAKE i
    <3>1. /\ Cardinality(Occurrences(<<>>, i)) = 0
          /\ Cardinality(Places(<<>>, i)) = 0
      BY <1>3, <2>1, Zenon
    <3> QED
      BY <1>3, <3>1
  <2>3. file = <<>> /\ \A p \in Procs : queue[p] = <<>>
    BY DEF WInit
  <2> QED
    BY <2>2, <2>3 DEF FewCopies
<1>5. Covered
  <2>1. \A i : Tokens(i) = {}
    BY DEF WInit, Tokens
  <2>2. Cardinality(Procs) \in Nat
    BY FilesAssumption, FS_CardinalityType
  <2>3. Allowance \in Nat
    BY <1>3, <2>2 DEF Allowance, WInit
  <2>4. \A i \in Intents : streak[i] = 0 /\ Cardinality(Tokens(i)) = 0
    BY <1>3, <2>1 DEF WInit
  <2> QED
    BY <2>3, <2>4 DEF Covered
<1> QED
  BY <1>1, <1>2, <1>4, <1>5 DEF SInv

\* The producer only ever writes one of the files.
LEMMA SWriteKeeps ==
    ASSUME SInv, NEW f \in Files, WriteIntents(f) PROVE SInv'
<1>1. WInv'
  BY WriteIntentsKeeps DEF SInv
<1>2. /\ file' = f
      /\ UNCHANGED <<last, streak, misreads, pc, queue, existing, result>>
  BY DEF WriteIntents
<1>3. FewCopies'
  BY <1>2, CopiesAssumption DEF SInv, FewCopies, Occurrences
<1>4. Streaks' /\ Undecided'
  BY <1>2 DEF SInv, Streaks, Undecided
<1>5. \A i \in Intents : Tokens(i)' = Tokens(i)
  BY <1>2 DEF Tokens
<1>6. \A i \in Intents : streak'[i] <= streak[i]
  BY <1>2 DEF SInv, WInv, WTypeOK
<1>7. Covered'
  BY <1>1, <1>2, <1>3, <1>5, <1>6, CoverageKept
<1> QED
  BY <1>1, <1>3, <1>4, <1>7 DEF SInv

LEMMA SLoadKeeps ==
    ASSUME SInv, NEW p \in Procs, LoadIntents(p) PROVE SInv'
<1>1. WInv'
  BY LoadKeeps DEF SInv
<1>2. PICK n \in 0..Len(file) :
         n = IF MaxIntents < Len(file) THEN MaxIntents ELSE Len(file)
  <2>1. file \in Seq(Entry) /\ Len(file) \in Nat
    BY DEF SInv, WInv, WTypeOK
  <2> QED
    BY <2>1, BoundsAssumption
<1>3. PICK rows : rows = SubSeq(file, 1, n)
  OBVIOUS
<1>4. /\ UNCHANGED <<file, last, streak, misreads, existing, result>>
      /\ pc[p] = "idle" /\ result[p] = "none"
      /\ pc'[p] = "loaded" /\ queue'[p] = rows
      /\ \A q \in Procs \ {p} : pc'[q] = pc[q] /\ queue'[q] = queue[q]
  BY <1>2, <1>3 DEF LoadIntents, SInv, WInv, WTypeOK, Pending
<1>5. FewCopies'
  <2>1. file \in Seq(Entry) /\ rows \in Seq(Entry) /\ Copies \in Nat
    BY <1>1, <1>4, BoundsAssumption DEF SInv, WInv, WTypeOK
  <2>2. ASSUME NEW i \in Intents
        PROVE  Cardinality(Places(rows, i)) <= Copies
    <3>1. Cardinality(Places(rows, i)) <= Cardinality(Occurrences(file, i))
      BY <1>3, <2>1, PrefixPlaces
    <3>2. Cardinality(Occurrences(file, i)) <= Copies
      BY DEF SInv, FewCopies
    <3>3. /\ Cardinality(Places(rows, i)) \in Nat
          /\ Cardinality(Occurrences(file, i)) \in Nat
      BY <2>1, PlacesFinite
    <3> QED
      BY <2>1, <3>1, <3>2, <3>3
  <2> QED
    BY <1>4, <2>2 DEF SInv, FewCopies
<1>6. Streaks' /\ Undecided'
  BY <1>4 DEF SInv, Streaks, Undecided
<1>7. \A i \in Intents : Tokens(i)' \in SUBSET Tokens(i)
  BY <1>4 DEF Tokens
<1>8. \A i \in Intents : streak'[i] <= streak[i]
  BY <1>4 DEF SInv, WInv, WTypeOK
<1>9. Covered'
  BY <1>1, <1>4, <1>5, <1>7, <1>8, CoverageKept
<1> QED
  BY <1>1, <1>5, <1>6, <1>9 DEF SInv

\* A run that reads the states now sees the streak and adds nothing to it;
\* one that cannot read them adds at most its own copies.
LEMMA SReadKeeps ==
    ASSUME SInv, NEW p \in Procs, ReadExistingIntentStates(p) PROVE SInv'
<1>1. WInv'
  BY LoadKeeps DEF SInv
<1>2. /\ UNCHANGED <<file, last, streak, queue, result>>
      /\ pc[p] = "loaded" /\ result[p] = "none" /\ pc'[p] = "loop"
      /\ \A q \in Procs \ {p} : pc'[q] = pc[q] /\ existing'[q] = existing[q]
      /\ \/ existing'[p] = last /\ misreads' = misreads
         \/ misreads' = misreads + 1
  BY DEF ReadExistingIntentStates, SInv, WInv, WTypeOK, Pending
<1>3. FewCopies' /\ Streaks'
  BY <1>2 DEF SInv, FewCopies, Streaks
<1>4. Undecided'
  BY <1>2 DEF SInv, Undecided
<1>5. ASSUME existing'[p] = last, misreads' = misreads PROVE Covered'
  <2>1. ASSUME NEW i \in Intents
        PROVE  /\ streak'[i] <= streak[i]
               /\ Tokens(i)' \in SUBSET Tokens(i) \/ streak'[i] = 0
    <3>1. streak[i] \in Nat /\ streak'[i] = streak[i]
      BY <1>2 DEF SInv, WInv, WTypeOK
    <3>2. CASE streak[i] > 0
      <4>1. last[i] \in AlreadyProcessed
        BY <3>2 DEF SInv, Streaks
      <4>2. Tokens(i)' \in SUBSET Tokens(i)
        BY <1>2, <1>5, <4>1 DEF Tokens
      <4> QED
        BY <3>1, <4>2
    <3> QED
      BY <3>1, <3>2
  <2> QED
    BY <1>1, <1>3, <1>5, <2>1, CoverageKept
<1>6. ASSUME misreads' = misreads + 1 PROVE Covered'
  <2> SUFFICES ASSUME NEW i \in Intents
               PROVE  streak'[i] + Cardinality(Tokens(i)') <= Allowance'
    BY DEF Covered
  <2>1. PICK own : own = {p} \X Places(queue[p], i)
    OBVIOUS
  <2>2. /\ IsFiniteSet(Places(queue[p], i))
        /\ Cardinality(Places(queue[p], i)) \in Nat
        /\ Cardinality(Places(queue[p], i)) <= Copies
    BY PlacesFinite DEF SInv, WInv, WTypeOK, FewCopies
  <2>3. IsFiniteSet({p}) /\ Cardinality({p}) = 1
    BY FS_Singleton
  <2>4. IsFiniteSet(own) /\ Cardinality(own) = Cardinality(Places(queue[p], i))
    <3>1. /\ IsFiniteSet(own)
          /\ Cardinality(own) = Cardinality({p}) * Cardinality(Places(queue[p], i))
      BY <2>1, <2>2, <2>3, FS_Product
    <3> QED
      BY <2>2, <2>3, <3>1
  <2>5. /\ IsFiniteSet(Tokens(i)) /\ Cardinality(Tokens(i)) \in Nat
        /\ streak[i] + Cardinality(Tokens(i)) <= Allowance
    BY TokensBounded DEF SInv, WInv, Covered
  <2>6. Tokens(i)' \in SUBSET (Tokens(i) \cup own)
    <3> SUFFICES ASSUME NEW t \in Tokens(i)' PROVE t \in Tokens(i) \cup own
      OBVIOUS
    <3>1. /\ t \in Procs \X Nat /\ t = <<t[1], t[2]>>
          /\ pc'[t[1]] = "loop" /\ existing'[t[1]][i] \notin AlreadyProcessed
          /\ t[2] \in Places(queue[t[1]], i)
      BY <1>2 DEF Tokens
    <3>2. CASE t[1] = p
      BY <2>1, <3>1, <3>2
    <3>3. CASE t[1] # p
      BY <1>2, <3>1, <3>3 DEF Tokens
    <3> QED
      BY <3>2, <3>3
  <2>7. /\ IsFiniteSet(Tokens(i) \cup own)
        /\ Cardinality(Tokens(i) \cup own) <= Cardinality(Tokens(i)) + Cardinality(own)
        /\ Cardinality(Tokens(i) \cup own) \in Nat
    <3>1. /\ IsFiniteSet(Tokens(i) \cup own) /\ IsFiniteSet(Tokens(i) \cap own)
          /\ Cardinality(Tokens(i) \cup own) = Cardinality(Tokens(i))
               + Cardinality(own) - Cardinality(Tokens(i) \cap own)
      BY <2>4, <2>5, FS_Union, FS_Intersection
    <3>2. /\ Cardinality(Tokens(i) \cap own) \in Nat
          /\ Cardinality(own) \in Nat
      BY <2>2, <2>4, <3>1, FS_CardinalityType
    <3>3. Cardinality(Tokens(i) \cup own) \in Nat
      BY <3>1, FS_CardinalityType
    <3> QED
      BY <2>5, <3>1, <3>2, <3>3
  <2>8. /\ Cardinality(Tokens(i)') <= Cardinality(Tokens(i) \cup own)
        /\ Cardinality(Tokens(i)') \in Nat
    BY <2>6, <2>7, FS_Subset, FS_CardinalityType
  <2>9. /\ Allowance \in Nat /\ Allowance' = Allowance + Copies
        /\ streak'[i] = streak[i] /\ streak[i] \in Nat /\ Copies \in Nat
    BY <1>1, <1>2, <1>6, Allowed, BoundsAssumption DEF SInv, WInv, WTypeOK
  <2> QED
    BY <2>2, <2>4, <2>5, <2>7, <2>8, <2>9
<1>7. Covered'
  BY <1>2, <1>5, <1>6
<1> QED
  BY <1>1, <1>3, <1>4, <1>7 DEF SInv

\* What a row of the worker ledger does to the queues.
LEMMA HeadDone ==
    ASSUME SInv, WInv', NEW p \in Procs, queue[p] # <<>>,
           queue' = [queue EXCEPT ![p] = Tail(queue[p])],
           UNCHANGED <<file, pc, existing>>
    PROVE  /\ FewCopies'
           /\ \A i \in Intents :
                 /\ Tokens(i)' \in SUBSET Tokens(i)
                 /\ <<p, Len(queue[p]) - 1>> \notin Tokens(i)'
<1>1. queue[p] \in Seq(Entry) /\ queue'[p] = Tail(queue[p])
      /\ \A q \in Procs \ {p} : queue'[q] = queue[q]
  BY DEF SInv, WInv, WTypeOK
<1>2. \A i : /\ Places(queue'[p], i) \in SUBSET Places(queue[p], i)
             /\ Len(queue[p]) - 1 \notin Places(queue'[p], i)
  BY <1>1, TailPlaces
<1>3. ASSUME NEW i \in Intents
      PROVE  Cardinality(Places(queue'[p], i)) <= Copies
  <2>1. /\ IsFiniteSet(Places(queue[p], i))
        /\ Cardinality(Places(queue[p], i)) \in Nat
        /\ Cardinality(Places(queue[p], i)) <= Copies
    BY <1>1, PlacesFinite DEF SInv, FewCopies
  <2>2. /\ Cardinality(Places(queue'[p], i)) <= Cardinality(Places(queue[p], i))
        /\ Cardinality(Places(queue'[p], i)) \in Nat
    BY <1>2, <2>1, FS_Subset, FS_CardinalityType
  <2> QED
    BY <2>1, <2>2, BoundsAssumption
<1>4. FewCopies'
  BY <1>1, <1>3 DEF SInv, FewCopies
<1>5. \A i \in Intents : /\ Tokens(i)' \in SUBSET Tokens(i)
                         /\ <<p, Len(queue[p]) - 1>> \notin Tokens(i)'
  BY <1>1, <1>2 DEF Tokens
<1> QED
  BY <1>4, <1>5

\* Any row other than an acceptance ends the streak.
LEMMA SRefuseKeeps ==
    ASSUME SInv, NEW p \in Procs, SkipDuplicate(p) \/ RejectInvalid(p)
    PROVE  SInv'
<1>1. WInv'
  BY RefuseKeeps DEF SInv
<1>2. PICK i \in Intents : i = Head(queue[p]).id
  BY HeadTyped DEF SkipDuplicate, RejectInvalid, SInv, WInv
<1>3. PICK state \in {"DUPLICATE_SKIPPED", "DRY_RUN_REJECTED"} :
         AppendWorkerLedger(p, i, state)
  BY <1>2 DEF SkipDuplicate, RejectInvalid
<1>4. /\ queue[p] # <<>> /\ result[p] = "none"
      /\ UNCHANGED <<file, misreads, pc, existing, result>>
      /\ queue' = [queue EXCEPT ![p] = Tail(queue[p])]
      /\ last' = [last EXCEPT ![i] = state]
      /\ streak' = [streak EXCEPT ![i] = 0]
  BY <1>3 DEF SkipDuplicate, RejectInvalid, AppendWorkerLedger
<1>5. /\ FewCopies'
      /\ \A k \in Intents : Tokens(k)' \in SUBSET Tokens(k)
  BY <1>1, <1>4, HeadDone
<1>6. \A k \in Intents : streak'[k] <= streak[k]
  BY <1>4 DEF SInv, WInv, WTypeOK
<1>7. Streaks'
  BY <1>4 DEF SInv, WInv, WTypeOK, Streaks
<1>8. Undecided'
  BY <1>4 DEF SInv, WInv, WTypeOK, Undecided
<1>9. Covered'
  BY <1>1, <1>4, <1>5, <1>6, CoverageKept
<1> QED
  BY <1>1, <1>5, <1>7, <1>8, <1>9 DEF SInv

LEMMA SExecuteKeeps ==
    ASSUME SInv, NEW p \in Procs, NEW forceDryRun \in BOOLEAN,
           ExecuteIntent(p, forceDryRun)
    PROVE  SInv'
<1>1. WInv'
  BY ExecuteKeeps DEF SInv
<1>2. /\ UNCHANGED <<file, last, streak, misreads, pc, queue, existing>>
      /\ existing[p][Head(queue[p]).id] \notin AlreadyProcessed
      /\ \A q \in Procs \ {p} : result'[q] = result[q]
  BY DEF ExecuteIntent, SInv, WInv, WTypeOK
<1>3. FewCopies' /\ Streaks'
  BY <1>2 DEF SInv, FewCopies, Streaks
<1>4. Undecided'
  BY <1>2 DEF SInv, Undecided
<1>5. \A i \in Intents : Tokens(i)' = Tokens(i) /\ streak'[i] <= streak[i]
  BY <1>2 DEF SInv, WInv, WTypeOK, Tokens
<1>6. Covered'
  BY <1>1, <1>2, <1>3, <1>5, CoverageKept
<1> QED
  BY <1>1, <1>3, <1>4, <1>6 DEF SInv

\* An acceptance uses up the place of the intent it is for.
LEMMA SRecordKeeps ==
    ASSUME SInv, NEW p \in Procs, RecordResult(p) PROVE SInv'
<1>1. WInv'
  BY RecordKeeps DEF SInv
<1>2. /\ result[p] # "none" /\ pc[p] = "loop" /\ queue[p] # <<>>
      /\ existing[p][Head(queue[p]).id] \notin AlreadyProcessed
  BY DEF RecordResult, SInv, WInv, Pending, Undecided
<1>3. PICK i \in Intents : i = Head(queue[p]).id
  BY <1>2, HeadTyped DEF SInv, WInv
<1>4. PICK hit \in BOOLEAN : hit <=> result[p] = "DRY_RUN_ACCEPTED"
  OBVIOUS
<1>5. /\ UNCHANGED <<file, misreads, pc, existing>>
      /\ queue' = [queue EXCEPT ![p] = Tail(queue[p])]
      /\ last' = [last EXCEPT ![i] = result[p]]
      /\ streak' = [streak EXCEPT ![i] = IF hit THEN streak[i] + 1 ELSE 0]
      /\ result' = [result EXCEPT ![p] = "none"]
  BY <1>3, <1>4 DEF RecordResult, AppendWorkerLedger
<1>6. /\ FewCopies'
      /\ \A k \in Intents : /\ Tokens(k)' \in SUBSET Tokens(k)
                             /\ <<p, Len(queue[p]) - 1>> \notin Tokens(k)'
  BY <1>1, <1>2, <1>5, HeadDone
<1>7. Streaks'
  <2>1. hit => last'[i] \in AlreadyProcessed
    BY <1>4, <1>5 DEF AlreadyProcessed, SInv, WInv, WTypeOK
  <2>2. ~hit => streak'[i] = 0
    BY <1>5 DEF SInv, WInv, WTypeOK
  <2>3. \A k \in Intents \ {i} : last'[k] = last[k] /\ streak'[k] = streak[k]
    BY <1>5 DEF SInv, WInv, WTypeOK
  <2> QED
    BY <2>1, <2>2, <2>3 DEF SInv, Streaks
<1>8. Undecided'
  BY <1>5 DEF SInv, WInv, WTypeOK, Undecided
<1>9. Covered'
  <2>1. CASE ~hit
    <3>1. \A k \in Intents : streak'[k] <= streak[k]
      BY <1>5, <2>1 DEF SInv, WInv, WTypeOK
    <3> QED
      BY <1>1, <1>5, <1>6, <3>1, CoverageKept
  <2>2. ASSUME hit, NEW k \in Intents
        PROVE  streak'[k] + Cardinality(Tokens(k)')
                 <= Allowance'
    <3>1. /\ IsFiniteSet(Tokens(k)) /\ Cardinality(Tokens(k)) \in Nat
          /\ streak[k] + Cardinality(Tokens(k)) <= Allowance
      BY TokensBounded DEF SInv, WInv, Covered
    <3>2. /\ streak[k] \in Nat
          /\ streak'[k] = IF k = i THEN streak[k] + 1 ELSE streak[k]
      BY <1>5, <2>2 DEF SInv, WInv, WTypeOK
    <3>3. Allowance \in Nat /\ Allowance' = Allowance
      BY <1>1, <1>5, Allowed DEF SInv, WInv
    <3>4. CASE k = i
      <4>1. PICK t : t = <<p, Len(queue[p]) - 1>>
        OBVIOUS
      <4>2. /\ Len(queue[p]) - 1 \in Places(queue[p], k)
            /\ Len(queue[p]) - 1 \in Nat
        BY <1>2, <1>3, <3>4, TailPlaces DEF SInv, WInv, WTypeOK
      <4>3. t \in Tokens(k)
        BY <1>2, <1>3, <3>4, <4>1, <4>2 DEF Tokens
      <4>4. Tokens(k)' \in SUBSET (Tokens(k) \ {t})
        BY <1>6, <4>1
      <4>5. /\ IsFiniteSet(Tokens(k) \ {t})
            /\ Cardinality(Tokens(k) \ {t}) = Cardinality(Tokens(k)) - 1
        BY <3>1, <4>3, FS_RemoveElement
      <4>6. /\ Cardinality(Tokens(k)') <= Cardinality(Tokens(k)) - 1
            /\ Cardinality(Tokens(k)') \in Nat
        BY <4>4, <4>5, FS_Subset, FS_CardinalityType
      <4> QED
        BY <3>1, <3>2, <3>3, <3>4, <4>6
    <3>5. CASE k # i
      <4>1. /\ Cardinality(Tokens(k)') <= Cardinality(Tokens(k))
            /\ Cardinality(Tokens(k)') \in Nat
        BY <1>6, <3>1, FS_Subset, FS_CardinalityType
      <4> QED
        BY <3>1, <3>2, <3>3, <3>5, <4>1
    <3> QED
      BY <3>4, <3>5
  <2> QED
    BY <2>1, <2>2 DEF Covered
<1> QED
  BY <1>1, <1>6, <1>7, <1>8, <1>9 DEF SInv

LEMMA SEndKeeps ==
    ASSUME SInv, NEW p \in Procs, WriteOutput(p) \/ Crash(p) PROVE SInv'
<1>1. WInv'
  BY EndKeeps DEF SInv
<1>2. /\ UNCHANGED <<file, last, streak, misreads>>
      /\ pc'[p] = "idle" /\ queue'[p] = <<>> /\ result'[p] = "none"
      /\ \A q \in Procs \ {p} :
            /\ pc'[q] = pc[q] /\ queue'[q] = queue[q]
            /\ existing'[q] = existing[q] /\ result'[q] = result[q]
  BY DEF WriteOutput, Crash, Reset, SInv, WInv, WTypeOK
<1>3. FewCopies'
  <2>1. \A i : Places(<<>>, i) = {}
    BY DEF Places
  <2>2. Cardinality({}) = 0 /\ Copies \in Nat
    BY FS_EmptySet, BoundsAssumption
  <2>3. \A i : Cardinality(Places(queue'[p], i)) <= Copies
    <3> TAKE i
    <3>1. Cardinality(Places(<<>>, i)) = 0
      BY <2>1, <2>2, Zenon
    <3> QED
      BY <1>2, <2>2, <3>1
  <2> QED
    BY <1>2, <2>3 DEF SInv, FewCopies
<1>4. Streaks' /\ Undecided'
  BY <1>2 DEF SInv, Streaks, Undecided
<1>5. \A i \in Intents : Tokens(i)' \in SUBSET Tokens(i)
  BY <1>2 DEF Tokens
<1>6. \A i \in Intents : streak'[i] <= streak[i]
  BY <1>2 DEF SInv, WInv, WTypeOK
<1>7. Covered'
  BY <1>1, <1>2, <1>3, <1>5, <1>6, CoverageKept
<1> QED
  BY <1>1, <1>3, <1>4, <1>7 DEF SInv

LEMMA SStepKeeps == ASSUME SInv, [WNext]_wvars PROVE SInv'
<1>1. ASSUME NEW f \in Files, WriteIntents(f) PROVE SInv'
  BY <1>1, SWriteKeeps
<1>2. ASSUME NEW p \in Procs, LoadIntents(p) PROVE SInv'
  BY <1>2, SLoadKeeps
<1>3. ASSUME NEW p \in Procs, ReadExistingIntentStates(p) PROVE SInv'
  BY <1>3, SReadKeeps
<1>4. ASSUME NEW p \in Procs, SkipDuplicate(p) \/ RejectInvalid(p)
      PROVE  SInv'
  BY <1>4, SRefuseKeeps
<1>5. ASSUME NEW p \in Procs, NEW force \in BOOLEAN, ExecuteIntent(p, force)
      PROVE  SInv'
  BY <1>5, SExecuteKeeps
<1>6. ASSUME NEW p \in Procs, RecordResult(p) PROVE SInv'
  BY <1>6, SRecordKeeps
<1>7. ASSUME NEW p \in Procs, WriteOutput(p) \/ Crash(p) PROVE SInv'
  BY <1>7, SEndKeeps
<1>8. CASE UNCHANGED wvars
  <2>1. WInv'
    BY <1>8, WStepKeeps DEF SInv
  <2>2. \A i \in Intents : Tokens(i)' = Tokens(i)
    BY <1>8 DEF wvars, Tokens
  <2>3. FewCopies' /\ Streaks' /\ Undecided' /\ Covered'
    BY <1>8, <2>2 DEF wvars, SInv, FewCopies, Streaks, Undecided, Covered,
                      Allowance
  <2> QED
    BY <2>1, <2>3 DEF SInv
<1> QED
  BY <1>1, <1>2, <1>3, <1>4, <1>5, <1>6, <1>7, <1>8 DEF WNext

\* However runs overlap, die and repeat intents, no intent is accepted more
\* often in a row than all the runs together can hold copies of it, and a run
\* more for each read of the ledger that failed.
THEOREM StreaksAreBounded == WSpec => []StreakBounded
<1>1. SInv => StreakBounded
  <2> SUFFICES ASSUME SInv, NEW i \in Intents PROVE streak[i] <= Allowance
    BY DEF StreakBounded
  <2>1. /\ Cardinality(Tokens(i)) \in Nat
        /\ streak[i] + Cardinality(Tokens(i)) <= Allowance
    BY TokensBounded DEF SInv, WInv, Covered
  <2>2. streak[i] \in Nat
    BY DEF SInv, WInv, WTypeOK
  <2>3. Allowance \in Nat
    <3>1. Cardinality(Procs) \in Nat /\ Copies \in Nat /\ misreads \in Nat
      BY FilesAssumption, BoundsAssumption, FS_CardinalityType
         DEF SInv, WInv, WTypeOK
    <3> QED
      BY <3>1 DEF Allowance
  <2> QED
    BY <2>1, <2>2, <2>3
<1> QED
  BY <1>1, SInitEstablishes, SStepKeeps, PTL DEF WSpec
-----------------------------------------------------------------------------
(* The summary of a run counts rows that are in the ledger already.        *)

Reported ==
    /\ IsFiniteSet(AcceptanceRows)
    /\ output.accepted <= Cardinality(AcceptanceRows)
    /\ \A p \in Procs : summary[p].accepted <= Cardinality(AcceptanceRows)

\* The inductive invariant.
OInv == WInv /\ Reported

LEMMA RowsAre ==
    /\ \A r : r \in AcceptanceRows
               <=> \E i \in Intents : \E k \in 1..accepted[i] : r = <<i, k>>
    /\ \A r : r \in AcceptanceRows'
               <=> \E i \in Intents : \E k \in 1..accepted'[i] : r = <<i, k>>
BY DEF AcceptanceRows

\* One more acceptance is one more row.
LEMMA OneMoreRow ==
    ASSUME WTypeOK, IsFiniteSet(AcceptanceRows), NEW i \in Intents,
           accepted' = [accepted EXCEPT ![i] = accepted[i] + 1]
    PROVE  /\ IsFiniteSet(AcceptanceRows')
           /\ Cardinality(AcceptanceRows') = Cardinality(AcceptanceRows) + 1
<1>1. PICK n \in Nat : n = accepted[i]
  BY DEF WTypeOK
<1>2. accepted'[i] = n + 1 /\ \A k \in Intents \ {i} : accepted'[k] = accepted[k]
  BY <1>1 DEF WTypeOK
<1>3. <<i, n + 1>> \notin AcceptanceRows
  <2> SUFFICES ASSUME <<i, n + 1>> \in AcceptanceRows PROVE FALSE
    OBVIOUS
  <2>1. PICK k \in Intents :
           \E m \in 1..accepted[k] : <<i, n + 1>> = <<k, m>>
    BY RowsAre
  <2>2. PICK m \in 1..accepted[k] : <<i, n + 1>> = <<k, m>>
    BY <2>1
  <2>3. k = i /\ m = n + 1
    BY <2>2
  <2> QED
    BY <1>1, <2>3
<1>4. AcceptanceRows' = AcceptanceRows \cup {<<i, n + 1>>}
  <2>1. ASSUME NEW k \in Intents, NEW m \in 1..accepted'[k]
        PROVE  <<k, m>> \in AcceptanceRows \cup {<<i, n + 1>>}
    <3>1. CASE k = i /\ m = n + 1
      BY <3>1
    <3>2. CASE ~(k = i /\ m = n + 1)
      <4>1. m \in 1..accepted[k]
        BY <1>1, <1>2, <3>2
      <4> QED
        BY <4>1, RowsAre
    <3> QED
      BY <3>1, <3>2
  <2>2. ASSUME NEW k \in Intents, NEW m \in 1..accepted[k]
        PROVE  <<k, m>> \in AcceptanceRows'
    <3>1. m \in 1..accepted'[k]
      BY <1>1, <1>2
    <3> QED
      BY <3>1, RowsAre
  <2>3. <<i, n + 1>> \in AcceptanceRows'
    <3>1. n + 1 \in 1..accepted'[i]
      BY <1>2
    <3> QED
      BY <3>1, RowsAre
  <2>4. \A r \in AcceptanceRows' : r \in AcceptanceRows \cup {<<i, n + 1>>}
    BY <2>1, RowsAre
  <2>5. \A r \in AcceptanceRows : r \in AcceptanceRows'
    BY <2>2, RowsAre
  <2> QED
    BY <2>3, <2>4, <2>5
<1> QED
  BY <1>3, <1>4, FS_AddElement

\* A step that records no acceptance.
LEMMA ReportKept ==
    ASSUME OInv, WInv', accepted' = accepted,
           output' = output \/ \E p \in Procs : output' = summary[p],
           \A p \in Procs : summary'[p].accepted \in {0, summary[p].accepted}
    PROVE  OInv'
<1>1. AcceptanceRows' = AcceptanceRows
  BY DEF AcceptanceRows
<1>2. Cardinality(AcceptanceRows) \in Nat
  BY FS_CardinalityType DEF OInv, Reported
<1>3. \A p \in Procs : summary[p].accepted <= Cardinality(AcceptanceRows)
  BY DEF OInv, Reported
<1>4. \A p \in Procs : summary'[p].accepted <= Cardinality(AcceptanceRows)
  BY <1>2, <1>3
<1>5. output'.accepted <= Cardinality(AcceptanceRows)
  BY <1>3 DEF OInv, Reported
<1> QED
  BY <1>1, <1>4, <1>5 DEF OInv, Reported

\* append_worker_ledger and the counter move together.
LEMMA ReportAppended ==
    ASSUME OInv, WInv', NEW p \in Procs, NEW i \in Intents,
           NEW state \in States \ {"none"}, output' = output,
           AppendWorkerLedger(p, i, state)
    PROVE  OInv'
<1>1. PICK c \in {"accepted", "rejected", "skipped"} : c = Column(state)
  BY DEF Column
<1>2. c = "accepted" <=> state = "DRY_RUN_ACCEPTED"
  BY <1>1 DEF Column
<1>3. summary[p] \in Counts /\ summary \in [Procs -> Counts]
  BY DEF OInv, WInv, WTypeOK
<1>4. PICK s : s = [summary[p] EXCEPT ![c] = summary[p][c] + 1]
  OBVIOUS
<1>5. /\ summary'[p] = s
      /\ \A q \in Procs \ {p} : summary'[q] = summary[q]
  BY <1>1, <1>3, <1>4 DEF AppendWorkerLedger
<1>6. s.accepted = IF state = "DRY_RUN_ACCEPTED" THEN summary[p].accepted + 1
                   ELSE summary[p].accepted
  <2>1. CASE c = "accepted"
    BY <1>2, <1>3, <1>4, <2>1 DEF Counts
  <2>2. CASE c # "accepted"
    BY <1>2, <1>3, <1>4, <2>2 DEF Counts
  <2> QED
    BY <2>1, <2>2
<1>7. CASE state = "DRY_RUN_ACCEPTED"
  <2>1. accepted' = [accepted EXCEPT ![i] = accepted[i] + 1]
    BY <1>7 DEF AppendWorkerLedger
  <2>2. /\ IsFiniteSet(AcceptanceRows')
        /\ Cardinality(AcceptanceRows') = Cardinality(AcceptanceRows) + 1
    BY <2>1, OneMoreRow DEF OInv, WInv, Reported
  <2>3. PICK n \in Nat : n = Cardinality(AcceptanceRows)
    BY FS_CardinalityType DEF OInv, Reported
  <2>4. /\ output.accepted \in Nat /\ output.accepted <= n
        /\ \A q \in Procs : /\ summary[q].accepted \in Nat
                            /\ summary[q].accepted <= n
    BY <1>3, <2>3 DEF OInv, WInv, WTypeOK, Counts, Reported
  <2>5. output'.accepted <= n + 1
    BY <2>4
  <2>6. ASSUME NEW q \in Procs PROVE summary'[q].accepted <= n + 1
    <3>1. CASE q = p
      BY <1>5, <1>6, <1>7, <2>4, <3>1
    <3>2. CASE q # p
      BY <1>5, <2>4, <3>2
    <3> QED
      BY <3>1, <3>2
  <2> QED
    BY <2>2, <2>3, <2>5, <2>6 DEF OInv, Reported
<1>8. CASE state # "DRY_RUN_ACCEPTED"
  <2>1. accepted' = accepted
    BY <1>8 DEF AppendWorkerLedger, OInv, WInv, WTypeOK
  <2>2. \A q \in Procs : summary'[q].accepted = summary[q].accepted
    BY <1>5, <1>6, <1>8
  <2> QED
    BY <2>1, <2>2, ReportKept
<1> QED
  BY <1>7, <1>8

LEMMA OStepKeeps == ASSUME OInv, [WNext]_wvars PROVE OInv'
<1> USE DEF OInv
<1>1. WInv'
  BY WStepKeeps
<1>2. ASSUME accepted' = accepted, output' = output, summary' = summary
      PROVE  OInv'
  BY <1>1, <1>2, ReportKept
<1>3. ASSUME NEW f \in Files, WriteIntents(f) PROVE OInv'
  BY <1>2, <1>3 DEF WriteIntents
<1>4. ASSUME NEW p \in Procs, LoadIntents(p) \/ ReadExistingIntentStates(p)
      PROVE  OInv'
  BY <1>2, <1>4 DEF LoadIntents, ReadExistingIntentStates
<1>5. ASSUME NEW p \in Procs, SkipDuplicate(p) \/ RejectInvalid(p)
      PROVE  OInv'
  <2>1. PICK i \in Intents : i = Head(queue[p]).id
    BY <1>5, HeadTyped DEF SkipDuplicate, RejectInvalid, WInv
  <2>2. PICK state \in States \ {"none"} : AppendWorkerLedger(p, i, state)
    BY <1>5, <2>1 DEF SkipDuplicate, RejectInvalid, States
  <2>3. output' = output
    BY <1>5 DEF SkipDuplicate, RejectInvalid
  <2> QED
    BY <1>1, <2>2, <2>3, ReportAppended
<1>6. ASSUME NEW p \in Procs, NEW force \in BOOLEAN, ExecuteIntent(p, force)
      PROVE  OInv'
  BY <1>2, <1>6 DEF ExecuteIntent
<1>7. ASSUME NEW p \in Procs, RecordResult(p) PROVE OInv'
  <2>1. result[p] # "none" /\ queue[p] # <<>>
    BY <1>7 DEF RecordResult, WInv, Pending
  <2>2. PICK i \in Intents : i = Head(queue[p]).id
    BY <2>1, HeadTyped DEF WInv
  <2>3. result[p] \in States \ {"none"}
    BY <2>1 DEF WInv, WTypeOK, States
  <2>4. AppendWorkerLedger(p, i, result[p]) /\ output' = output
    BY <1>7, <2>2 DEF RecordResult
  <2> QED
    BY <1>1, <2>3, <2>4, ReportAppended
<1>8. ASSUME NEW p \in Procs, WriteOutput(p) \/ Crash(p) PROVE OInv'
  <2>1. accepted' = accepted /\ (output' = output \/ output' = summary[p])
    BY <1>8 DEF WriteOutput, Crash
  <2>2. /\ summary'[p].accepted = 0
        /\ \A q \in Procs \ {p} : summary'[q] = summary[q]
    BY <1>8 DEF WriteOutput, Crash, Reset, NoCounts, WInv, WTypeOK
  <2>3. \A q \in Procs : summary'[q].accepted \in {0, summary[q].accepted}
    BY <2>2
  <2> QED
    BY <1>1, <2>1, <2>3, ReportKept
<1>9. CASE UNCHANGED wvars
  BY <1>2, <1>9 DEF wvars
<1> QED
  BY <1>3, <1>4, <1>5, <1>6, <1>7, <1>8, <1>9 DEF WNext

\* Whatever runs overlap or die, the status file claims no acceptance that is
\* not in the worker ledger.
THEOREM OutputIsBacked == WSpec => []OutputBacked
<1>1. WInit => OInv
  <2> SUFFICES ASSUME WInit PROVE OInv
    OBVIOUS
  <2>1. AcceptanceRows = {}
    <3>1. \A i \in Intents : 1..accepted[i] = {}
      BY DEF WInit
    <3> QED
      BY <3>1, RowsAre
  <2>2. IsFiniteSet({}) /\ Cardinality({}) = 0
    BY FS_EmptySet
  <2>3. output.accepted = 0 /\ \A p \in Procs : summary[p].accepted = 0
    BY DEF WInit, NoCounts
  <2> QED
    BY <2>1, <2>2, <2>3, InitEstablishes DEF OInv, Reported
<1>2. OInv => OutputBacked
  BY DEF OInv, Reported, OutputBacked
<1> QED
  BY <1>1, <1>2, OStepKeeps, PTL DEF WSpec
=============================================================================
