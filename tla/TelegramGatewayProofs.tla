------------------------ MODULE TelegramGatewayProofs ------------------------
(***************************************************************************)
(* Proofs about TelegramGateway.  Two overlapping enqueues both find that  *)
(* an event is missing and both append it.  The invariant counts the rows  *)
(* an event has together with the processes that are about to add one.     *)
(***************************************************************************)
EXTENDS TelegramGateway, FiniteSetTheorems, TLAPS

Copies(e) == {k \in DOMAIN queue : queue[k].id = e}
Adders(e) == {p \in Procs : \E row \in adding[p] : row.id = e}

\* The inductive invariant.
QInv ==
    /\ queue \in Seq(Item)
    /\ adding \in [Procs -> SUBSET Item]
    /\ \A e \in Events :
         Cardinality(Copies(e)) + Cardinality(Adders(e)) <= Cardinality(Procs)
-----------------------------------------------------------------------------
LEMMA Finite ==
    ASSUME QInv, NEW e
    PROVE  /\ IsFiniteSet(Copies(e)) /\ Cardinality(Copies(e)) \in Nat
           /\ IsFiniteSet(Adders(e)) /\ Cardinality(Adders(e)) \in Nat
           /\ Cardinality(Adders(e)) <= Cardinality(Procs)
           /\ Cardinality(Procs) \in Nat
<1>1. DOMAIN queue = 1..Len(queue) /\ Len(queue) \in Nat
  BY DEF QInv
<1>2. IsFiniteSet(1..Len(queue))
  BY <1>1, FS_Interval
<1>3. IsFiniteSet(Copies(e))
  BY <1>1, <1>2, FS_Subset DEF Copies
<1>4. IsFiniteSet(Adders(e)) /\ Cardinality(Adders(e)) <= Cardinality(Procs)
  BY GatewaySets, FS_Subset DEF Adders
<1> QED
  BY <1>3, <1>4, GatewaySets, FS_CardinalityType

\* A step that adds no row and lets no process want to.
LEMMA NothingAdded ==
    ASSUME QInv, queue' \in Seq(Item), adding' \in [Procs -> SUBSET Item],
           NEW e \in Events, Copies(e)' = Copies(e),
           Adders(e)' \subseteq Adders(e)
    PROVE  Cardinality(Copies(e)') + Cardinality(Adders(e)')
             <= Cardinality(Procs)
<1>1. /\ Cardinality(Adders(e)') <= Cardinality(Adders(e))
      /\ IsFiniteSet(Adders(e)')
  BY Finite, FS_Subset
<1>2. Cardinality(Adders(e)') \in Nat
  BY <1>1, FS_CardinalityType
<1> QED
  BY <1>1, <1>2, Finite DEF QInv

LEMMA ReadKeysKeeps ==
    ASSUME QInv, NEW p \in Procs, NEW e \in Events, ReadKeys(p, e)
    PROVE  QInv'
<1> DEFINE found == \E k \in DOMAIN queue : queue[k].id = e
           rows  == IF found THEN {} ELSE {[id |-> e, fresh |-> TRUE]}
<1>1. queue' = queue /\ adding' = [adding EXCEPT ![p] = rows]
  BY DEF ReadKeys
<1>2. rows \in SUBSET Item /\ \A row \in rows : row.id = e
  BY DEF Item
<1>3. queue' \in Seq(Item) /\ adding' \in [Procs -> SUBSET Item]
  BY <1>1, <1>2 DEF QInv
<1>4. ASSUME NEW d \in Events
      PROVE  Cardinality(Copies(d)') + Cardinality(Adders(d)')
               <= Cardinality(Procs)
  <2>1. Copies(d)' = Copies(d)
    BY <1>1 DEF Copies
  <2>2. CASE d # e \/ found
    <3>1. \A row \in rows : row.id # d
      BY <1>2, <2>2
    <3>2. Adders(d)' \subseteq Adders(d)
      BY <1>1, <3>1 DEF Adders, QInv
    <3> QED
      BY <1>3, <2>1, <3>2, NothingAdded
  <2>3. CASE d = e /\ ~found
    <3>1. Copies(d) = {}
      BY <2>3 DEF Copies
    <3>2. Cardinality(Copies(d)') = 0
      BY <2>1, <3>1, FS_EmptySet
    <3>3. Adders(d)' \subseteq Procs
      BY DEF Adders
    <3>4. /\ Cardinality(Adders(d)') <= Cardinality(Procs)
          /\ Cardinality(Adders(d)') \in Nat
      BY <3>3, GatewaySets, FS_Subset, FS_CardinalityType
    <3> QED
      BY <3>2, <3>4
  <2> QED
    BY <2>2, <2>3
<1> QED
  BY <1>3, <1>4 DEF QInv

LEMMA AppendQueueKeeps ==
    ASSUME QInv, NEW p \in Procs, AppendQueue(p)
    PROVE  QInv'
<1>1. adding' = [adding EXCEPT ![p] = {}]
  BY DEF AppendQueue
<1>2. adding' \in [Procs -> SUBSET Item]
  BY <1>1 DEF QInv
<1>3. \A d : Adders(d)' = Adders(d) \ {p}
  BY <1>1 DEF Adders, QInv
<1>4. CASE UNCHANGED queue
  <2>1. queue' \in Seq(Item)
    BY <1>4 DEF QInv
  <2>2. \A d : Copies(d)' = Copies(d)
    BY <1>4 DEF Copies
  <2>3. \A d \in Events : Cardinality(Copies(d)') + Cardinality(Adders(d)')
                            <= Cardinality(Procs)
    BY <1>2, <1>3, <2>1, <2>2, NothingAdded
  <2> QED
    BY <1>2, <2>1, <2>3 DEF QInv
<1>5. ASSUME NEW row \in adding[p], queue' = Append(queue, row)
      PROVE  QInv'
  <2>1. row \in Item
    BY DEF QInv
  <2>2. /\ queue \in Seq(Item) /\ Len(queue) \in Nat
        /\ DOMAIN queue = 1..Len(queue)
    BY DEF QInv
  <2>3. /\ queue' \in Seq(Item)
        /\ DOMAIN queue' = (DOMAIN queue) \cup {Len(queue) + 1}
        /\ queue'[Len(queue) + 1] = row
        /\ \A k \in DOMAIN queue : queue'[k] = queue[k]
    BY <1>5, <2>1, <2>2
  <2>4. ASSUME NEW d \in Events
        PROVE  Cardinality(Copies(d)') + Cardinality(Adders(d)')
                 <= Cardinality(Procs)
    <3>1. CASE d # row.id
      <4>1. Copies(d)' = Copies(d)
        BY <2>3, <3>1 DEF Copies
      <4> QED
        BY <1>2, <1>3, <2>3, <4>1, NothingAdded
    <3>2. CASE d = row.id
      <4>1. Copies(d)' = Copies(d) \cup {Len(queue) + 1}
        BY <2>3, <3>2 DEF Copies
      <4>2. Len(queue) + 1 \notin Copies(d)
        BY <2>2 DEF Copies
      <4>3. Cardinality(Copies(d)') = Cardinality(Copies(d)) + 1
        BY <4>1, <4>2, Finite, FS_AddElement
      <4>4. p \in Adders(d)
        BY <3>2 DEF Adders
      <4>5. Cardinality(Adders(d)') = Cardinality(Adders(d)) - 1
        BY <1>3, <4>4, Finite, FS_RemoveElement
      <4> QED
        BY <4>3, <4>5, Finite DEF QInv
    <3> QED
      BY <3>1, <3>2
  <2> QED
    BY <1>2, <2>3, <2>4 DEF QInv
<1> QED
  BY <1>4, <1>5 DEF AppendQueue

LEMMA ClockStrikesKeeps == ASSUME QInv, ClockStrikes PROVE QInv'
<1>1. /\ queue' = [k \in DOMAIN queue |-> [queue[k] EXCEPT !.fresh = FALSE]]
      /\ adding' = [p \in Procs |->
                      {[row EXCEPT !.fresh = FALSE] : row \in adding[p]}]
  BY DEF ClockStrikes, Aged
<1>2. /\ queue \in Seq(Item) /\ DOMAIN queue = 1..Len(queue)
      /\ Len(queue) \in Nat /\ \A k \in DOMAIN queue : queue[k] \in Item
  BY DEF QInv
<1>3. \A row \in Item : /\ [row EXCEPT !.fresh = FALSE] \in Item
                        /\ [row EXCEPT !.fresh = FALSE].id = row.id
  BY DEF Item
<1>4. queue' \in Seq(Item)
  <2>1. queue' \in [1..Len(queue) -> Item]
    BY <1>1, <1>2, <1>3
  <2> QED
    BY <1>2, <2>1
<1>5. adding' \in [Procs -> SUBSET Item]
  BY <1>1, <1>3 DEF QInv
<1>6. \A d : Copies(d)' = Copies(d)
  BY <1>1, <1>2, <1>3 DEF Copies
<1>7. \A d : Adders(d)' \subseteq Adders(d)
  <2> SUFFICES ASSUME NEW d, NEW p \in Procs,
                      NEW row \in adding'[p], row.id = d
               PROVE  p \in Adders(d)
    BY DEF Adders
  <2>1. PICK old \in adding[p] : row = [old EXCEPT !.fresh = FALSE]
    BY <1>1
  <2>2. old \in Item
    BY DEF QInv
  <2> QED
    BY <1>3, <2>1, <2>2 DEF Adders
<1>8. \A d \in Events : Cardinality(Copies(d)') + Cardinality(Adders(d)')
                          <= Cardinality(Procs)
  BY <1>4, <1>5, <1>6, <1>7, NothingAdded
<1> QED
  BY <1>4, <1>5, <1>8 DEF QInv

\* Dispatching and ending a run.
LEMMA OthersKeep ==
    ASSUME QInv, queue' = queue,
           adding' = adding
             \/ \E p \in Procs : adding' = [adding EXCEPT ![p] = {}]
    PROVE  QInv'
<1>1. queue' \in Seq(Item) /\ adding' \in [Procs -> SUBSET Item]
  BY DEF QInv
<1>2. \A d : Copies(d)' = Copies(d)
  BY DEF Copies
<1>3. \A d : Adders(d)' \subseteq Adders(d)
  BY DEF Adders, QInv
<1>4. \A d \in Events : Cardinality(Copies(d)') + Cardinality(Adders(d)')
                          <= Cardinality(Procs)
  BY <1>1, <1>2, <1>3, NothingAdded
<1> QED
  BY <1>1, <1>4 DEF QInv

LEMMA GStepKeeps == ASSUME QInv, [GNext]_gvars PROVE QInv'
<1>1. CASE ClockStrikes
  BY <1>1, ClockStrikesKeeps
<1>2. ASSUME NEW p \in Procs, Call(p) \/ Progress(p) \/ Kill(p)
      PROVE  QInv'
  <2>1. ASSUME NEW e \in Events, ReadKeys(p, e) PROVE QInv'
    BY <2>1, ReadKeysKeeps
  <2>2. CASE AppendQueue(p)
    BY <2>2, AppendQueueKeeps
  <2>3. ASSUME NEW rows, NEW s, StartBatch(p, rows, s) PROVE QInv'
    BY <2>3, OthersKeep DEF StartBatch
  <2>4. CASE CheckDuplicate(p) \/ CheckRate(p) \/ AppendLedger(p)
    BY <2>4, OthersKeep DEF CheckDuplicate, CheckRate, AppendLedger
  <2>5. ASSUME NEW result, SendTelegram(p, result) PROVE QInv'
    BY <2>5, OthersKeep DEF SendTelegram
  <2>6. CASE FinishDispatch(p) \/ Kill(p)
    BY <2>6, OthersKeep DEF FinishDispatch, Kill, EndRun
  <2> QED
    BY <1>2, <2>1, <2>2, <2>3, <2>4, <2>5, <2>6
       DEF Call, Progress, DispatchPending, DispatchText
<1>3. CASE UNCHANGED gvars
  BY <1>3, OthersKeep DEF gvars
<1> QED
  BY <1>1, <1>2, <1>3 DEF GNext, CalmNext

\* An event is never more often in the queue than there are processes that
\* can overlap, however enqueues, dispatches, kills and hours interleave.
THEOREM QueueUnique == GSpec => []QueueNearlyUnique
<1>1. GInit => QInv
  <2> SUFFICES ASSUME GInit PROVE QInv
    OBVIOUS
  <2>1. queue = <<>> /\ adding = [p \in Procs |-> {}]
    BY DEF GInit
  <2>2. queue \in Seq(Item) /\ adding \in [Procs -> SUBSET Item]
    BY <2>1
  <2>3. \A e \in Events : Copies(e) = {} /\ Adders(e) = {}
    BY <2>1 DEF Copies, Adders
  <2>4. Cardinality({}) = 0 /\ Cardinality(Procs) \in Nat
    BY GatewaySets, FS_EmptySet, FS_CardinalityType
  <2>5. \A e \in Events : Cardinality(Copies(e)) + Cardinality(Adders(e))
                            <= Cardinality(Procs)
    <3> TAKE e \in Events
    <3>1. Cardinality(Copies(e)) = 0 /\ Cardinality(Adders(e)) = 0
      BY <2>3, <2>4
    <3> QED
      BY <2>4, <3>1
  <2> QED
    BY <2>2, <2>5 DEF QInv
<1>2. QInv /\ [GNext]_gvars => QInv'
  BY GStepKeeps
<1>3. QInv => QueueNearlyUnique
  <2> SUFFICES ASSUME QInv, NEW e \in Events
               PROVE  Cardinality(Copies(e)) <= Cardinality(Procs)
    BY DEF QueueNearlyUnique, Copies
  <2> QED
    BY Finite DEF QInv
<1> QED
  BY <1>1, <1>2, <1>3, PTL DEF GSpec
=============================================================================
