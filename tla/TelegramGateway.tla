-------------------------- MODULE TelegramGateway --------------------------
(***************************************************************************)
(* tools/usdjpy_evidence_os/telegram_gateway.py: reports are appended to a *)
(* queue file, at most once per eventId, and a dispatch run sends the ones *)
(* the delivery ledger does not confirm yet.  The fast loop, the heavy     *)
(* task, the API and the other command line tools run it in processes of   *)
(* their own with no lock between them; the loop kills a run after a       *)
(* timeout, also between the message and its ledger row.                   *)
(*                                                                         *)
(* The code compares an event's createdAt with the clock only for "same    *)
(* hour as now", so an entry carries that comparison's result, and the     *)
(* clock striking resets it everywhere.  Only the last LedgerTail rows of  *)
(* the ledger are ever read, so only those are kept.                       *)
(***************************************************************************)
EXTENDS Integers, Sequences, FiniteSets

CONSTANTS
    Events,         \* event ids: digests of the dedupe key
    Scheduled,      \* those whose topic is a scheduled report
    Procs,          \* gateway processes that can overlap
    MaxEvents,      \* MAX_EVENTS_PER_RUN: batch limit and hourly limit
    QueueTail,      \* queue rows a dispatch run reads
    LedgerTail,     \* ledger rows it reads to find what is pending
    CheckTail,      \* ledger rows read before each send
    MaxSends,       \* bound: where the message counters stop counting
    MaxQueue        \* bound: queue rows TLC explores

ASSUME GatewaySets == IsFiniteSet(Procs) /\ Scheduled \subseteq Events
ASSUME GatewayBounds ==
    /\ {MaxEvents, QueueTail, CheckTail, MaxSends} \subseteq Nat \ {0}
    /\ LedgerTail \in Nat /\ CheckTail <= LedgerTail
    /\ MaxQueue \in Nat

VARIABLES
    queue,      \* the queue file
    ledger,     \* the last LedgerTail rows of the delivery ledger
    chat,       \* messages that reached the chat, per event
    receipts,   \* confirmed rows ever appended to the ledger, per event
    sentNow,    \* confirmed messages since the clock struck
    pc,         \* where each process is
    adding,     \* the rows its enqueue found missing from the queue
    batch,      \* the events its dispatch run has left
    send,       \* --send
    outcome     \* what became of the head of the batch

gvars == <<queue, ledger, chat, receipts, sentNow, pc, adding, batch, send,
           outcome>>
-----------------------------------------------------------------------------
Item == [id : Events, fresh : BOOLEAN]
LedgerRow == [id : Events, fresh : BOOLEAN, ok : BOOLEAN]

\* Mutant: one row too many.
LastRowsOffByOne(rows, n) ==
    IF Len(rows) <= n THEN rows ELSE SubSeq(rows, Len(rows) - n, Len(rows))

LastRows(rows, n) ==
    IF Len(rows) <= n THEN rows ELSE SubSeq(rows, Len(rows) - n + 1, Len(rows))

FirstRows(rows, n) == IF Len(rows) <= n THEN rows ELSE SubSeq(rows, 1, n)

Count(n) == IF n < MaxSends THEN n + 1 ELSE n

Confirmed(rows) == {k \in DOMAIN rows : rows[k].ok}

ConfirmedIds(rows) == {rows[k].id : k \in Confirmed(rows)}

GInit ==
    /\ queue = <<>>
    /\ ledger = <<>>
    /\ chat = [e \in Events |-> 0]
    /\ receipts = [e \in Events |-> 0]
    /\ sentNow = 0
    /\ pc = [p \in Procs |-> "idle"]
    /\ adding = [p \in Procs |-> {}]
    /\ batch = [p \in Procs |-> <<>>]
    /\ send = [p \in Procs |-> FALSE]
    /\ outcome = [p \in Procs |-> "none"]
-----------------------------------------------------------------------------
(* enqueue_event: append_jsonl_unique reads every key, then appends.       *)

\* Mutant: a plain append_jsonl.
ReadNoKeys(p, e) ==
    /\ pc[p] = "idle"
    /\ Len(queue) + Cardinality({q \in Procs : pc[q] = "enqueue"}) < MaxQueue
    /\ pc' = [pc EXCEPT ![p] = "enqueue"]
    /\ adding' = [adding EXCEPT ![p] = {[id |-> e, fresh |-> TRUE]}]
    /\ UNCHANGED <<queue, ledger, chat, receipts, sentNow, batch, send, outcome>>

ReadKeys(p, e) ==
    /\ pc[p] = "idle"
    /\ Len(queue) + Cardinality({q \in Procs : pc[q] = "enqueue"}) < MaxQueue
    /\ pc' = [pc EXCEPT ![p] = "enqueue"]
    /\ adding' = [adding EXCEPT ![p] =
                     IF \E k \in DOMAIN queue : queue[k].id = e THEN {}
                     ELSE {[id |-> e, fresh |-> TRUE]}]
    /\ UNCHANGED <<queue, ledger, chat, receipts, sentNow, batch, send, outcome>>

AppendQueue(p) ==
    /\ pc[p] = "enqueue"
    /\ pc' = [pc EXCEPT ![p] = "idle"]
    /\ \/ adding[p] = {} /\ UNCHANGED queue
       \/ \E row \in adding[p] : queue' = Append(queue, row)
    /\ adding' = [adding EXCEPT ![p] = {}]
    /\ UNCHANGED <<ledger, chat, receipts, sentNow, batch, send, outcome>>
-----------------------------------------------------------------------------
(* Dispatching.                                                            *)

\* The rows at these positions, in the order of the file.
Nth(S, n) == CHOOSE k \in S : Cardinality({j \in S : j <= k}) = n

RowsAt(rows, S) == [n \in 1..Cardinality(S) |-> rows[Nth(S, n)]]

\* Mutant: an attempt counts as a delivery.
PendingUntried(topics) ==
    LET rows == LastRows(queue, QueueTail)
        tried == {ledger[k].id : k \in DOMAIN ledger}
    IN  RowsAt(rows, {k \in DOMAIN rows : rows[k].id \in topics \ tried})

Pending(topics) ==
    LET rows == LastRows(queue, QueueTail)
    IN  RowsAt(rows, {k \in DOMAIN rows :
                         rows[k].id \in topics \ ConfirmedIds(ledger)})

StartBatch(p, rows, s) ==
    /\ pc[p] = "idle"
    /\ pc' = [pc EXCEPT ![p] = "dispatch"]
    /\ batch' = [batch EXCEPT ![p] = rows]
    /\ send' = [send EXCEPT ![p] = s]
    /\ UNCHANGED <<queue, ledger, chat, receipts, sentNow, adding, outcome>>

\* dispatch takes every topic; run-once takes the scheduled ones and sends.
DispatchPending(p, topics, limit, s) ==
    StartBatch(p, FirstRows(Pending(topics), limit), s)

\* dispatch_text, and the reports that call dispatch_event themselves: the
\* event was built just now and does not pass through the queue.
DispatchText(p, e, s) == StartBatch(p, <<[id |-> e, fresh |-> TRUE]>>, s)

\* Mutant: only the current hour is looked at.
DuplicateThisHour(e) ==
    LET recent == LastRows(ledger, CheckTail)
    IN  \E k \in Confirmed(recent) : recent[k].id = e /\ recent[k].fresh

Duplicate(e) == e \in ConfirmedIds(LastRows(ledger, CheckTail))

\* Mutant: one event more than the limit.
RateLimitedLate ==
    LET recent == LastRows(ledger, CheckTail)
    IN  Cardinality({k \in Confirmed(recent) : recent[k].fresh}) > MaxEvents

RateLimited ==
    LET recent == LastRows(ledger, CheckTail)
    IN  Cardinality({k \in Confirmed(recent) : recent[k].fresh}) >= MaxEvents

\* dispatch_event reads the ledger twice before it sends: for the event id ...
CheckDuplicate(p) ==
    LET go == send[p] /\ ~Duplicate(Head(batch[p]).id)
    IN  /\ pc[p] = "dispatch" /\ batch[p] # <<>> /\ outcome[p] = "none"
        /\ outcome' = [outcome EXCEPT ![p] = IF go THEN "new" ELSE "skipped"]
        /\ UNCHANGED <<queue, ledger, chat, receipts, sentNow, pc, adding,
                       batch, send>>

\* ... and for the hour's count.
CheckRate(p) ==
    /\ outcome[p] = "new"
    /\ outcome' = [outcome EXCEPT ![p] = IF RateLimited THEN "skipped" ELSE "sending"]
    /\ UNCHANGED <<queue, ledger, chat, receipts, sentNow, pc, adding, batch, send>>

\* Mutant: any attempt to send is a delivery.
DeliveryAttempted(result) == result # "skipped"

\* _delivery_is_confirmed: an answer that says ok and carries a message id.
DeliveryConfirmed(result) == result = "sent"

\* _send_telegram: blocked, refused or never arrived ("failed"); arrived, but
\* the answer was lost or carried no message id ("unconfirmed"); or "sent".
SendTelegram(p, result) ==
    LET e == Head(batch[p]).id
    IN  /\ outcome[p] = "sending"
        /\ outcome' = [outcome EXCEPT ![p] = result]
        /\ chat' = IF result = "failed" THEN chat
                   ELSE [chat EXCEPT ![e] = Count(@)]
        /\ sentNow' = IF DeliveryConfirmed(result) THEN Count(sentNow) ELSE sentNow
        /\ UNCHANGED <<queue, ledger, receipts, pc, adding, batch, send>>

\* _minimal_ledger_row and append_jsonl: the row keeps the event's createdAt.
AppendLedger(p) ==
    LET row == Head(batch[p])
        ok == DeliveryConfirmed(outcome[p])
    IN  /\ outcome[p] \in {"skipped", "failed", "unconfirmed", "sent"}
        /\ ledger' = LastRows(Append(ledger, [id |-> row.id, fresh |-> row.fresh,
                                              ok |-> ok]), LedgerTail)
        /\ receipts' = IF ok THEN [receipts EXCEPT ![row.id] = Count(@)]
                       ELSE receipts
        /\ batch' = [batch EXCEPT ![p] = Tail(@)]
        /\ outcome' = [outcome EXCEPT ![p] = "none"]
        /\ UNCHANGED <<queue, chat, sentNow, pc, adding, send>>

EndRun(p) ==
    /\ pc' = [pc EXCEPT ![p] = "idle"]
    /\ adding' = [adding EXCEPT ![p] = {}]
    /\ batch' = [batch EXCEPT ![p] = <<>>]
    /\ send' = [send EXCEPT ![p] = FALSE]
    /\ outcome' = [outcome EXCEPT ![p] = "none"]
    /\ UNCHANGED <<queue, ledger, chat, receipts, sentNow>>

FinishDispatch(p) == pc[p] = "dispatch" /\ batch[p] = <<>> /\ EndRun(p)

\* run_with_timeout, or a crash.
Kill(p) == pc[p] # "idle" /\ EndRun(p)

Aged(rows) == [k \in DOMAIN rows |-> [rows[k] EXCEPT !.fresh = FALSE]]

\* A new hour begins.
ClockStrikes ==
    /\ queue' = Aged(queue)
    /\ ledger' = Aged(ledger)
    /\ batch' = [p \in Procs |-> Aged(batch[p])]
    /\ adding' = [p \in Procs |-> {[row EXCEPT !.fresh = FALSE] : row \in adding[p]}]
    /\ sentNow' = 0
    /\ UNCHANGED <<chat, receipts, pc, send, outcome>>
-----------------------------------------------------------------------------
Progress(p) ==
    \/ AppendQueue(p)
    \/ CheckDuplicate(p)
    \/ CheckRate(p)
    \/ \E result \in {"failed", "unconfirmed", "sent"} : SendTelegram(p, result)
    \/ AppendLedger(p)
    \/ FinishDispatch(p)

\* run-once --send of the agent loop, which has collected the reports before.
RunOnce(p) == DispatchPending(p, Scheduled, MaxEvents, TRUE)

Call(p) ==
    \/ \E e \in Events : ReadKeys(p, e)
    \/ \E topics \in {Events, Scheduled}, limit \in 1..MaxEvents, s \in BOOLEAN :
           DispatchPending(p, topics, limit, s)
    \/ \E e \in Events, s \in BOOLEAN : DispatchText(p, e, s)

\* Runs that nobody kills.
CalmNext == ClockStrikes \/ \E p \in Procs : Call(p) \/ Progress(p)

GNext == CalmNext \/ \E p \in Procs : Kill(p)

GSpec == GInit /\ [][GNext]_gvars

CalmSpec == GInit /\ [][CalmNext]_gvars

\* Any report may be queued, and only the loop dispatches: messages sent past
\* the queue could use up the limit of every hour, and dispatches by hand could
\* push the loop's receipts out of the rows it reads.
LoopNext ==
    \/ ClockStrikes
    \/ \E p \in Procs : RunOnce(p) \/ Progress(p) \/ \E e \in Events : ReadKeys(p, e)

\* The agent loop starts run-once again and again, which dispatches the
\* scheduled topics only; a started run goes on, hours pass, and Telegram
\* accepts a message that is retried for ever.
DeliverySpec ==
    /\ GInit /\ [][LoopNext]_gvars
    /\ WF_gvars(ClockStrikes)
    /\ \A p \in Procs : WF_gvars(Progress(p))
    /\ SF_gvars(\E p \in Procs : RunOnce(p))
    /\ \A e \in Scheduled :
          SF_gvars(\E p \in Procs : /\ batch[p] # <<>> /\ Head(batch[p]).id = e
                                    /\ SendTelegram(p, "sent"))
-----------------------------------------------------------------------------
GTypeOK ==
    /\ queue \in Seq(Item)
    /\ ledger \in Seq(LedgerRow) /\ Len(ledger) <= LedgerTail
    /\ chat \in [Events -> 0..MaxSends]
    /\ receipts \in [Events -> 0..MaxSends]
    /\ sentNow \in 0..MaxSends
    /\ pc \in [Procs -> {"idle", "enqueue", "dispatch"}]
    /\ adding \in [Procs -> SUBSET Item]
    /\ batch \in [Procs -> Seq(Item)]
    /\ send \in [Procs -> BOOLEAN]
    /\ outcome \in [Procs -> {"none", "new", "skipped", "sending",
                              "failed", "unconfirmed", "sent"}]

\* A confirmed row stands for a message that is in the chat: runs that are
\* killed or overlap lose receipts, they never invent one.
ReceiptsReal == \A e \in Events : receipts[e] <= chat[e]

\* The duplicate test and the row that records a delivery are far apart, so
\* overlapping runs can deliver an event twice; but among the rows the test
\* looks at, an event is confirmed at most once per process.
DuplicatesBounded ==
    \A e \in Events :
        LET recent == LastRows(ledger, CheckTail)
        IN  Cardinality({k \in Confirmed(recent) : recent[k].id = e})
                <= Cardinality(Procs)

\* The hourly limit counts events by the hour they were created in.  For
\* those of the current hour it is overrun by at most one per other process.
FreshRateBounded ==
    LET recent == LastRows(ledger, CheckTail)
    IN  Cardinality({k \in Confirmed(recent) : recent[k].fresh})
            <= MaxEvents + Cardinality(Procs) - 1

\* A racing enqueue may store an event twice, but not more often than there
\* are processes.
QueueNearlyUnique ==
    \A e \in Events :
        Cardinality({k \in DOMAIN queue : queue[k].id = e}) <= Cardinality(Procs)

\* Every scheduled report in the queue is confirmed in the end: one that failed
\* or met the hourly limit is retried, and a delivered one does not hold up
\* those behind it.  Other topics wait for a dispatch the loop never starts.
QueuedIsDelivered ==
    \A e \in Scheduled :
        (\E k \in DOMAIN queue : queue[k].id = e) ~> receipts[e] > 0

\* The limit the gateway announces (_next_eligible_send_at): when an hour's
\* messages are used up the next one goes out in the next hour.
HourlyRateLimit == sentNow <= MaxEvents
=============================================================================
