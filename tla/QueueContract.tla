--------------------------- MODULE QueueContract ---------------------------
(***************************************************************************)
(* What the pending_orders table promises to a reader that opens it at any *)
(* moment: orders enter queued, an operator command or a broker snapshot   *)
(* overwrites a status, and a batch run counts one attempt and reports a   *)
(* simulated acceptance for every order of its batch, all at once or not   *)
(* at all.  There is no intermediate status to see.                        *)
(***************************************************************************)
EXTENDS Naturals

CONSTANT Orders

VARIABLES status, attempts

cvars == <<status, attempts>>

CInit ==
    /\ status = [o \in Orders |-> "absent"]
    /\ attempts = [o \in Orders |-> 0]

Enqueue(o) ==
    /\ status[o] = "absent"
    /\ status' = [status EXCEPT ![o] = "queued"]
    /\ UNCHANGED attempts

Requeue(o) ==
    /\ status[o] # "absent"
    /\ status' = [status EXCEPT ![o] = "queued"]
    /\ attempts' = [attempts EXCEPT ![o] = 0]

Close(o, s) ==
    /\ status[o] # "absent"
    /\ status' = [status EXCEPT ![o] = s]
    /\ UNCHANGED attempts

Observe(S) ==
    /\ status' = [o \in Orders |-> IF o \in S THEN "broker_pending_observed"
                                   ELSE status[o]]
    /\ UNCHANGED attempts

RunBatch(S) ==
    /\ \A o \in S : status[o] # "absent"
    /\ status' = [o \in Orders |-> IF o \in S THEN "dry_run_accepted"
                                   ELSE status[o]]
    /\ attempts' = [o \in Orders |-> IF o \in S THEN attempts[o] + 1
                                     ELSE attempts[o]]

CNext ==
    \/ \E o \in Orders :
           Enqueue(o) \/ Requeue(o) \/ Close(o, "canceled") \/ Close(o, "archived")
    \/ \E S \in SUBSET Orders : Observe(S) \/ RunBatch(S)

CSpec == CInit /\ [][CNext]_cvars
=============================================================================
