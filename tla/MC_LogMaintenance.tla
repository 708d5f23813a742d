------------------------- MODULE MC_LogMaintenance -------------------------
(* Instances of LogMaintenance for TLC.                                    *)
EXTENDS LogMaintenance

Quota(log, ledger, legacy) ==
    [f \in Files |-> CASE f = "log" -> log [] f = "ledger" -> ledger
                        [] f = "legacy" -> legacy]

\* The files do not meet, so one of them at a time gets many lines.
RunQuotas == {Quota(2, 0, 0), Quota(0, 0, 1), Quota(0, 3, 0)}
=============================================================================
