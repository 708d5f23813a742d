------------------------- MODULE MC_TelegramGateway -------------------------
(* Instances of TelegramGateway for TLC.                                   *)
EXTENDS TelegramGateway, TLC

Symmetry == Permutations(Procs) \cup Permutations(Events)
=============================================================================
