------------------------- MODULE MC_PlatformQueue -------------------------
(* Instances of PlatformQueue for TLC.                                     *)
EXTENDS PlatformQueue, TLC

Symmetry == Permutations(Orders) \cup Permutations(Procs)
=============================================================================
