---------------------------- MODULE MC_AgentLoop ----------------------------
(* Instances of AgentLoop for TLC.                                         *)
EXTENDS AgentLoop, TLC

Symmetry == Permutations(Loops) \cup Permutations(Tasks)
=============================================================================
