---------------------- MODULE MC_ReadinessPipeline ----------------------
(***************************************************************************)
(* Instances of ReadinessPipeline for TLC.  The commands of the chain with *)
(* and without refresh_sources, and the orchestrator over what is saved.   *)
(***************************************************************************)
EXTENDS ReadinessPipeline

\* From the cheapest to the deepest call tree: refreshing commands, and
\* commands over what earlier ones saved.
ReviewTools == {<<"evidence", TRUE>>, <<"lane", FALSE>>,
                <<"contract", FALSE>>, <<"adapter", TRUE>>,
                <<"orchestrator", FALSE>>}

\* One refreshing run of the lane spec.
LaneTools == {<<"lane", TRUE>>}
=============================================================================
