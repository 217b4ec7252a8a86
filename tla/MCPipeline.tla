----------------------------- MODULE MCPipeline -----------------------------
(***************************************************************************)
(* Small instances of the pipeline for TLC.  Workers are interchangeable,  *)
(* and so are jobs; the liveness runs do not use the symmetry.             *)
(***************************************************************************)
EXTENDS Pipeline, TLC

Symmetry == Permutations(Workers) \cup Permutations(Jobs)
=============================================================================
