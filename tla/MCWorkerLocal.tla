---------------------------- MODULE MCWorkerLocal ----------------------------
(***************************************************************************)
(* A small instance of the workers with their local state.  Workers are    *)
(* interchangeable.                                                        *)
(***************************************************************************)
EXTENDS WorkerLocal, TLC

Symmetry == Permutations(Workers)
=============================================================================
