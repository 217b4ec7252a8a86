------------------------------ MODULE MCLoadGen ------------------------------
(***************************************************************************)
(* A small load run for TLC.                                               *)
(***************************************************************************)
EXTENDS LoadGen
=============================================================================
