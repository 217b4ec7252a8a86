---------------------------- MODULE MCApiReplica ----------------------------
(***************************************************************************)
(* An API process for TLC: two requests and one thread, files at, below    *)
(* and above a limit that is not a multiple of the chunk.                  *)
(***************************************************************************)
EXTENDS ApiReplica

ASSUME InstanceMeetsTheLimit ==
    {MaxBytes, MaxBytes + 1} \subseteq FileSizes /\ {Margin, Margin + 1} \subseteq Overheads
=============================================================================
