-------------------------- MODULE MCWorkerProcess --------------------------
(***************************************************************************)
(* The worker process for TLC.  One unit of time is five seconds: the      *)
(* default grace of 30 is 6, the pod's 55 are 11.  A receive that runs     *)
(* into its timeouts outlasts either, so ReceiveMax is beyond both.        *)
(***************************************************************************)
EXTENDS WorkerProcess

ASSUME InstanceHasRoom == RoomForWatchdog

ASSUME InstanceHasSlowReceive == ReceiveMax > KillAfter
=============================================================================
