---------------------------- MODULE MCHeartbeat ----------------------------
(***************************************************************************)
(* The heartbeat for TLC, one unit of time being five seconds.  The slow   *)
(* call is checked with the code's 15 and 60 seconds, 3 and 12.  With them *)
(* a call that outlasts join (16 seconds) leaves no room for a failed one  *)
(* (two intervals and two such calls are 62), so the instance that has     *)
(* room for a failure and a join that gives up beats every five seconds.   *)
(***************************************************************************)
EXTENDS Heartbeat

ASSUME InstanceHasSlack == CallMax <= 4 => RoomForOneFailure

ASSUME InstanceGivesUp == CallMax > Interval + 1
=============================================================================
