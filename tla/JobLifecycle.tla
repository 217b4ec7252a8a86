---------------------------- MODULE JobLifecycle ----------------------------
(***************************************************************************)
(* What the pipeline promises about a job, without saying how: a record    *)
(* appears PENDING and never disappears; a job is tracked (some message    *)
(* for it is on the queue or parked) from its enqueueing until a terminal  *)
(* status has been recorded at least once; a COMPLETE job is not started   *)
(* again.  It does not promise that a terminal status is final.            *)
(***************************************************************************)
CONSTANT Jobs

VARIABLES
    status,     \* job -> its recorded status
    tracked,    \* jobs a message still stands for
    settled     \* jobs that have reached a terminal status

vars == <<status, tracked, settled>>

Init ==
    /\ status = [j \in Jobs |-> "ABSENT"]
    /\ tracked = {}
    /\ settled = {}

Submit(j) ==
    /\ status[j] = "ABSENT"
    /\ status' = [status EXCEPT ![j] = "PENDING"]
    /\ UNCHANGED <<tracked, settled>>

Enqueue(j) ==
    /\ status[j] # "ABSENT"
    /\ tracked' = tracked \cup {j}
    /\ UNCHANGED <<status, settled>>

Start(j) ==
    /\ status[j] \notin {"ABSENT", "COMPLETE"}
    /\ status' = [status EXCEPT ![j] = "PROCESSING"]
    /\ UNCHANGED <<tracked, settled>>

Settle(j, s) ==
    /\ status[j] # "ABSENT"
    /\ status' = [status EXCEPT ![j] = s]
    /\ settled' = settled \cup {j}
    /\ UNCHANGED tracked

Retire(j) ==
    /\ j \in tracked \cap settled
    /\ tracked' = tracked \ {j}
    /\ UNCHANGED <<status, settled>>

Next ==
    \E j \in Jobs :
        \/ Submit(j) \/ Enqueue(j) \/ Start(j) \/ Retire(j)
        \/ Settle(j, "COMPLETE") \/ Settle(j, "FAILED")

Spec == Init /\ [][Next]_vars
=============================================================================
