------------------------------- MODULE MCParts -------------------------------
(***************************************************************************)
(* The parts that share no state with the rest, in one run: the heartbeat  *)
(* of a delivery, the worker process with its signals, the load generator  *)
(* and the pure rules.  A behaviour is one of any of them, and the others  *)
(* have nothing left to do or have not begun.                              *)
(***************************************************************************)
EXTENDS MCHeartbeat, MCWorkerProcess, MCLoadGen, MCRules

VARIABLE part

partsVars == <<part, heartbeatVars, vars, loadVars, ruleVars>>

(* Parts that are not the one of this behaviour: a delivery that is over,  *)
(* a load run that has returned, no rule.  The process waits to be started.*)
HeartbeatOver ==
    /\ phase = "after" /\ left = Visibility /\ thread = "off"
    /\ clock = 0 /\ failures = 0 /\ joined = 0

LoadOver ==
    /\ now = 0
    /\ taken = QueueLength
    /\ upc = [u \in Uploaders |-> "returned"]
    /\ task = [u \in Uploaders |-> Never]
    /\ since = [u \in Uploaders |-> 0]
    /\ counts = [c \in {"202", "other", "error"} |-> IF c = "error" THEN Total ELSE 0]
    /\ died = {}
    /\ backlog = <<>>
    /\ ppc = [p \in Pollers |-> "idle"]
    /\ job = [p \in Pollers |-> Never]
    /\ deadline = [p \in Pollers |-> 0]
    /\ mark = [p \in Pollers |-> 0]
    /\ polls = [p \in Pollers |-> 0]
    /\ seen = [p \in Pollers |-> "none"]
    /\ during = [p \in Pollers |-> {}]
    /\ finals = [i \in Tasks |-> "NONE"]
    /\ mpc = "returned"
    /\ Service!Init

NoRule == rule = "none" /\ input = "none" /\ applied = TRUE /\ result = "none"

PartsInit ==
    /\ part \in {"heartbeat", "process", "load", "rules"}
    /\ IF part = "heartbeat" THEN HeartbeatInit ELSE HeartbeatOver
    /\ Init
    /\ IF part = "load" THEN LoadInit ELSE LoadOver
    /\ IF part = "rules" THEN MCInit ELSE NoRule

PartsNext ==
    /\ \/ part = "heartbeat" /\ HeartbeatNext /\ UNCHANGED <<vars, loadVars, ruleVars>>
       \/ part = "process" /\ Next /\ UNCHANGED <<heartbeatVars, loadVars, ruleVars>>
       \/ part = "load" /\ LoadNext /\ UNCHANGED <<heartbeatVars, vars, ruleVars>>
       \/ part = "rules" /\ MCNext /\ UNCHANGED <<heartbeatVars, vars, loadVars>>
    /\ UNCHANGED part

PartsSpec == PartsInit /\ [][PartsNext]_partsVars /\ HeartbeatFairness /\ LoadFairness
=============================================================================
