----------------------------- MODULE WorkerLocal -----------------------------
(***************************************************************************)
(* What a worker process keeps for itself while it handles a message       *)
(* (worker/consumer.py): the try blocks it is inside, the in-flight gauge, *)
(* the job id bound onto its log lines, its scratch directory, and the     *)
(* outcome and the jobs_processed_total increments of every delivery.      *)
(* Each action is the action of JobWorker together with its local effects; *)
(* the rest of the pipeline is as it was.                                  *)
(***************************************************************************)
EXTENDS Pipeline, Integers

VARIABLES
    scope,      \* worker -> the finally blocks it still has to run
    inflight,   \* worker -> JOBS_INFLIGHT
    bound,      \* worker -> job ids bound by bind_job_context
    scratch,    \* deliveries whose directory is on some pod's /tmp
    verdict,    \* worker -> the Outcome it returns after the delete
    outcome,    \* history: delivery -> what became of its handler
    tally       \* history: delivery -> increments by label

localVars == <<scope, inflight, bound, scratch, verdict, outcome, tally>>

Finals   == {"context", "inflight", "workspace"}
Labels   == {"complete", "failed"}
Verdicts == {"COMPLETED", "FAILED", "SKIPPED_DUPLICATE", "RETRY", "MALFORMED"}

(* Every variable stays in its domain; the gauge of a one-message worker is  *)
(* never negative and never above one (consumer.py 278, 335-336).          *)
LocalTypeOK ==
    /\ scope \in [Workers -> SUBSET Finals]
    /\ inflight \in [Workers -> {0, 1}]
    /\ bound \in [Workers -> SUBSET Jobs]
    /\ scratch \in SUBSET Receipts
    /\ verdict \in [Workers -> Verdicts]
    /\ outcome \in [Receipts -> Verdicts \cup {"OPEN", "KILLED"}]
    /\ tally \in [Receipts -> [Labels -> Nat]]

LocalInit ==
    /\ scope = [w \in Workers |-> {}]
    /\ inflight = [w \in Workers |-> 0]
    /\ bound = [w \in Workers |-> {}]
    /\ scratch = {}
    /\ verdict = [w \in Workers |-> "RETRY"]
    /\ outcome = [r \in Receipts |-> "OPEN"]
    /\ tally = [r \in Receipts |-> [l \in Labels |-> 0]]

-----------------------------------------------------------------------------
(* Entering a block that a finally or a context manager closes:            *)
(* bind_job_context, JOBS_INFLIGHT.inc and temp_workspace.                 *)
Enter(w, f) ==
    /\ scope' = [scope EXCEPT ![w] = @ \cup f]
    /\ bound' = IF "context" \in f THEN [bound EXCEPT ![w] = @ \cup {JobOfW(w)}] ELSE bound
    /\ inflight' = IF "inflight" \in f THEN [inflight EXCEPT ![w] = @ + 1] ELSE inflight
    /\ scratch' = IF "workspace" \in f THEN scratch \cup {held[w]} ELSE scratch

(* Mutants: a finally that also runs for a job that never got the gauge,   *)
(* and a gauge lowered on the way of success only.                         *)
MutantGaugeAlwaysLowered(w, f) ==
    /\ scope' = [scope EXCEPT ![w] = @ \ f]
    /\ bound' = IF "context" \in f \cap scope[w] THEN [bound EXCEPT ![w] = {}] ELSE bound
    /\ inflight' = IF "inflight" \in f THEN [inflight EXCEPT ![w] = @ - 1] ELSE inflight
    /\ scratch' = IF "workspace" \in f \cap scope[w] THEN scratch \ {held[w]} ELSE scratch

MutantGaugeKept(w, f) ==
    /\ scope' = [scope EXCEPT ![w] = @ \ f]
    /\ bound' = IF "context" \in f \cap scope[w] THEN [bound EXCEPT ![w] = {}] ELSE bound
    /\ inflight' = IF "inflight" \in f \cap scope[w] /\ verdict[w] = "COMPLETED"
                     THEN [inflight EXCEPT ![w] = @ - 1] ELSE inflight
    /\ scratch' = IF "workspace" \in f \cap scope[w] THEN scratch \ {held[w]} ELSE scratch

(* Leaving the blocks f, by whatever way: clear_job_context, the gauge     *)
(* goes down, the directory is removed.  Blocks not entered do nothing.    *)
Leave(w, f) ==
    /\ scope' = [scope EXCEPT ![w] = @ \ f]
    /\ bound' = IF "context" \in f \cap scope[w] THEN [bound EXCEPT ![w] = {}] ELSE bound
    /\ inflight' = IF "inflight" \in f \cap scope[w]
                     THEN [inflight EXCEPT ![w] = @ - 1] ELSE inflight
    /\ scratch' = IF "workspace" \in f \cap scope[w] THEN scratch \ {held[w]} ELSE scratch

(* handle_message returns v: every finally block that is open runs.        *)
Return(w, v) ==
    /\ Leave(w, Finals)
    /\ outcome' = [outcome EXCEPT ![held[w]] = v]
    /\ verdict' = [verdict EXCEPT ![w] = "RETRY"]

(* JOBS_PROCESSED_TOTAL.labels(status=l).inc()                             *)
Count(w, l) == tally' = [tally EXCEPT ![held[w]][l] = @ + 1]

(* The handler has made up its mind and is about to delete the message.    *)
Decide(w, v) == verdict' = [verdict EXCEPT ![w] = v] /\ UNCHANGED outcome

Undecided == UNCHANGED <<verdict, outcome>>

-----------------------------------------------------------------------------
LocalReceive(w, m) == WorkerReceive(w, m) /\ UNCHANGED localVars

LocalReceiveLost(w, m) == WorkerReceiveLost(w, m) /\ UNCHANGED localVars

LocalHandle(w) ==
    /\ WorkerHandle(w)
    /\ \/ /\ wpc'[w] = "delete"                          \* does not parse
          /\ Count(w, "failed") /\ Decide(w, "MALFORMED") /\ Enter(w, {})
       \/ wpc'[w] = "poll" /\ Return(w, "RETRY") /\ UNCHANGED tally
       \/ wpc'[w] = "get_job" /\ Enter(w, {"context"}) /\ Undecided /\ UNCHANGED tally

LocalGetJob(w) ==
    /\ WorkerGetJob(w)
    /\ \/ wpc'[w] = "poll" /\ Return(w, "RETRY") /\ UNCHANGED tally
       \/ /\ wpc'[w] = "delete"
          /\ status[JobOfW(w)] = "ABSENT"
          /\ Count(w, "failed") /\ Decide(w, "FAILED") /\ Enter(w, {})
       \/ /\ wpc'[w] = "delete"
          /\ status[JobOfW(w)] = "COMPLETE"
          /\ Decide(w, "SKIPPED_DUPLICATE") /\ Enter(w, {}) /\ UNCHANGED tally
       \/ /\ wpc'[w] \in {"mark_failed", "mark_processing"}
          /\ Enter(w, {}) /\ Undecided /\ UNCHANGED tally

(* A worker that won the update raises the gauge and, still before any     *)
(* call to a service, creates the scratch directory.                       *)
LocalMarkProcessing(w, o) ==
    /\ WorkerMarkProcessing(w, o)
    /\ \/ wpc'[w] = "mark_processing" /\ Enter(w, {}) /\ Undecided
       \/ wpc'[w] = "render" /\ Enter(w, {"inflight", "workspace"}) /\ Undecided
       \/ wpc'[w] = "delete" /\ Decide(w, "SKIPPED_DUPLICATE") /\ Enter(w, {})
       \/ wpc'[w] = "poll" /\ Return(w, "RETRY")
    /\ UNCHANGED tally

(* The scratch directory is gone before _fail_job starts.                  *)
LocalRender(w) ==
    /\ WorkerRender(w)
    /\ \/ wpc'[w] = "upload" /\ Enter(w, {}) /\ Undecided
       \/ wpc'[w] = "mark_failed" /\ Leave(w, {"workspace"}) /\ Undecided
       \/ wpc'[w] = "poll" /\ Return(w, "RETRY")
    /\ UNCHANGED tally

LocalUpload(w) ==
    /\ WorkerUpload(w)
    /\ \/ wpc'[w] = "upload" /\ Enter(w, {}) /\ Undecided
       \/ wpc'[w] = "mark_complete" /\ Leave(w, {"workspace"}) /\ Undecided
       \/ wpc'[w] = "poll" /\ Return(w, "RETRY")
    /\ UNCHANGED tally

LocalMarkComplete(w, o) ==
    /\ WorkerMarkComplete(w, o)
    /\ \/ wpc'[w] = "mark_complete" /\ Enter(w, {}) /\ Undecided
       \/ wpc'[w] = "delete" /\ Decide(w, "COMPLETED") /\ Enter(w, {})
       \/ wpc'[w] = "poll" /\ Return(w, "RETRY")
    /\ UNCHANGED tally

(* Mutant: the failure is counted before it is known to be recorded.       *)
MutantCountFirst(w, o) ==
    /\ WorkerMarkFailed(w, o)
    /\ \/ wpc'[w] = "mark_failed" /\ Enter(w, {}) /\ Undecided
       \/ wpc'[w] = "delete" /\ Decide(w, "FAILED") /\ Enter(w, {})
       \/ wpc'[w] = "poll" /\ Return(w, "RETRY")
    /\ Count(w, "failed")

LocalMarkFailed(w, o) ==
    /\ WorkerMarkFailed(w, o)
    /\ \/ wpc'[w] = "mark_failed" /\ Enter(w, {}) /\ Undecided /\ UNCHANGED tally
       \/ wpc'[w] = "delete" /\ Count(w, "failed") /\ Decide(w, "FAILED") /\ Enter(w, {})
       \/ wpc'[w] = "poll" /\ Return(w, "RETRY") /\ UNCHANGED tally

(* Mutant: the completion goes through _delete_quietly like the others,    *)
(* and is counted by nobody.                                               *)
MutantCompletionUncounted(w) ==
    /\ WorkerDelete(w)
    /\ Return(w, verdict[w])
    /\ UNCHANGED tally

(* The delete after mark_complete is inside the try block: only when it    *)
(* returns is the completion counted, and when it raises the outcome is    *)
(* RETRY.  _delete_quietly swallows what its delete raises.                *)
LocalDelete(w) ==
    /\ WorkerDelete(w)
    /\ \/ /\ verdict[w] = "COMPLETED"
          /\ \/ DeleteMessage(held[w]) /\ Count(w, "complete") /\ Return(w, "COMPLETED")
             \/ Return(w, "RETRY") /\ UNCHANGED tally
       \/ verdict[w] # "COMPLETED" /\ Return(w, verdict[w]) /\ UNCHANGED tally

(* The process dies and no finally block runs.  Gauge, log context and     *)
(* stack go with the process; the directory stays on the pod's emptyDir.   *)
LocalCrash(w) ==
    /\ WorkerCrash(w)
    /\ scope' = [scope EXCEPT ![w] = {}]
    /\ bound' = [bound EXCEPT ![w] = {}]
    /\ inflight' = [inflight EXCEPT ![w] = 0]
    /\ outcome' = [outcome EXCEPT ![held[w]] = "KILLED"]
    /\ verdict' = [verdict EXCEPT ![w] = "RETRY"]
    /\ UNCHANGED <<scratch, tally>>

LocalStep(w) ==
    \/ \E m \in Messages : LocalReceive(w, m) \/ LocalReceiveLost(w, m)
    \/ LocalHandle(w)
    \/ LocalGetJob(w)
    \/ \E o \in Outcomes : \/ LocalMarkProcessing(w, o)
                           \/ LocalMarkComplete(w, o)
                           \/ LocalMarkFailed(w, o)
    \/ LocalRender(w)
    \/ LocalUpload(w)
    \/ LocalDelete(w)
    \/ LocalCrash(w)

LocalNext ==
    \/ \E j \in Jobs : ApiStep(j) /\ UNCHANGED <<workerVars, localVars>>
    \/ \E w \in Workers : LocalStep(w) /\ UNCHANGED apiVars
    \/ \E m \in Messages : (VisibilityTimeout(m) \/ Redrive(m)) /\ UNCHANGED localVars

LocalSpec == Init /\ LocalInit /\ [][LocalNext]_<<vars, localVars>>

-----------------------------------------------------------------------------
(* "removed even if a stage raises, so the container filesystem stays      *)
(* clean" (consumer.py 341-343) and "never leaks between concurrently      *)
(* processed jobs" (logging_setup.py 234-235): whichever way a handler     *)
(* ended, an idle worker's gauge is back at zero and nothing is bound; a   *)
(* busy one logs under its own job only; the gauge is one from the won     *)
(* update to the end; and a directory left behind is a killed handler's.   *)
HandlersLeaveNothing ==
    \A w \in Workers :
        /\ wpc[w] = "poll" => inflight[w] = 0 /\ bound[w] = {}
        /\ wpc[w] # "poll" => bound[w] \subseteq {JobOfW(w)}
        /\ wpc[w] \in {"render", "upload", "mark_complete"} => inflight[w] = 1
        /\ \A r \in scratch :
             outcome[r] = "KILLED" \/ \E v \in Workers : held[v] = r /\ wpc[v] \in {"render", "upload"}

(* Outcome, counter and table agree although others write in between:      *)
(* COMPLETED is counted as complete by the delivery that completed the     *)
(* job, FAILED and MALFORMED as failed for a job that is settled or was    *)
(* never recorded, a skipped duplicate is settled and counted by nobody    *)
(* here, and no delivery is counted twice ("Jobs that reached a terminal   *)
(* state", metrics.py 122).                                                *)
OutcomesTellTheTruth ==
    \A r \in Receipts :
        LET j == JobOf(r[1])
        IN  /\ tally[r]["complete"] + tally[r]["failed"] <= 1
            /\ tally[r]["complete"] = 1 <=> outcome[r] = "COMPLETED"
            /\ tally[r]["complete"] = 1 => r \in finishedBy
            /\ outcome[r] \in {"FAILED", "MALFORMED"} => tally[r]["failed"] = 1
            /\ tally[r]["failed"] = 1 => j \in settled \/ Stray(j)
            /\ outcome[r] = "SKIPPED_DUPLICATE" => j \in settled /\ tally[r]["failed"] = 0

(* A completion the counters miss has left a trace: the handler whose      *)
(* mark_complete reached the table either counts it, or is still running,  *)
(* or ended in the logged RETRY or with its process (consumer.py 302-304,  *)
(* 319-327).                                                               *)
CompletionsCounted ==
    \A r \in finishedBy :
        \/ tally[r]["complete"] = 1
        \/ outcome[r] \in {"RETRY", "KILLED"}
        \/ \E w \in Workers : held[w] = r
=============================================================================
