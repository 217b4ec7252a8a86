------------------------------ MODULE JobWorker ------------------------------
(***************************************************************************)
(* The consumer loop: Worker.run_once, handle_message, _process, _render   *)
(* and _fail_job (worker/consumer.py).  One step per call to S3, SQS or    *)
(* DynamoDB, because any other process may act between two calls.          *)
(*                                                                         *)
(* Calls whose repetition changes nothing (get_job, put_bytes, delete) are *)
(* one step together with their retries: they return, or raise with the    *)
(* request applied or not.  The two UpdateItem calls that other processes' *)
(* writes can come between keep their attempt count.                       *)
(***************************************************************************)
EXTENDS JobStore

CONSTANTS
    Workers,     \* worker pods; a pod that dies is replaced by another
    NoReceipt    \* a worker that holds no message

ASSUME NoReceiptAssumption == NoReceipt \notin Receipts

VARIABLES
    wpc,         \* the call the worker is about to make
    held,        \* the receipt handle it works under
    rendered,    \* the sizes uploaded so far, _render's outputs
    wTry,        \* attempt number of the call being made
    finishedBy   \* history: receipts whose mark_complete reached the table

workerVars == <<wpc, held, rendered, wTry, finishedBy>>

WorkerPcs == {"poll", "handle", "get_job", "mark_processing", "render",
              "upload", "mark_complete", "mark_failed", "delete"}

WorkerTypeOK ==
    /\ wpc \in [Workers -> WorkerPcs]
    /\ held \in [Workers -> Receipts \cup {NoReceipt}]
    /\ rendered \in [Workers -> SUBSET Sizes]
    /\ wTry \in [Workers -> 1..Attempts]
    /\ finishedBy \in SUBSET Receipts

WorkerInit ==
    /\ wpc = [w \in Workers |-> "poll"]
    /\ held = [w \in Workers |-> NoReceipt]
    /\ rendered = [w \in Workers |-> {}]
    /\ wTry = [w \in Workers |-> 1]
    /\ finishedBy = {}

MsgOf(w)    == held[w][1]
JobOfW(w)   == JobOf(MsgOf(w))
Holds(w, m) == held[w] # NoReceipt /\ MsgOf(w) = m

(* On to the next call.                                                    *)
Goto(w, pc) ==
    /\ wpc' = [wpc EXCEPT ![w] = pc]
    /\ wTry' = [wTry EXCEPT ![w] = 1]
    /\ UNCHANGED <<held, rendered>>

Retry(w) ==
    /\ wTry' = [wTry EXCEPT ![w] = @ + 1]
    /\ UNCHANGED <<wpc, held, rendered>>

(* The handler returns (or dies): back to the poll with nothing in hand.   *)
(* Outcome.RETRY is just that: the message is left to its timeout.         *)
Release(w) ==
    /\ wpc' = [wpc EXCEPT ![w] = "poll"]
    /\ held' = [held EXCEPT ![w] = NoReceipt]
    /\ rendered' = [rendered EXCEPT ![w] = {}]
    /\ wTry' = [wTry EXCEPT ![w] = 1]

-----------------------------------------------------------------------------
(* queue.receive hands the worker one message.                             *)
WorkerReceive(w, m) ==
    /\ wpc[w] = "poll"
    /\ CanReceive(m)
    /\ ReceiveMessage(m)
    /\ held' = [held EXCEPT ![w] = <<m, receives[m] + 1>>]
    /\ wpc' = [wpc EXCEPT ![w] = "handle"]
    /\ UNCHANGED <<rendered, wTry, finishedBy, s3Vars, tableVars, kind>>

(* The receive is applied but its answer never arrives: the delivery is    *)
(* spent and nobody works on it.                                           *)
WorkerReceiveLost(w, m) ==
    /\ wpc[w] = "poll"
    /\ CanReceive(m)
    /\ ReceiveMessage(m)
    /\ UNCHANGED <<workerVars, s3Vars, tableVars, kind>>

(* handle_message: parse the body and look at its schema version.          *)
WorkerHandle(w) ==
    /\ wpc[w] = "handle"
    /\ LET k == kind[JobOfW(w)]
       IN  \/ k = "malformed" /\ Goto(w, "delete")
           \/ k = "newer" /\ Release(w)
           \/ k \in {"job", "foreign"} /\ Goto(w, "get_job")
    /\ UNCHANGED <<finishedBy, storeVars>>

(* Mutant: the check for a missing record is dropped.                      *)
MutantGetIgnoresMissing(w) ==
    /\ wpc[w] = "get_job"
    /\ LET j == JobOfW(w)
       IN  \/ Release(w)
           \/ status[j] = "COMPLETE" /\ Goto(w, "delete")
           \/ /\ status[j] # "COMPLETE"
              /\ kind[j] = "foreign"
              /\ Goto(w, "mark_failed")
           \/ /\ status[j] # "COMPLETE"
              /\ kind[j] = "job"
              /\ Goto(w, "mark_processing")
    /\ UNCHANGED <<finishedBy, storeVars>>

(* table.get_job and the checks on what it returned.                       *)
WorkerGetJob(w) ==
    /\ wpc[w] = "get_job"
    /\ LET j == JobOfW(w)
       IN  \/ Release(w)                                   \* the lookup raises
           \/ status[j] \in {"ABSENT", "COMPLETE"} /\ Goto(w, "delete")
           \/ /\ status[j] \notin {"ABSENT", "COMPLETE"}
              /\ kind[j] = "foreign"
              /\ Goto(w, "mark_failed")
           \/ /\ status[j] \notin {"ABSENT", "COMPLETE"}
              /\ kind[j] = "job"
              /\ Goto(w, "mark_processing")
    /\ UNCHANGED <<finishedBy, storeVars>>

(* One attempt of table.mark_processing.  An answer says whether the       *)
(* condition held; a worker that lost the race drops the message.          *)
WorkerMarkProcessing(w, o) ==
    /\ wpc[w] = "mark_processing"
    /\ LET j == JobOfW(w)
       IN  /\ IF Applied(o) THEN UpdateProcessing(j) ELSE UNCHANGED tableVars
           /\ \/ o = "ok" /\ StartCondition(j) /\ Goto(w, "render")
              \/ o = "ok" /\ ~StartCondition(j) /\ Goto(w, "delete")
              \/ Retried(o, wTry[w]) /\ Retry(w)
              \/ Raised(o, wTry[w]) /\ Release(w)
    /\ UNCHANGED <<finishedBy, s3Vars, queueVars, kind>>

(* _render up to the first upload: download_to and render_thumbnails.      *)
(* A missing object is a ClientError like any other.                       *)
WorkerRender(w) ==
    /\ wpc[w] = "render"
    /\ \/ JobOfW(w) \in uploads /\ Goto(w, "upload")
       \/ JobOfW(w) \in uploads /\ Goto(w, "mark_failed")  \* ImageProcessingError
       \/ Release(w)                                       \* any other error
    /\ UNCHANGED <<finishedBy, storeVars>>

(* store.put_bytes for the next thumbnail, in ascending size.              *)
NextSize(w, s) == s \in Sizes \ rendered[w] /\ \A t \in Sizes \ rendered[w] : s <= t

(* Mutant: the last size is recorded and never stored.                     *)
MutantUploadOffByOne(w) ==
    /\ wpc[w] = "upload"
    /\ \E s \in Sizes :
         /\ NextSize(w, s)
         /\ \/ /\ rendered' = [rendered EXCEPT ![w] = @ \cup {s}]
               /\ IF rendered[w] \cup {s} = Sizes
                    THEN wpc' = [wpc EXCEPT ![w] = "mark_complete"] /\ UNCHANGED s3Vars
                    ELSE PutThumb(JobOfW(w), s) /\ UNCHANGED wpc
               /\ UNCHANGED <<held, wTry>>
            \/ (PutThumb(JobOfW(w), s) \/ UNCHANGED s3Vars) /\ Release(w)
    /\ UNCHANGED <<finishedBy, tableVars, queueVars, kind>>

WorkerUpload(w) ==
    /\ wpc[w] = "upload"
    /\ \E s \in Sizes :
         /\ NextSize(w, s)
         /\ \/ /\ PutThumb(JobOfW(w), s)
               /\ rendered' = [rendered EXCEPT ![w] = @ \cup {s}]
               /\ wpc' = [wpc EXCEPT ![w] =
                            IF rendered[w] \cup {s} = Sizes THEN "mark_complete" ELSE @]
               /\ UNCHANGED <<held, wTry>>
            \/ (PutThumb(JobOfW(w), s) \/ UNCHANGED s3Vars) /\ Release(w)
    /\ UNCHANGED <<finishedBy, tableVars, queueVars, kind>>

(* One attempt of table.mark_complete.                                     *)
WorkerMarkComplete(w, o) ==
    /\ wpc[w] = "mark_complete"
    /\ IF Applied(o)
         THEN /\ UpdateComplete(JobOfW(w), rendered[w])
              /\ finishedBy' = finishedBy \cup {held[w]}
         ELSE UNCHANGED <<tableVars, finishedBy>>
    /\ \/ o = "ok" /\ Goto(w, "delete")
       \/ Retried(o, wTry[w]) /\ Retry(w)
       \/ Raised(o, wTry[w]) /\ Release(w)
    /\ UNCHANGED <<s3Vars, queueVars, kind>>

(* Mutant: the message is dropped although the failure was not recorded.   *)
MutantDropAnyway(w, o) ==
    /\ wpc[w] = "mark_failed"
    /\ IF Applied(o) THEN UpdateFailed(JobOfW(w)) ELSE UNCHANGED tableVars
    /\ IF Retried(o, wTry[w]) THEN Retry(w) ELSE Goto(w, "delete")
    /\ UNCHANGED <<finishedBy, s3Vars, queueVars, kind>>

(* One attempt of table.mark_failed, in _fail_job.  If it raises the       *)
(* message stays on the queue.                                             *)
WorkerMarkFailed(w, o) ==
    /\ wpc[w] = "mark_failed"
    /\ IF Applied(o) THEN UpdateFailed(JobOfW(w)) ELSE UNCHANGED tableVars
    /\ \/ o = "ok" /\ Goto(w, "delete")
       \/ Retried(o, wTry[w]) /\ Retry(w)
       \/ Raised(o, wTry[w]) /\ Release(w)
    /\ UNCHANGED <<finishedBy, s3Vars, queueVars, kind>>

(* queue.delete, directly after mark_complete or through _delete_quietly.  *)
(* If it raises, with the message deleted or not, the handler is over too. *)
WorkerDelete(w) ==
    /\ wpc[w] = "delete"
    /\ DeleteMessage(held[w]) \/ UNCHANGED queueVars
    /\ Release(w)
    /\ UNCHANGED <<finishedBy, s3Vars, tableVars, kind>>

(* SIGKILL, out of memory, a node failure, the watchdog's os._exit.        *)
WorkerCrash(w) ==
    /\ wpc[w] # "poll"
    /\ Release(w)
    /\ UNCHANGED <<finishedBy, storeVars>>

(* The handler's own steps, everything but polling and dying.              *)
WorkerHandler(w) ==
    \/ WorkerHandle(w)
    \/ WorkerGetJob(w)
    \/ \E o \in Outcomes : \/ WorkerMarkProcessing(w, o)
                           \/ WorkerMarkComplete(w, o)
                           \/ WorkerMarkFailed(w, o)
    \/ WorkerRender(w)
    \/ WorkerUpload(w)
    \/ WorkerDelete(w)

WorkerStep(w) ==
    \/ \E m \in Messages : WorkerReceive(w, m) \/ WorkerReceiveLost(w, m)
    \/ WorkerHandler(w)
    \/ WorkerCrash(w)
=============================================================================
