------------------------------- MODULE JobApi -------------------------------
(***************************************************************************)
(* POST /jobs: JobService.create_job (api/service.py), one request per job *)
(* id.  Validation and decoding come before the first write and leave no   *)
(* trace, so a request enters here once they have passed.  The writes are  *)
(* separate steps: object, item, message, and after a failed enqueue the   *)
(* best-effort overwrite of the item.  The pod may die between any two.    *)
(***************************************************************************)
EXTENDS JobStore

VARIABLES
    apiPc,     \* where the request that owns the job id is
    apiTry     \* attempt number of the call being made

apiVars == <<apiPc, apiTry>>

(* "accepted" is 202, "enqueue_failed" and "error" are 503; "crashed" is   *)
(* a request that died with its pod.  "stray" marks an id no request ever  *)
(* wrote a record for: some other producer sent a message under it.        *)
ApiActive == {"put_object", "put_job", "send", "mark_unqueueable"}
ApiPcs    == ApiActive \cup
             {"idle", "accepted", "enqueue_failed", "error", "crashed", "stray"}

ApiTypeOK == apiPc \in [Jobs -> ApiPcs] /\ apiTry \in [Jobs -> 1..Attempts]

ApiInit == apiPc = [j \in Jobs |-> "idle"] /\ apiTry = [j \in Jobs |-> 1]

(* The next step of the request, with a fresh attempt count.               *)
ApiGoto(j, pc) ==
    /\ apiPc' = [apiPc EXCEPT ![j] = pc]
    /\ apiTry' = [apiTry EXCEPT ![j] = 1]

ApiRetry(j) ==
    /\ apiTry' = [apiTry EXCEPT ![j] = @ + 1]
    /\ UNCHANGED apiPc

-----------------------------------------------------------------------------
(* An upload that passes validate_upload and probe_image draws its job id. *)
(* The message it will send is fixed here: a current one, or, from a       *)
(* producer of another release or configuration, one this worker refuses.  *)
ApiBegin(j, k) ==
    /\ apiPc[j] = "idle"
    /\ k # "malformed"
    /\ kind' = [kind EXCEPT ![j] = k]
    /\ ApiGoto(j, "put_object")
    /\ UNCHANGED <<s3Vars, tableVars, queueVars>>

(* store.put_bytes with its retries.  Writing the same object again        *)
(* changes nothing, so the retries are one step: it returns, or raises     *)
(* with the object written (answers lost) or not.                          *)
ApiPutObject(j) ==
    /\ apiPc[j] = "put_object"
    /\ \/ PutUpload(j) /\ ApiGoto(j, "put_job")
       \/ (PutUpload(j) \/ UNCHANGED s3Vars) /\ ApiGoto(j, "error")
    /\ UNCHANGED <<tableVars, queueVars, kind>>

(* Mutant: the message goes out before the item is known to be written.    *)
MutantSendFirst(j) ==
    /\ apiPc[j] = "put_job"
    /\ \/ SendMessage(<<j, 1>>) /\ PutItem(j, "PENDING") /\ ApiGoto(j, "accepted")
       \/ SendMessage(<<j, 1>>) /\ UNCHANGED tableVars /\ ApiGoto(j, "error")
    /\ UNCHANGED <<s3Vars, kind>>

(* table.put_job(record), the same way: nobody else knows the job id yet.  *)
ApiPutJob(j) ==
    /\ apiPc[j] = "put_job"
    /\ \/ PutItem(j, "PENDING") /\ ApiGoto(j, "send")
       \/ (PutItem(j, "PENDING") \/ UNCHANGED tableVars) /\ ApiGoto(j, "error")
    /\ UNCHANGED <<s3Vars, queueVars, kind>>

(* One attempt of queue.send_job.                                          *)
ApiSend(j, o) ==
    /\ apiPc[j] = "send"
    /\ IF Applied(o) THEN SendMessage(<<j, apiTry[j]>>) ELSE UNCHANGED queueVars
    /\ \/ o = "ok" /\ ApiGoto(j, "accepted")
       \/ Retried(o, apiTry[j]) /\ ApiRetry(j)
       \/ Raised(o, apiTry[j]) /\ ApiGoto(j, "mark_unqueueable")
    /\ UNCHANGED <<s3Vars, tableVars, kind>>

(* One attempt of the PutItem in _mark_unqueueable; whatever it comes to,  *)
(* the request ends in EnqueueFailedError.                                 *)
ApiMarkUnqueueable(j, o) ==
    /\ apiPc[j] = "mark_unqueueable"
    /\ IF Applied(o) THEN PutItem(j, "FAILED") ELSE UNCHANGED tableVars
    /\ \/ Retried(o, apiTry[j]) /\ ApiRetry(j)
       \/ ~Retried(o, apiTry[j]) /\ ApiGoto(j, "enqueue_failed")
    /\ UNCHANGED <<s3Vars, queueVars, kind>>

(* The pod dies.  A client that goes away changes nothing: create_job runs *)
(* in a thread of the pool to its end.                                     *)
ApiCrash(j) ==
    /\ apiPc[j] \in ApiActive
    /\ ApiGoto(j, "crashed")
    /\ UNCHANGED storeVars

(* Something that is not this API puts a message on the queue: an          *)
(* operator, a test, a producer of another environment.                    *)
StraySend(j, k) ==
    /\ apiPc[j] = "idle"
    /\ kind' = [kind EXCEPT ![j] = k]
    /\ SendMessage(<<j, 1>>)
    /\ ApiGoto(j, "stray")
    /\ UNCHANGED <<s3Vars, tableVars>>

ApiStep(j) ==
    \/ \E k \in Kinds : ApiBegin(j, k) \/ StraySend(j, k)
    \/ ApiPutObject(j)
    \/ ApiPutJob(j)
    \/ \E o \in Outcomes : ApiSend(j, o) \/ ApiMarkUnqueueable(j, o)
    \/ ApiCrash(j)
=============================================================================
