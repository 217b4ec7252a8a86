------------------------------ MODULE Pipeline ------------------------------
(***************************************************************************)
(* The whole system: upload requests (JobApi) and workers (JobWorker) that *)
(* meet only in S3, DynamoDB and SQS (JobStore), plus the queue's own      *)
(* steps, which happen whenever the service likes.                         *)
(***************************************************************************)
EXTENDS JobApi, JobWorker

CONSTANT Exclusive   \* does a held message stay invisible until it is released?

ASSUME ExclusiveAssumption == Exclusive \in BOOLEAN

vars == <<storeVars, apiVars, workerVars>>

Init == StoreInit /\ ApiInit /\ WorkerInit

-----------------------------------------------------------------------------
(* Mutant: the timeout runs out although it is assumed not to.             *)
MutantTimeoutUnderHands(m) ==
    /\ ExpireVisibility(m)
    /\ UNCHANGED <<s3Vars, tableVars, kind, apiVars, workerVars>>

(* The visibility timeout of a delivery runs out.  Outside the render the  *)
(* code runs no heartbeat, and inside it an extension may fail or the pod  *)
(* may stall, so in general it can run out under a worker's hands.  With   *)
(* Exclusive the worker is assumed to be faster than the timeout.          *)
VisibilityTimeout(m) ==
    /\ Exclusive => \A w \in Workers : held[w] # <<m, receives[m]>>
    /\ ExpireVisibility(m)
    /\ UNCHANGED <<s3Vars, tableVars, kind, apiVars, workerVars>>

Redrive(m) ==
    /\ RedriveMessage(m)
    /\ UNCHANGED <<s3Vars, tableVars, kind, apiVars, workerVars>>

Next ==
    \/ \E j \in Jobs : ApiStep(j) /\ UNCHANGED workerVars
    \/ \E w \in Workers : WorkerStep(w) /\ UNCHANGED apiVars
    \/ \E m \in Messages : VisibilityTimeout(m) \/ Redrive(m)

Spec == Init /\ [][Next]_vars

(* A handler that is running keeps running, some worker keeps polling, and *)
(* SQS expires visibility timeouts and redrives in finite time.  Nothing   *)
(* is assumed of crashes, lost answers or failing calls, nor of requests.  *)
Fairness ==
    /\ \A w \in Workers : WF_vars(WorkerHandler(w) /\ UNCHANGED apiVars)
    /\ \A m \in Messages :
         /\ WF_vars(\E w \in Workers : WorkerReceive(w, m) /\ UNCHANGED apiVars)
         /\ WF_vars(VisibilityTimeout(m))
         /\ WF_vars(Redrive(m))

LiveSpec == Spec /\ Fairness

-----------------------------------------------------------------------------
(* Every variable stays in its domain.                                     *)
TypeOK == StoreTypeOK /\ ApiTypeOK /\ WorkerTypeOK

Stray(j)   == apiPc[j] = "stray"
Tracked(j) == \E k \in 1..Attempts : place[<<j, k>>] \in {"visible", "inflight", "dlq"}

(* create_job writes object, record and message in that order (service.py  *)
(* 126-129): a message of the API always has its upload and its record     *)
(* behind it, whatever fails, is retried or crashes in between.            *)
QueuedIsBacked ==
    \A m \in Messages :
        place[m] # "absent" /\ ~Stray(JobOf(m)) =>
            JobOf(m) \in uploads /\ status[JobOf(m)] # "ABSENT"

(* A reader who sees COMPLETE can fetch every configured thumbnail and     *)
(* finds no error; one who sees FAILED finds a reason.  Stale workers, the *)
(* API's overwrite and retried updates may have written in any order.      *)
RecordTellsTheTruth ==
    \A j \in Jobs :
        /\ status[j] = "COMPLETE" =>
             outputs[j] = Sizes /\ {j} \X Sizes \subseteq thumbs /\ j \notin errored
        /\ status[j] = "FAILED" => j \in errored

(* "The message is deleted last" (consumer.py 12-13): while no terminal    *)
(* status has been recorded, an enqueued job has a message on the queue or *)
(* in the dead-letter queue.                                               *)
NeverDroppedUnsettled ==
    \A m \in Messages :
        place[m] = "deleted" /\ ~Stray(JobOf(m)) => JobOf(m) \in settled

(* mark_processing's condition (aws.py 417-424): a COMPLETE job is never   *)
(* started again, and no worker call creates an item for an id the API     *)
(* never recorded, although UpdateItem would (it is an upsert).            *)
NoRestartNoUpsert ==
    [][\A j \in Jobs :
          /\ status[j] = "COMPLETE" => status'[j] # "PROCESSING"
          /\ status[j] = "ABSENT"   => status'[j] \in {"ABSENT", "PENDING"}]_vars

(* Together the three state properties are not inductive.  What carries    *)
(* them: how far a request has come, what a worker past its lookup may     *)
(* rely on although others write in between, and what it has uploaded.     *)
RequestOrder ==
    \A j \in Jobs :
        /\ apiPc[j] \in {"idle", "put_object", "put_job", "stray"} => status[j] = "ABSENT"
        /\ apiPc[j] \in {"put_job", "send", "mark_unqueueable"} => j \in uploads
        /\ apiPc[j] \in {"send", "mark_unqueueable"} => status[j] # "ABSENT"
        /\ kind[j] = "malformed" => Stray(j)
        /\ status[j] \in Terminal => j \in settled

PastLookup == {"mark_processing", "render", "upload", "mark_complete", "mark_failed"}

WorkerKnows ==
    \A w \in Workers : wpc[w] # "poll" =>
        /\ place[MsgOf(w)] # "absent"
        /\ wpc[w] \in PastLookup => status[JobOfW(w)] # "ABSENT"
        /\ wpc[w] = "delete" /\ ~Stray(JobOfW(w)) => JobOfW(w) \in settled

RenderProgress ==
    \A w \in Workers :
        /\ wpc[w] = "poll" => rendered[w] = {}
        /\ \A s \in rendered[w] : <<JobOfW(w), s>> \in thumbs
        /\ wpc[w] = "mark_complete" => rendered[w] = Sizes

(* The inductive invariant: a worker deletes only what it has seen settled *)
(* or malformed, completes only what it has stored, and writes only items  *)
(* that exist.                                                             *)
PipelineInv ==
    /\ RequestOrder
    /\ WorkerKnows
    /\ RenderProgress
    /\ QueuedIsBacked
    /\ RecordTellsTheTruth
    /\ NeverDroppedUnsettled

(* "duplicate delivery produces one result, not two" (consumer.py 5-7),    *)
(* where it does hold: when a message stays invisible while it is worked   *)
(* on and was sent once, a job that was accepted is completed by one       *)
(* delivery only, whatever crashes, lost answers and redeliveries occur.   *)
SentOnce(j) == \A k, l \in 1..Attempts :
                   place[<<j, k>>] # "absent" /\ place[<<j, l>>] # "absent" => k = l

OneResultIfExclusive ==
    \A r, s \in finishedBy :
        LET j == JobOf(r[1])
        IN  JobOf(s[1]) = j /\ apiPc[j] = "accepted" /\ SentOnce(j) => r = s

(* "A crash mid-job results in redelivery" (README 463-467): every job the *)
(* API accepted reaches a terminal status or is parked for an operator.    *)
AcceptedSettles ==
    \A j \in Jobs :
        apiPc[j] = "accepted" ~>
            j \in settled \/ \E k \in 1..Attempts : place[<<j, k>>] = "dlq"

(* No message circulates for ever, whoever sent it: it is deleted or it    *)
(* ends in the dead-letter queue.                                          *)
QueueDrains == \A m \in Messages : InQueue(m) ~> ~InQueue(m)

(* The pipeline implements the life cycle: the item's status and history,  *)
(* and the jobs that messages of the API still stand for.                  *)
TrackedJobs == {j \in Jobs : ~Stray(j) /\ Tracked(j)}

Lifecycle == INSTANCE JobLifecycle WITH tracked <- TrackedJobs

LifecycleSpec == Lifecycle!Spec

-----------------------------------------------------------------------------
(* Statements of the repository that the code does not keep.               *)

(* service.py 227-228: "overwriting the item it just wrote is safe": the   *)
(* request's own steps never take a COMPLETE item away from its readers.   *)
OverwriteIsSafe ==
    [][\A j \in Jobs :
          apiPc'[j] # apiPc[j] /\ status[j] = "COMPLETE" => status'[j] = "COMPLETE"]_vars

(* README 465-467: a crash mid-job results "never in a lost job": an       *)
(* accepted job that is not terminal still has a message, or a worker.     *)
NoLostJob ==
    \A j \in Jobs : apiPc[j] = "accepted" =>
        \/ status[j] \in Terminal
        \/ Tracked(j)
        \/ \E w \in Workers : held[w] # NoReceipt /\ JobOfW(w) = j
=============================================================================
