------------------------------ MODULE JobStore ------------------------------
(***************************************************************************)
(* The three AWS resources every pixelforge process shares, seen through   *)
(* the wrappers of shared/aws.py:                                          *)
(*                                                                         *)
(*   S3        uploads, thumbs       which objects exist                   *)
(*   DynamoDB  status, outputs,      one item per job, by column           *)
(*             errored                                                     *)
(*   SQS       place, receives,      one entry per SendMessage request     *)
(*             kind                                                        *)
(*                                                                         *)
(* The services themselves are external: what is modelled of them is what  *)
(* the wrappers rely on (conditional update, at-least-once delivery,       *)
(* receive counts, redrive).  An operation here is the effect of ONE       *)
(* request on the service; how often a request is made, and whether its    *)
(* answer arrives, is the caller's business (call_with_retry).             *)
(***************************************************************************)
EXTENDS Naturals

CONSTANTS
    Jobs,         \* job ids; every accepted upload draws a fresh one
    Sizes,        \* config.thumbnail_sizes, a set of pixel sizes
    MaxReceive,   \* maxReceiveCount of the queue's redrive policy
    Attempts      \* RetryPolicy.attempts of the per-request policy

ASSUME SizesAssumption      == Sizes \subseteq Nat /\ Sizes # {}
ASSUME MaxReceiveAssumption == MaxReceive \in Nat \ {0}
ASSUME AttemptsAssumption   == Attempts \in Nat \ {0}

VARIABLES
    uploads,    \* jobs whose uploads/<job_id>/original object exists
    thumbs,     \* <<job, size>> whose outputs/<job_id>/thumb_<size> exists
    status,     \* the item's status, "ABSENT" when there is no item
    outputs,    \* the sizes the item's outputs attribute lists
    errored,    \* jobs whose item has an error attribute
    settled,    \* history: jobs whose item has ever been terminal
    place,      \* where each message is
    receives,   \* ApproximateReceiveCount of each message
    kind        \* what the body of the job's messages says

s3Vars    == <<uploads, thumbs>>
tableVars == <<status, outputs, errored, settled>>
queueVars == <<place, receives>>
storeVars == <<s3Vars, tableVars, queueVars, kind>>

-----------------------------------------------------------------------------
(* JobStatus, and the message body as far as the worker tells it apart:    *)
(* a current JobMessage, one with a newer schema_version, one that names   *)
(* another bucket, and one that does not parse.                            *)

Terminal == {"COMPLETE", "FAILED"}
Statuses == {"ABSENT", "PENDING", "PROCESSING"} \cup Terminal
Kinds    == {"job", "newer", "foreign", "malformed"}

(* The k-th attempt of send_job for job j enqueues message <<j, k>>: an    *)
(* attempt whose answer is lost has still enqueued its message.            *)
Messages == Jobs \X (1..Attempts)
JobOf(m) == m[1]

(* A receipt handle names one delivery: <<m, n>> is the n-th of message m. *)
Receipts == Messages \X (1..MaxReceive)

InQueue(m) == place[m] \in {"visible", "inflight"}

StoreTypeOK ==
    /\ uploads \in SUBSET Jobs
    /\ thumbs \in SUBSET (Jobs \X Sizes)
    /\ status \in [Jobs -> Statuses]
    /\ outputs \in [Jobs -> SUBSET Sizes]
    /\ errored \in SUBSET Jobs
    /\ settled \in SUBSET Jobs
    /\ place \in [Messages -> {"absent", "visible", "inflight", "dlq", "deleted"}]
    /\ receives \in [Messages -> 0..MaxReceive]
    /\ kind \in [Jobs -> Kinds]

StoreInit ==
    /\ uploads = {}
    /\ thumbs = {}
    /\ status = [j \in Jobs |-> "ABSENT"]
    /\ outputs = [j \in Jobs |-> {}]
    /\ errored = {}
    /\ settled = {}
    /\ place = [m \in Messages |-> "absent"]
    /\ receives = [m \in Messages |-> 0]
    /\ kind = [j \in Jobs |-> "job"]

-----------------------------------------------------------------------------
(* What one attempt of call_with_retry can come to:                        *)
(*   ok     the request is applied and its answer arrives                  *)
(*   lost   the request is applied, the answer is not (a read timeout, a   *)
(*          5xx after the write): is_transient, so it is retried           *)
(*   error  not applied, transient (throttling, no connection): retried    *)
(*   fatal  not applied, not transient: re-raised at once                  *)

Outcomes      == {"ok", "lost", "error", "fatal"}
Applied(o)    == o \in {"ok", "lost"}

(* Mutant: one attempt too many.                                           *)
MutantRetryOneMore(o, k) == o \in {"lost", "error"} /\ k <= Attempts

Retried(o, k) == o \in {"lost", "error"} /\ k < Attempts
Raised(o, k)  == o = "fatal" \/ (o \in {"lost", "error"} /\ k = Attempts)

-----------------------------------------------------------------------------
(* S3Store.put_bytes.                                                      *)
PutUpload(j)   == uploads' = uploads \cup {j} /\ UNCHANGED thumbs
PutThumb(j, s) == thumbs' = thumbs \cup {<<j, s>>} /\ UNCHANGED uploads

(* JobTable.put_job: PutItem replaces the whole item, so a record without  *)
(* outputs wipes the outputs that are there.                               *)
PutItem(j, s) ==
    /\ status' = [status EXCEPT ![j] = s]
    /\ outputs' = [outputs EXCEPT ![j] = {}]
    /\ errored' = IF s = "FAILED" THEN errored \cup {j} ELSE errored \ {j}
    /\ settled' = IF s \in Terminal THEN settled \cup {j} ELSE settled

(* Mutant: the condition forgets COMPLETE.                                 *)
MutantStartAlways(j) == status[j] # "ABSENT"

(* JobTable.mark_processing: UpdateItem under a ConditionExpression; it    *)
(* sets the status and leaves error and outputs alone.  When the condition *)
(* fails the item does not change and the caller is told.                  *)
StartCondition(j) == status[j] \notin {"ABSENT", "COMPLETE"}

UpdateProcessing(j) ==
    /\ status' = IF StartCondition(j)
                   THEN [status EXCEPT ![j] = "PROCESSING"] ELSE status
    /\ UNCHANGED <<outputs, errored, settled>>

(* Mutant: no REMOVE of the error.                                         *)
MutantCompleteKeepsError(j, sizes) ==
    /\ status' = [status EXCEPT ![j] = "COMPLETE"]
    /\ outputs' = [outputs EXCEPT ![j] = sizes]
    /\ settled' = settled \cup {j}
    /\ UNCHANGED errored

(* JobTable.mark_complete: UpdateItem without a condition, REMOVE error.   *)
UpdateComplete(j, sizes) ==
    /\ status' = [status EXCEPT ![j] = "COMPLETE"]
    /\ outputs' = [outputs EXCEPT ![j] = sizes]
    /\ errored' = errored \ {j}
    /\ settled' = settled \cup {j}

(* JobTable.mark_failed: UpdateItem without a condition, outputs are kept. *)
UpdateFailed(j) ==
    /\ status' = [status EXCEPT ![j] = "FAILED"]
    /\ errored' = errored \cup {j}
    /\ settled' = settled \cup {j}
    /\ UNCHANGED outputs

-----------------------------------------------------------------------------
(* JobQueue.send_job: one SendMessage request.                             *)
SendMessage(m) == place' = [place EXCEPT ![m] = "visible"] /\ UNCHANGED receives

(* JobQueue.receive: the message becomes invisible and its receive count   *)
(* goes up.  A message that has used up its receives is not handed out.    *)
CanReceive(m) == place[m] = "visible" /\ receives[m] < MaxReceive

ReceiveMessage(m) ==
    /\ place' = [place EXCEPT ![m] = "inflight"]
    /\ receives' = [receives EXCEPT ![m] = @ + 1]

(* JobQueue.delete: the latest receipt deletes a message that is still in  *)
(* the queue.  An older receipt may or may not: SQS answers with success   *)
(* either way.  In the dead-letter queue the receipt means nothing.        *)
DeleteMessage(r) ==
    LET m == r[1]
    IN  /\ \/ InQueue(m) /\ place' = [place EXCEPT ![m] = "deleted"]
           \/ (r[2] # receives[m] \/ ~InQueue(m)) /\ UNCHANGED place
        /\ UNCHANGED receives

(* The queue's own steps: the visibility timeout of a delivery runs out,   *)
(* and a message out of receives moves to the dead-letter queue.           *)
ExpireVisibility(m) ==
    /\ place[m] = "inflight"
    /\ place' = [place EXCEPT ![m] = "visible"]
    /\ UNCHANGED receives

(* Mutant: a queue without a redrive policy.                               *)
MutantNoRedrive(m) == FALSE /\ place' = place /\ receives' = receives

RedriveMessage(m) ==
    /\ place[m] = "visible"
    /\ receives[m] >= MaxReceive
    /\ place' = [place EXCEPT ![m] = "dlq"]
    /\ UNCHANGED receives
=============================================================================
