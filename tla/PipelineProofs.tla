--------------------------- MODULE PipelineProofs ---------------------------
(***************************************************************************)
(* Proofs, for every set of jobs, workers and sizes and every MaxReceive   *)
(* and Attempts, of the safety properties that TLC checks on the instances *)
(* of MCPipeline, from the inductive invariant PipelineInv.                *)
(***************************************************************************)
EXTENDS Pipeline, TLAPS

-----------------------------------------------------------------------------
(* Types.  A worker that is past its poll holds a receipt: without this    *)
(* part the history finishedBy could not be typed.                         *)

HoldsReceipt == \A w \in Workers : wpc[w] # "poll" => held[w] \in Receipts

TypeInv == TypeOK /\ HoldsReceipt

(* What a receipt is made of.                                              *)
LEMMA ReceiptParts ==
    ASSUME NEW r \in Receipts
    PROVE  /\ r[1] \in Messages /\ r[2] \in 1..MaxReceive
           /\ JobOf(r[1]) \in Jobs
           /\ r = <<r[1], r[2]>> /\ r[1] = <<r[1][1], r[1][2]>>
           /\ r[1][2] \in 1..Attempts
BY DEF Receipts, Messages, JobOf

(* The attempt counter of a retried call stays in range.                   *)
LEMMA RetryCount ==
    ASSUME NEW k \in 1..Attempts, NEW o, Retried(o, k)
    PROVE  k + 1 \in 1..Attempts
BY AttemptsAssumption DEF Retried

LEMMA OneInAttempts == 1 \in 1..Attempts
BY AttemptsAssumption

(* The steps of a worker between two calls keep its own variables typed.   *)
LEMMA WorkerMoves ==
    ASSUME TypeInv, NEW w \in Workers, finishedBy' \in SUBSET Receipts,
           \/ Release(w)
           \/ wpc[w] # "poll" /\ \E pc \in WorkerPcs : Goto(w, pc)
           \/ wpc[w] # "poll" /\ wTry[w] + 1 \in 1..Attempts /\ Retry(w)
    PROVE  WorkerTypeOK' /\ HoldsReceipt'
<1> USE OneInAttempts DEF TypeInv, TypeOK, WorkerTypeOK, HoldsReceipt
<1>1. CASE Release(w)
  BY <1>1 DEF Release, WorkerPcs
<1>2. CASE wpc[w] # "poll" /\ \E pc \in WorkerPcs : Goto(w, pc)
  BY <1>2 DEF Goto
<1>3. CASE wpc[w] # "poll" /\ wTry[w] + 1 \in 1..Attempts /\ Retry(w)
  BY <1>3 DEF Retry
<1> QED BY <1>1, <1>2, <1>3

LEMMA ApiMoves ==
    ASSUME ApiTypeOK, NEW j \in Jobs,
           \/ \E pc \in ApiPcs : ApiGoto(j, pc)
           \/ apiTry[j] + 1 \in 1..Attempts /\ ApiRetry(j)
    PROVE  ApiTypeOK'
BY OneInAttempts DEF ApiTypeOK, ApiGoto, ApiRetry

(* The requests keep the store's variables typed: one lemma per service.   *)
S3Type    == uploads \in SUBSET Jobs /\ thumbs \in SUBSET (Jobs \X Sizes)
TableType == /\ status \in [Jobs -> Statuses]
             /\ outputs \in [Jobs -> SUBSET Sizes]
             /\ errored \in SUBSET Jobs
             /\ settled \in SUBSET Jobs
QueueType ==
    /\ place \in [Messages -> {"absent", "visible", "inflight", "dlq", "deleted"}]
    /\ receives \in [Messages -> 0..MaxReceive]

LEMMA StoreParts ==
    StoreTypeOK <=> S3Type /\ TableType /\ QueueType /\ kind \in [Jobs -> Kinds]
BY DEF StoreTypeOK, S3Type, TableType, QueueType

LEMMA S3Requests ==
    ASSUME S3Type, NEW j \in Jobs,
           \/ PutUpload(j)
           \/ \E s \in Sizes : PutThumb(j, s)
           \/ UNCHANGED s3Vars
    PROVE  S3Type'
BY DEF S3Type, PutUpload, PutThumb, s3Vars

LEMMA TableRequests ==
    ASSUME TableType, NEW j \in Jobs,
           \/ \E s \in Statuses : PutItem(j, s)
           \/ UpdateProcessing(j)
           \/ \E S \in SUBSET Sizes : UpdateComplete(j, S)
           \/ UpdateFailed(j)
           \/ UNCHANGED tableVars
    PROVE  TableType'
<1> USE DEF TableType, Statuses, Terminal
<1>1. CASE \E s \in Statuses : PutItem(j, s)
  BY <1>1 DEF PutItem
<1>2. CASE UpdateProcessing(j)
  BY <1>2 DEF UpdateProcessing
<1>3. CASE \E S \in SUBSET Sizes : UpdateComplete(j, S)
  BY <1>3 DEF UpdateComplete
<1>4. CASE UpdateFailed(j)
  BY <1>4 DEF UpdateFailed
<1>5. CASE UNCHANGED tableVars
  BY <1>5 DEF tableVars
<1> QED BY <1>1, <1>2, <1>3, <1>4, <1>5

LEMMA QueueRequests ==
    ASSUME QueueType, NEW m \in Messages,
           \/ SendMessage(m)
           \/ CanReceive(m) /\ ReceiveMessage(m)
           \/ \E n \in 1..MaxReceive : DeleteMessage(<<m, n>>)
           \/ ExpireVisibility(m)
           \/ RedriveMessage(m)
           \/ UNCHANGED queueVars
    PROVE  QueueType'
<1> USE MaxReceiveAssumption DEF QueueType
<1>1. CASE SendMessage(m)
  BY <1>1 DEF SendMessage
<1>2. CASE CanReceive(m) /\ ReceiveMessage(m)
  BY <1>2 DEF CanReceive, ReceiveMessage
<1>3. CASE \E n \in 1..MaxReceive : DeleteMessage(<<m, n>>)
  BY <1>3 DEF DeleteMessage
<1>4. CASE ExpireVisibility(m)
  BY <1>4 DEF ExpireVisibility
<1>5. CASE RedriveMessage(m)
  BY <1>5 DEF RedriveMessage
<1>6. CASE UNCHANGED queueVars
  BY <1>6 DEF queueVars
<1> QED BY <1>1, <1>2, <1>3, <1>4, <1>5, <1>6

LEMMA InitType == Init => TypeInv
<1> SUFFICES ASSUME Init PROVE TypeInv
  OBVIOUS
<1> USE DEF Init
<1>1. StoreTypeOK
  BY MaxReceiveAssumption
  DEF StoreInit, StoreTypeOK, Statuses, Kinds
<1>2. ApiTypeOK
  BY OneInAttempts DEF ApiInit, ApiTypeOK, ApiPcs
<1>3. WorkerTypeOK /\ HoldsReceipt
  BY OneInAttempts DEF WorkerInit, WorkerTypeOK, WorkerPcs, HoldsReceipt
<1> QED BY <1>1, <1>2, <1>3 DEF TypeInv, TypeOK

(* Every step keeps the types: the API's steps move one request, a         *)
(* worker's steps one worker, and each makes at most one request.          *)
LEMMA ApiType ==
    ASSUME TypeInv, NEW j \in Jobs, ApiStep(j), UNCHANGED workerVars
    PROVE  TypeInv'
<1>0. /\ S3Type /\ TableType /\ QueueType /\ kind \in [Jobs -> Kinds]
      /\ ApiTypeOK /\ WorkerTypeOK /\ HoldsReceipt
  BY StoreParts DEF TypeInv, TypeOK
<1>1. WorkerTypeOK' /\ HoldsReceipt'
  BY <1>0 DEF workerVars, WorkerTypeOK, HoldsReceipt
<1>2. \A k \in 1..Attempts : <<j, k>> \in Messages
  BY DEF Messages
<1>3. apiTry[j] \in 1..Attempts
  BY <1>0 DEF ApiTypeOK
<1>4. ASSUME S3Type', TableType', QueueType', kind' \in [Jobs -> Kinds], ApiTypeOK'
      PROVE  TypeInv'
  BY <1>1, <1>4
  DEF TypeInv, TypeOK, StoreTypeOK, S3Type, TableType, QueueType
<1> USE DEF ApiPcs, ApiActive, Statuses, Terminal
<1>5. ASSUME NEW k \in Kinds, ApiBegin(j, k)  PROVE TypeInv'
  <2>1. ApiTypeOK'
    BY <1>0, <1>5, ApiMoves DEF ApiBegin
  <2>2. S3Type' /\ TableType' /\ QueueType' /\ kind' \in [Jobs -> Kinds]
    BY <1>0, <1>5 DEF ApiBegin, s3Vars, tableVars, queueVars, S3Type, TableType, QueueType
  <2> QED BY <1>4, <2>1, <2>2
<1>6. ASSUME NEW k \in Kinds, StraySend(j, k)  PROVE TypeInv'
  <2>1. ApiTypeOK'
    BY <1>0, <1>6, ApiMoves DEF StraySend
  <2>2. QueueType'
    BY <1>0, <1>2, <1>6, OneInAttempts, QueueRequests DEF StraySend
  <2>3. S3Type' /\ TableType' /\ kind' \in [Jobs -> Kinds]
    BY <1>0, <1>6 DEF StraySend, s3Vars, tableVars, S3Type, TableType
  <2> QED BY <1>4, <2>1, <2>2, <2>3
<1>7. ASSUME ApiPutObject(j)  PROVE TypeInv'
  <2>1. ApiTypeOK'
    BY <1>0, <1>7, ApiMoves DEF ApiPutObject
  <2>2. S3Type'
    BY <1>0, <1>7, S3Requests DEF ApiPutObject
  <2>3. TableType' /\ QueueType' /\ kind' \in [Jobs -> Kinds]
    BY <1>0, <1>7 DEF ApiPutObject, tableVars, queueVars, TableType, QueueType
  <2> QED BY <1>4, <2>1, <2>2, <2>3
<1>8. ASSUME ApiPutJob(j)  PROVE TypeInv'
  <2>1. ApiTypeOK'
    BY <1>0, <1>8, ApiMoves DEF ApiPutJob
  <2>2. TableType'
    BY <1>0, <1>8, TableRequests DEF ApiPutJob
  <2>3. S3Type' /\ QueueType' /\ kind' \in [Jobs -> Kinds]
    BY <1>0, <1>8 DEF ApiPutJob, s3Vars, queueVars, S3Type, QueueType
  <2> QED BY <1>4, <2>1, <2>2, <2>3
<1>9. ASSUME NEW o \in Outcomes, ApiSend(j, o)  PROVE TypeInv'
  <2>1. ApiTypeOK'
    BY <1>0, <1>3, <1>9, ApiMoves, RetryCount DEF ApiSend
  <2>2. QueueType'
    BY <1>0, <1>2, <1>3, <1>9, QueueRequests DEF ApiSend
  <2>3. S3Type' /\ TableType' /\ kind' \in [Jobs -> Kinds]
    BY <1>0, <1>9 DEF ApiSend, s3Vars, tableVars, S3Type, TableType
  <2> QED BY <1>4, <2>1, <2>2, <2>3
<1>10. ASSUME NEW o \in Outcomes, ApiMarkUnqueueable(j, o)  PROVE TypeInv'
  <2>1. ApiTypeOK'
    BY <1>0, <1>3, <1>10, ApiMoves, RetryCount DEF ApiMarkUnqueueable
  <2>2. TableType'
    BY <1>0, <1>10, TableRequests DEF ApiMarkUnqueueable
  <2>3. S3Type' /\ QueueType' /\ kind' \in [Jobs -> Kinds]
    BY <1>0, <1>10 DEF ApiMarkUnqueueable, s3Vars, queueVars, S3Type, QueueType
  <2> QED BY <1>4, <2>1, <2>2, <2>3
<1>11. ASSUME ApiCrash(j)  PROVE TypeInv'
  <2>1. ApiTypeOK'
    BY <1>0, <1>11, ApiMoves DEF ApiCrash
  <2>2. S3Type' /\ TableType' /\ QueueType' /\ kind' \in [Jobs -> Kinds]
    BY <1>0, <1>11 DEF ApiCrash, storeVars, s3Vars, tableVars, queueVars,
                       S3Type, TableType, QueueType
  <2> QED BY <1>4, <2>1, <2>2
<1> QED BY <1>5, <1>6, <1>7, <1>8, <1>9, <1>10, <1>11 DEF ApiStep

LEMMA WorkerType ==
    ASSUME TypeInv, NEW w \in Workers, WorkerStep(w), UNCHANGED apiVars
    PROVE  TypeInv'
<1>0. /\ S3Type /\ TableType /\ QueueType /\ kind \in [Jobs -> Kinds]
      /\ ApiTypeOK /\ WorkerTypeOK /\ HoldsReceipt
  BY StoreParts DEF TypeInv, TypeOK
<1>1. ApiTypeOK'
  BY <1>0 DEF apiVars, ApiTypeOK
<1>2. wpc[w] # "poll" => /\ held[w] \in Receipts
                         /\ JobOfW(w) \in Jobs /\ MsgOf(w) \in Messages
                         /\ held[w][2] \in 1..MaxReceive
                         /\ held[w] = <<MsgOf(w), held[w][2]>>
  BY <1>0, ReceiptParts DEF HoldsReceipt, JobOfW, MsgOf
<1>3. wTry[w] \in 1..Attempts /\ rendered[w] \in SUBSET Sizes
  BY <1>0 DEF WorkerTypeOK
<1>4. ASSUME S3Type', TableType', QueueType', kind' \in [Jobs -> Kinds],
             WorkerTypeOK', HoldsReceipt'
      PROVE  TypeInv'
  BY <1>1, <1>4
  DEF TypeInv, TypeOK, StoreTypeOK, S3Type, TableType, QueueType
<1>5. ASSUME UNCHANGED s3Vars    PROVE S3Type'
  BY <1>0, <1>5 DEF s3Vars, S3Type
<1>6. ASSUME UNCHANGED tableVars PROVE TableType'
  BY <1>0, <1>6 DEF tableVars, TableType
<1>7. ASSUME UNCHANGED queueVars PROVE QueueType'
  BY <1>0, <1>7 DEF queueVars, QueueType
<1>8. ASSUME UNCHANGED finishedBy PROVE finishedBy' \in SUBSET Receipts
  BY <1>0, <1>8 DEF WorkerTypeOK
<1>9. ASSUME UNCHANGED storeVars
      PROVE  S3Type' /\ TableType' /\ QueueType' /\ kind' \in [Jobs -> Kinds]
  BY <1>0, <1>5, <1>6, <1>7, <1>9 DEF storeVars
<1> USE DEF WorkerPcs
<1>10. ASSUME NEW m \in Messages, WorkerReceive(w, m)  PROVE TypeInv'
  <2>1. <<m, receives[m] + 1>> \in Receipts
    BY <1>0, <1>10, MaxReceiveAssumption
    DEF WorkerReceive, CanReceive, QueueType, Receipts
  <2>2. WorkerTypeOK' /\ HoldsReceipt'
    BY <1>0, <1>10, <2>1 DEF WorkerReceive, WorkerTypeOK, HoldsReceipt
  <2>3. QueueType'
    BY <1>0, <1>10, QueueRequests DEF WorkerReceive
  <2> QED BY <1>0, <1>4, <1>5, <1>6, <1>10, <2>2, <2>3 DEF WorkerReceive
<1>11. ASSUME NEW m \in Messages, WorkerReceiveLost(w, m)  PROVE TypeInv'
  <2>1. WorkerTypeOK' /\ HoldsReceipt'
    BY <1>0, <1>11 DEF WorkerReceiveLost, workerVars, WorkerTypeOK, HoldsReceipt
  <2>2. QueueType'
    BY <1>0, <1>11, QueueRequests DEF WorkerReceiveLost
  <2> QED BY <1>0, <1>4, <1>5, <1>6, <1>11, <2>1, <2>2 DEF WorkerReceiveLost
<1>12. ASSUME WorkerHandle(w)  PROVE TypeInv'
  BY <1>4, <1>8, <1>9, <1>12, WorkerMoves DEF WorkerHandle
<1>13. ASSUME WorkerGetJob(w)  PROVE TypeInv'
  BY <1>4, <1>8, <1>9, <1>13, WorkerMoves DEF WorkerGetJob
<1>14. ASSUME NEW o \in Outcomes, WorkerMarkProcessing(w, o)  PROVE TypeInv'
  <2>1. WorkerTypeOK' /\ HoldsReceipt'
    BY <1>3, <1>8, <1>14, RetryCount, WorkerMoves DEF WorkerMarkProcessing
  <2>2. TableType'
    BY <1>0, <1>2, <1>6, <1>14, TableRequests DEF WorkerMarkProcessing
  <2> QED BY <1>0, <1>4, <1>5, <1>7, <1>14, <2>1, <2>2 DEF WorkerMarkProcessing
<1>15. ASSUME WorkerRender(w)  PROVE TypeInv'
  BY <1>4, <1>8, <1>9, <1>15, WorkerMoves DEF WorkerRender
<1>16. ASSUME WorkerUpload(w)  PROVE TypeInv'
  <2>1. PICK s \in Sizes :
           \/ /\ PutThumb(JobOfW(w), s)
              /\ rendered' = [rendered EXCEPT ![w] = @ \cup {s}]
              /\ wpc' = [wpc EXCEPT ![w] =
                           IF rendered[w] \cup {s} = Sizes THEN "mark_complete" ELSE @]
              /\ UNCHANGED <<held, wTry>>
           \/ (PutThumb(JobOfW(w), s) \/ UNCHANGED s3Vars) /\ Release(w)
    BY <1>16 DEF WorkerUpload
  <2>2. S3Type'
    BY <1>0, <1>2, <1>5, <1>16, <2>1, S3Requests DEF WorkerUpload
  <2>3. WorkerTypeOK' /\ HoldsReceipt'
    <3>1. CASE Release(w)
      BY <1>8, <1>16, <3>1, WorkerMoves DEF WorkerUpload
    <3>2. CASE ~Release(w)
      BY <1>0, <1>16, <2>1, <3>2 DEF WorkerUpload, WorkerTypeOK, HoldsReceipt
    <3> QED BY <3>1, <3>2
  <2> QED BY <1>0, <1>4, <1>6, <1>7, <1>16, <2>2, <2>3 DEF WorkerUpload
<1>17. ASSUME NEW o \in Outcomes, WorkerMarkComplete(w, o)  PROVE TypeInv'
  <2>1. finishedBy' \in SUBSET Receipts
    BY <1>0, <1>2, <1>17 DEF WorkerMarkComplete, WorkerTypeOK
  <2>2. WorkerTypeOK' /\ HoldsReceipt'
    BY <1>3, <1>17, <2>1, RetryCount, WorkerMoves DEF WorkerMarkComplete
  <2>3. TableType'
    BY <1>0, <1>2, <1>3, <1>6, <1>17, TableRequests DEF WorkerMarkComplete
  <2> QED BY <1>0, <1>4, <1>5, <1>7, <1>17, <2>2, <2>3 DEF WorkerMarkComplete
<1>18. ASSUME NEW o \in Outcomes, WorkerMarkFailed(w, o)  PROVE TypeInv'
  <2>1. WorkerTypeOK' /\ HoldsReceipt'
    BY <1>3, <1>8, <1>18, RetryCount, WorkerMoves DEF WorkerMarkFailed
  <2>2. TableType'
    BY <1>0, <1>2, <1>6, <1>18, TableRequests DEF WorkerMarkFailed
  <2> QED BY <1>0, <1>4, <1>5, <1>7, <1>18, <2>1, <2>2 DEF WorkerMarkFailed
<1>19. ASSUME WorkerDelete(w)  PROVE TypeInv'
  <2>1. WorkerTypeOK' /\ HoldsReceipt'
    BY <1>8, <1>19, WorkerMoves DEF WorkerDelete
  <2>2. QueueType'
    BY <1>0, <1>2, <1>7, <1>19, QueueRequests DEF WorkerDelete
  <2> QED BY <1>0, <1>4, <1>5, <1>6, <1>19, <2>1, <2>2 DEF WorkerDelete
<1>20. ASSUME WorkerCrash(w)  PROVE TypeInv'
  BY <1>4, <1>8, <1>9, <1>20, WorkerMoves DEF WorkerCrash
<1> QED BY <1>10, <1>11, <1>12, <1>13, <1>14, <1>15, <1>16, <1>17, <1>18, <1>19, <1>20
        DEF WorkerStep, WorkerHandler

LEMMA QueueStepType ==
    ASSUME TypeInv, NEW m \in Messages, VisibilityTimeout(m) \/ Redrive(m)
    PROVE  TypeInv'
<1>1. QueueType'
  BY QueueRequests, StoreParts DEF TypeInv, TypeOK, VisibilityTimeout, Redrive
<1> QED
  BY <1>1 DEF TypeInv, TypeOK, VisibilityTimeout, Redrive, s3Vars, tableVars, apiVars,
     workerVars, StoreTypeOK, QueueType, ApiTypeOK, WorkerTypeOK, HoldsReceipt

(* The variables stay in their domains, and a worker past its poll holds a *)
(* receipt, in every reachable state of every instance.                    *)
THEOREM TypeCorrect == Spec => [](TypeOK /\ HoldsReceipt)
<1>1. TypeInv /\ UNCHANGED vars => TypeInv'
  BY DEF TypeInv, TypeOK, vars, storeVars, s3Vars, tableVars, queueVars, apiVars,
     workerVars, StoreTypeOK, ApiTypeOK, WorkerTypeOK, HoldsReceipt
<1>2. TypeInv /\ [Next]_vars => TypeInv'
  BY <1>1, ApiType, WorkerType, QueueStepType DEF Next
<1>3. Spec => []TypeInv
  BY <1>2, InitType, PTL DEF Spec
<1> QED BY <1>3, PTL DEF TypeInv

-----------------------------------------------------------------------------
(* A step of a request.  It can disturb what is recorded of its own job;   *)
(* workers that hold a message of the job only gain from it.               *)
LEMMA ApiInv ==
    ASSUME TypeInv, TypeInv', PipelineInv,
           NEW j \in Jobs, ApiStep(j), UNCHANGED workerVars
    PROVE  PipelineInv'
<1> USE DEF PipelineInv, TypeInv, TypeOK, StoreTypeOK, ApiTypeOK, WorkerTypeOK,
            HoldsReceipt, ApiGoto, ApiRetry, Applied, Stray, ApiActive,
            storeVars, s3Vars, tableVars, queueVars, workerVars
<1>a. \A w \in Workers : wpc[w] # "poll" =>
          JobOfW(w) \in Jobs /\ MsgOf(w) \in Messages
  BY ReceiptParts DEF JobOfW, MsgOf
<1>b. \A k \in 1..Attempts : <<j, k>> \in Messages /\ JobOf(<<j, k>>) = j
  BY DEF Messages, JobOf
<1>c. \A m \in Messages : JobOf(m) \in Jobs
  BY DEF Messages, JobOf
<1> USE <1>a, <1>b, <1>c, OneInAttempts
<1>1. ASSUME NEW k \in Kinds, ApiBegin(j, k)  PROVE PipelineInv'
  <2> USE <1>1 DEF ApiBegin
  <2>1. RequestOrder'
    BY DEF RequestOrder, Terminal
  <2>2. WorkerKnows'
    BY DEF WorkerKnows, JobOfW, MsgOf
  <2>3. QueuedIsBacked'
    BY DEF QueuedIsBacked, JobOf
  <2>4. NeverDroppedUnsettled'
    BY DEF NeverDroppedUnsettled, JobOf
  <2>5. RenderProgress' /\ RecordTellsTheTruth'
    BY DEF RenderProgress, JobOfW, MsgOf, RecordTellsTheTruth
  <2> QED BY <2>1, <2>2, <2>3, <2>4, <2>5 DEF PipelineInv
<1>2. ASSUME NEW k \in Kinds, StraySend(j, k)  PROVE PipelineInv'
  <2> USE <1>2 DEF StraySend, SendMessage
  <2>1. RequestOrder'
    BY DEF RequestOrder, Terminal
  <2>2. WorkerKnows'
    BY DEF WorkerKnows, JobOfW, MsgOf
  <2>3. QueuedIsBacked'
    BY DEF QueuedIsBacked, JobOf
  <2>4. NeverDroppedUnsettled'
    BY DEF NeverDroppedUnsettled, JobOf
  <2>5. RenderProgress' /\ RecordTellsTheTruth'
    BY DEF RenderProgress, JobOfW, MsgOf, RecordTellsTheTruth
  <2> QED BY <2>1, <2>2, <2>3, <2>4, <2>5 DEF PipelineInv
<1>3. ASSUME ApiPutObject(j)  PROVE PipelineInv'
  <2> USE <1>3 DEF ApiPutObject, PutUpload
  <2>1. RequestOrder'
    BY DEF RequestOrder, Terminal
  <2>2. WorkerKnows'
    BY DEF WorkerKnows, JobOfW, MsgOf
  <2>3. QueuedIsBacked'
    BY DEF QueuedIsBacked, JobOf
  <2>4. NeverDroppedUnsettled'
    BY DEF NeverDroppedUnsettled, JobOf
  <2>5. RenderProgress' /\ RecordTellsTheTruth'
    BY DEF RenderProgress, JobOfW, MsgOf, RecordTellsTheTruth
  <2> QED BY <2>1, <2>2, <2>3, <2>4, <2>5 DEF PipelineInv
<1>4. ASSUME ApiPutJob(j)  PROVE PipelineInv'
  <2> USE <1>4 DEF ApiPutJob, PutItem
  <2>1. RequestOrder'
    BY DEF RequestOrder, Terminal
  <2>2. WorkerKnows'
    BY DEF WorkerKnows, JobOfW, MsgOf, RequestOrder
  <2>3. QueuedIsBacked'
    BY DEF QueuedIsBacked, JobOf
  <2>4. RecordTellsTheTruth'
    BY DEF RecordTellsTheTruth, RequestOrder
  <2>5. NeverDroppedUnsettled'
    BY DEF NeverDroppedUnsettled, JobOf
  <2>6. RenderProgress'
    BY DEF RenderProgress, JobOfW, MsgOf
  <2> QED BY <2>1, <2>2, <2>3, <2>4, <2>5, <2>6 DEF PipelineInv
<1>5. ASSUME NEW o \in Outcomes, ApiSend(j, o)  PROVE PipelineInv'
  <2> USE <1>5 DEF ApiSend, SendMessage
  <2>1. RequestOrder'
    BY DEF RequestOrder, Terminal
  <2>2. WorkerKnows'
    BY DEF WorkerKnows, JobOfW, MsgOf
  <2>3. QueuedIsBacked'
    BY DEF QueuedIsBacked, JobOf, RequestOrder
  <2>4. NeverDroppedUnsettled'
    BY DEF NeverDroppedUnsettled, JobOf
  <2>5. RenderProgress' /\ RecordTellsTheTruth'
    BY DEF RenderProgress, JobOfW, MsgOf, RecordTellsTheTruth
  <2> QED BY <2>1, <2>2, <2>3, <2>4, <2>5 DEF PipelineInv
<1>6. ASSUME NEW o \in Outcomes, ApiMarkUnqueueable(j, o)  PROVE PipelineInv'
  <2> USE <1>6 DEF ApiMarkUnqueueable, PutItem
  <2>1. RequestOrder'
    BY DEF RequestOrder, Terminal
  <2>2. WorkerKnows'
    BY DEF WorkerKnows, JobOfW, MsgOf
  <2>3. QueuedIsBacked'
    BY DEF QueuedIsBacked, JobOf
  <2>4. RecordTellsTheTruth'
    BY DEF RecordTellsTheTruth
  <2>5. NeverDroppedUnsettled'
    BY DEF NeverDroppedUnsettled, JobOf
  <2>6. RenderProgress'
    BY DEF RenderProgress, JobOfW, MsgOf
  <2> QED BY <2>1, <2>2, <2>3, <2>4, <2>5, <2>6 DEF PipelineInv
<1>7. ASSUME ApiCrash(j)  PROVE PipelineInv'
  <2> USE <1>7 DEF ApiCrash
  <2>1. RequestOrder'
    BY DEF RequestOrder, Terminal
  <2>2. WorkerKnows'
    BY DEF WorkerKnows, JobOfW, MsgOf
  <2>3. QueuedIsBacked'
    BY DEF QueuedIsBacked, JobOf
  <2>4. NeverDroppedUnsettled'
    BY DEF NeverDroppedUnsettled, JobOf
  <2>5. RenderProgress' /\ RecordTellsTheTruth'
    BY DEF RenderProgress, JobOfW, MsgOf, RecordTellsTheTruth
  <2> QED BY <2>1, <2>2, <2>3, <2>4, <2>5 DEF PipelineInv
<1> QED BY <1>1, <1>2, <1>3, <1>4, <1>5, <1>6, <1>7 DEF ApiStep

(* A step of a worker.  What it may write next follows from what it        *)
(* learned earlier, although the item may have changed since.              *)
LEMMA WorkerInv ==
    ASSUME TypeInv, TypeInv', PipelineInv,
           NEW w \in Workers, WorkerStep(w), UNCHANGED apiVars
    PROVE  PipelineInv'
<1> USE DEF PipelineInv, TypeInv, TypeOK, StoreTypeOK, ApiTypeOK, WorkerTypeOK,
            HoldsReceipt, Goto, Retry, Release, Applied, Stray, PastLookup,
            storeVars, s3Vars, tableVars, queueVars, apiVars, workerVars
<1>a. \A v \in Workers : wpc[v] # "poll" =>
          JobOfW(v) \in Jobs /\ MsgOf(v) \in Messages /\ JobOfW(v) = JobOf(MsgOf(v))
  BY ReceiptParts DEF JobOfW, MsgOf
<1>c. \A m \in Messages : JobOf(m) \in Jobs
  BY DEF Messages, JobOf
<1> USE <1>a, <1>c
<1>1. ASSUME NEW m \in Messages, WorkerReceive(w, m)  PROVE PipelineInv'
  <2> USE <1>1 DEF WorkerReceive, CanReceive, ReceiveMessage
  <2>1. WorkerKnows'
    BY DEF WorkerKnows, JobOfW, MsgOf
  <2>2. RenderProgress'
    BY DEF RenderProgress, JobOfW, MsgOf
  <2>3. QueuedIsBacked'
    BY DEF QueuedIsBacked, JobOf
  <2>4. NeverDroppedUnsettled'
    BY DEF NeverDroppedUnsettled, JobOf
  <2>5. RequestOrder' /\ RecordTellsTheTruth'
    BY DEF RequestOrder, Terminal, RecordTellsTheTruth
  <2> QED BY <2>1, <2>2, <2>3, <2>4, <2>5 DEF PipelineInv
<1>2. ASSUME NEW m \in Messages, WorkerReceiveLost(w, m)  PROVE PipelineInv'
  <2> USE <1>2 DEF WorkerReceiveLost, CanReceive, ReceiveMessage
  <2>1. WorkerKnows'
    BY DEF WorkerKnows, JobOfW, MsgOf
  <2>2. QueuedIsBacked'
    BY DEF QueuedIsBacked, JobOf
  <2>3. NeverDroppedUnsettled'
    BY DEF NeverDroppedUnsettled, JobOf
  <2>4. RequestOrder' /\ RenderProgress' /\ RecordTellsTheTruth'
    BY DEF RequestOrder, Terminal, RenderProgress, JobOfW, MsgOf, RecordTellsTheTruth
  <2> QED BY <2>1, <2>2, <2>3, <2>4 DEF PipelineInv
<1>3. ASSUME WorkerHandle(w)  PROVE PipelineInv'
  <2> USE <1>3 DEF WorkerHandle
  <2>1. WorkerKnows'
    BY DEF WorkerKnows, JobOfW, MsgOf, RequestOrder
  <2>2. RenderProgress'
    BY DEF RenderProgress, JobOfW, MsgOf
  <2>3. RequestOrder' /\ QueuedIsBacked' /\ RecordTellsTheTruth' /\ NeverDroppedUnsettled'
    BY DEF RequestOrder, Terminal, QueuedIsBacked, JobOf, RecordTellsTheTruth,
           NeverDroppedUnsettled
  <2> QED BY <2>1, <2>2, <2>3 DEF PipelineInv
<1>4. ASSUME WorkerGetJob(w)  PROVE PipelineInv'
  <2> USE <1>4 DEF WorkerGetJob
  <2>1. WorkerKnows'
    BY DEF WorkerKnows, JobOfW, MsgOf, RequestOrder, Terminal, QueuedIsBacked
  <2>2. RenderProgress'
    BY DEF RenderProgress, JobOfW, MsgOf
  <2>3. RequestOrder' /\ QueuedIsBacked' /\ RecordTellsTheTruth' /\ NeverDroppedUnsettled'
    BY DEF RequestOrder, Terminal, QueuedIsBacked, JobOf, RecordTellsTheTruth,
           NeverDroppedUnsettled
  <2> QED BY <2>1, <2>2, <2>3 DEF PipelineInv
<1>5. ASSUME NEW o \in Outcomes, WorkerMarkProcessing(w, o)  PROVE PipelineInv'
  <2> USE <1>5 DEF WorkerMarkProcessing, UpdateProcessing, StartCondition
  <2>1. RequestOrder'
    BY DEF RequestOrder, Terminal, WorkerKnows
  <2>2. WorkerKnows'
    BY DEF WorkerKnows, JobOfW, MsgOf, RequestOrder, Terminal
  <2>3. RenderProgress'
    BY DEF RenderProgress, JobOfW, MsgOf
  <2>4. QueuedIsBacked'
    BY DEF QueuedIsBacked, JobOf
  <2>5. RecordTellsTheTruth'
    BY DEF RecordTellsTheTruth
  <2>6. NeverDroppedUnsettled'
    BY DEF NeverDroppedUnsettled, JobOf
  <2> QED BY <2>1, <2>2, <2>3, <2>4, <2>5, <2>6 DEF PipelineInv
<1>6. ASSUME WorkerRender(w)  PROVE PipelineInv'
  <2> USE <1>6 DEF WorkerRender
  <2>1. WorkerKnows'
    BY DEF WorkerKnows, JobOfW, MsgOf
  <2>2. RenderProgress'
    BY DEF RenderProgress, JobOfW, MsgOf
  <2>3. RequestOrder' /\ QueuedIsBacked' /\ RecordTellsTheTruth' /\ NeverDroppedUnsettled'
    BY DEF RequestOrder, Terminal, QueuedIsBacked, JobOf, RecordTellsTheTruth,
           NeverDroppedUnsettled
  <2> QED BY <2>1, <2>2, <2>3 DEF PipelineInv
<1>7. ASSUME WorkerUpload(w)  PROVE PipelineInv'
  <2> USE <1>7 DEF WorkerUpload, PutThumb
  <2>1. WorkerKnows'
    BY DEF WorkerKnows, JobOfW, MsgOf
  <2>2. RenderProgress'
    <3>1. PICK s \in Sizes :
             \/ /\ PutThumb(JobOfW(w), s)
                /\ rendered' = [rendered EXCEPT ![w] = @ \cup {s}]
                /\ wpc' = [wpc EXCEPT ![w] =
                             IF rendered[w] \cup {s} = Sizes THEN "mark_complete" ELSE @]
                /\ UNCHANGED <<held, wTry>>
             \/ (PutThumb(JobOfW(w), s) \/ UNCHANGED s3Vars) /\ Release(w)
      OBVIOUS
    <3>2. thumbs \subseteq thumbs'
      BY <3>1
    <3>3. \A v \in Workers \ {w} :
              wpc'[v] = wpc[v] /\ held'[v] = held[v] /\ rendered'[v] = rendered[v]
      BY <3>1
    <3>4. CASE Release(w)
      BY <3>2, <3>3, <3>4 DEF RenderProgress, JobOfW, MsgOf
    <3>5. CASE ~Release(w)
      <4>1. <<JobOfW(w), s>> \in thumbs' /\ held' = held
        BY <3>1, <3>5
      <4>2. rendered'[w] = rendered[w] \cup {s}
        BY <3>1, <3>5
      <4>3. wpc'[w] = "mark_complete" => rendered'[w] = Sizes
        BY <3>1, <3>5, <4>2
      <4>4. wpc'[w] # "poll"
        BY <3>1, <3>5
      <4> QED BY <3>2, <3>3, <4>1, <4>2, <4>3, <4>4 DEF RenderProgress, JobOfW, MsgOf
    <3> QED BY <3>4, <3>5
  <2>3. RecordTellsTheTruth'
    BY DEF RecordTellsTheTruth
  <2>4. RequestOrder' /\ QueuedIsBacked' /\ NeverDroppedUnsettled'
    BY DEF RequestOrder, Terminal, QueuedIsBacked, JobOf, NeverDroppedUnsettled
  <2> QED BY <2>1, <2>2, <2>3, <2>4 DEF PipelineInv
<1>8. ASSUME NEW o \in Outcomes, WorkerMarkComplete(w, o)  PROVE PipelineInv'
  <2> USE <1>8 DEF WorkerMarkComplete, UpdateComplete
  <2>1. RequestOrder'
    BY DEF RequestOrder, Terminal, WorkerKnows
  <2>2. WorkerKnows'
    BY DEF WorkerKnows, JobOfW, MsgOf
  <2>3. RenderProgress'
    BY DEF RenderProgress, JobOfW, MsgOf
  <2>4. QueuedIsBacked'
    BY DEF QueuedIsBacked, JobOf
  <2>5. RecordTellsTheTruth'
    BY DEF RecordTellsTheTruth, RenderProgress
  <2>6. NeverDroppedUnsettled'
    BY DEF NeverDroppedUnsettled, JobOf
  <2> QED BY <2>1, <2>2, <2>3, <2>4, <2>5, <2>6 DEF PipelineInv
<1>9. ASSUME NEW o \in Outcomes, WorkerMarkFailed(w, o)  PROVE PipelineInv'
  <2> USE <1>9 DEF WorkerMarkFailed, UpdateFailed
  <2>1. RequestOrder'
    BY DEF RequestOrder, Terminal, WorkerKnows
  <2>2. WorkerKnows'
    BY DEF WorkerKnows, JobOfW, MsgOf
  <2>3. RenderProgress'
    BY DEF RenderProgress, JobOfW, MsgOf
  <2>4. QueuedIsBacked'
    BY DEF QueuedIsBacked, JobOf
  <2>5. RecordTellsTheTruth'
    BY DEF RecordTellsTheTruth
  <2>6. NeverDroppedUnsettled'
    BY DEF NeverDroppedUnsettled, JobOf
  <2> QED BY <2>1, <2>2, <2>3, <2>4, <2>5, <2>6 DEF PipelineInv
<1>10. ASSUME WorkerDelete(w)  PROVE PipelineInv'
  <2> USE <1>10 DEF WorkerDelete, DeleteMessage, InQueue
  <2>1. WorkerKnows'
    BY DEF WorkerKnows, JobOfW, MsgOf
  <2>2. RenderProgress'
    BY DEF RenderProgress, JobOfW, MsgOf
  <2>3. QueuedIsBacked'
    BY DEF QueuedIsBacked, JobOf, WorkerKnows, JobOfW, MsgOf
  <2>4. NeverDroppedUnsettled'
    BY DEF NeverDroppedUnsettled, JobOf, WorkerKnows, JobOfW, MsgOf
  <2>5. RequestOrder' /\ RecordTellsTheTruth'
    BY DEF RequestOrder, Terminal, RecordTellsTheTruth
  <2> QED BY <2>1, <2>2, <2>3, <2>4, <2>5 DEF PipelineInv
<1>11. ASSUME WorkerCrash(w)  PROVE PipelineInv'
  <2> USE <1>11 DEF WorkerCrash
  <2>1. WorkerKnows'
    BY DEF WorkerKnows, JobOfW, MsgOf
  <2>2. RenderProgress'
    BY DEF RenderProgress, JobOfW, MsgOf
  <2>3. RequestOrder' /\ QueuedIsBacked' /\ RecordTellsTheTruth' /\ NeverDroppedUnsettled'
    BY DEF RequestOrder, Terminal, QueuedIsBacked, JobOf, RecordTellsTheTruth,
           NeverDroppedUnsettled
  <2> QED BY <2>1, <2>2, <2>3 DEF PipelineInv
<1> QED BY <1>1, <1>2, <1>3, <1>4, <1>5, <1>6, <1>7, <1>8, <1>9, <1>10, <1>11
        DEF WorkerStep, WorkerHandler

(* A step of the queue by itself: no message is unsent or deleted by it.   *)
LEMMA QueueInv ==
    ASSUME TypeInv, PipelineInv, NEW m \in Messages, VisibilityTimeout(m) \/ Redrive(m)
    PROVE  PipelineInv'
<1>1. /\ \A l \in Messages : place'[l] # "absent" <=> place[l] # "absent"
      /\ \A l \in Messages : place'[l] = "deleted" <=> place[l] = "deleted"
  BY DEF VisibilityTimeout, Redrive, ExpireVisibility, RedriveMessage,
         TypeInv, TypeOK, StoreTypeOK
<1>2. UNCHANGED <<s3Vars, tableVars, kind, apiVars, workerVars>>
  BY DEF VisibilityTimeout, Redrive
<1> USE <1>1, <1>2 DEF PipelineInv, s3Vars, tableVars, apiVars, workerVars, Stray
<1>3. WorkerKnows'
  <2>1. \A w \in Workers : wpc[w] # "poll" => MsgOf(w) \in Messages
    BY ReceiptParts DEF TypeInv, HoldsReceipt, MsgOf
  <2> QED BY <2>1 DEF WorkerKnows, MsgOf, JobOfW
<1>4. QueuedIsBacked' /\ NeverDroppedUnsettled'
  BY DEF QueuedIsBacked, NeverDroppedUnsettled
<1>5. RequestOrder' /\ RenderProgress' /\ RecordTellsTheTruth'
  BY DEF RequestOrder, RenderProgress, RecordTellsTheTruth, JobOfW, MsgOf
<1> QED BY <1>3, <1>4, <1>5

LEMMA InitInv == Init => PipelineInv
<1> SUFFICES ASSUME Init PROVE PipelineInv
  OBVIOUS
<1> USE DEF Init, StoreInit, ApiInit, WorkerInit
<1>1. RequestOrder
  BY DEF RequestOrder, Terminal
<1>2. WorkerKnows /\ RenderProgress
  BY DEF WorkerKnows, RenderProgress
<1>3. QueuedIsBacked /\ RecordTellsTheTruth /\ NeverDroppedUnsettled
  BY DEF QueuedIsBacked, RecordTellsTheTruth, NeverDroppedUnsettled
<1> QED BY <1>1, <1>2, <1>3 DEF PipelineInv

LEMMA NextInv == TypeInv /\ TypeInv' /\ PipelineInv /\ [Next]_vars => PipelineInv'
<1> SUFFICES ASSUME TypeInv, TypeInv', PipelineInv, [Next]_vars PROVE PipelineInv'
  OBVIOUS
<1>1. CASE UNCHANGED vars
  BY <1>1 DEF vars, storeVars, s3Vars, tableVars, queueVars, apiVars, workerVars,
     PipelineInv, RequestOrder, WorkerKnows, RenderProgress, QueuedIsBacked,
     RecordTellsTheTruth, NeverDroppedUnsettled, Stray, JobOfW, MsgOf
<1> QED BY <1>1, ApiInv, WorkerInv, QueueInv DEF Next

(* The inductive invariant holds in every instance.                        *)
THEOREM InvariantHolds == Spec => []PipelineInv
<1>1. Spec => []TypeInv
  BY TypeCorrect, PTL DEF TypeInv
<1> QED BY <1>1, InitInv, NextInv, PTL DEF Spec

(* A message of the API always has its upload and its record behind it.    *)
THEOREM QueuedIsBackedAlways == Spec => []QueuedIsBacked
<1>1. PipelineInv => QueuedIsBacked
  BY DEF PipelineInv
<1> QED BY <1>1, InvariantHolds, PTL

(* COMPLETE means every thumbnail is stored, FAILED means there is a       *)
(* reason, whoever wrote last.                                             *)
THEOREM RecordTellsTheTruthAlways == Spec => []RecordTellsTheTruth
<1>1. PipelineInv => RecordTellsTheTruth
  BY DEF PipelineInv
<1> QED BY <1>1, InvariantHolds, PTL

(* A message of the API is deleted only once its job has been terminal.    *)
THEOREM NeverDroppedUnsettledAlways == Spec => []NeverDroppedUnsettled
<1>1. PipelineInv => NeverDroppedUnsettled
  BY DEF PipelineInv
<1> QED BY <1>1, InvariantHolds, PTL

-----------------------------------------------------------------------------
(* What an accepted job can count on.                                      *)

(* create_job returns only after a send was answered, and nothing unsends  *)
(* a message: an accepted job has one, wherever it is by now.              *)
SentInv ==
    \A j \in Jobs : apiPc[j] = "accepted" =>
        \E k \in 1..Attempts : place[<<j, k>>] # "absent"

(* No step takes a message that was sent back to not sent.                 *)
LEMMA NothingUnsent ==
    ASSUME TypeInv, [Next]_vars, NEW m \in Messages, place[m] # "absent"
    PROVE  place'[m] # "absent"
<1> USE DEF TypeInv, TypeOK, StoreTypeOK, storeVars, queueVars
<1>1. ASSUME NEW j \in Jobs, ApiStep(j) PROVE place'[m] # "absent"
  BY <1>1 DEF ApiStep, ApiBegin, StraySend, ApiPutObject, ApiPutJob, ApiSend,
     ApiMarkUnqueueable, ApiCrash, SendMessage
<1>2. ASSUME NEW w \in Workers, WorkerStep(w) PROVE place'[m] # "absent"
  BY <1>2 DEF WorkerStep, WorkerHandler, WorkerReceive, WorkerReceiveLost, WorkerHandle,
     WorkerGetJob, WorkerMarkProcessing, WorkerRender, WorkerUpload, WorkerMarkComplete,
     WorkerMarkFailed, WorkerDelete, WorkerCrash, ReceiveMessage, DeleteMessage
<1>3. ASSUME NEW l \in Messages, VisibilityTimeout(l) \/ Redrive(l) PROVE place'[m] # "absent"
  BY <1>3 DEF VisibilityTimeout, Redrive, ExpireVisibility, RedriveMessage
<1>4. CASE UNCHANGED vars
  BY <1>4 DEF vars
<1> QED BY <1>1, <1>2, <1>3, <1>4 DEF Next

LEMMA SentStep == TypeInv /\ SentInv /\ [Next]_vars => SentInv'
<1> SUFFICES ASSUME TypeInv, SentInv, [Next]_vars, NEW j \in Jobs, apiPc'[j] = "accepted"
             PROVE  \E k \in 1..Attempts : place'[<<j, k>>] # "absent"
  BY DEF SentInv
<1>1. \A k \in 1..Attempts : <<j, k>> \in Messages
  BY DEF Messages
<1>2. CASE apiPc[j] = "accepted"
  <2>1. PICK k \in 1..Attempts : place[<<j, k>>] # "absent"
    BY <1>2 DEF SentInv
  <2> QED BY <1>1, <2>1, NothingUnsent
<1>3. CASE apiPc[j] # "accepted"
  <2> USE DEF TypeInv, TypeOK, ApiTypeOK, StoreTypeOK
  <2>1. PICK i \in Jobs : ApiStep(i)
    BY <1>3 DEF Next, vars, apiVars, VisibilityTimeout, Redrive
  <2>2. ApiSend(j, "ok")
    BY <1>3, <2>1 DEF ApiStep, ApiBegin, StraySend, ApiPutObject, ApiPutJob, ApiSend,
       ApiMarkUnqueueable, ApiCrash, ApiGoto, ApiRetry
  <2>3. apiTry[j] \in 1..Attempts /\ place'[<<j, apiTry[j]>>] = "visible"
    BY <1>1, <2>2 DEF ApiSend, SendMessage, Applied
  <2> QED BY <2>3
<1> QED BY <1>2, <1>3

(* The safety half of "a crash mid-job results in redelivery" (README      *)
(* 463-467): at every moment a job the API accepted has a message on the   *)
(* queue or in the dead-letter queue, or has been terminal.                *)
THEOREM AcceptedIsTracked ==
    Spec => [](\A j \in Jobs : apiPc[j] = "accepted" => Tracked(j) \/ j \in settled)
<1>1. Init => SentInv
  BY DEF Init, ApiInit, SentInv
<1>2. TypeInv /\ PipelineInv /\ SentInv =>
          \A j \in Jobs : apiPc[j] = "accepted" => Tracked(j) \/ j \in settled
  <2> SUFFICES ASSUME TypeInv, PipelineInv, SentInv, NEW j \in Jobs, apiPc[j] = "accepted"
               PROVE  Tracked(j) \/ j \in settled
    OBVIOUS
  <2>1. PICK k \in 1..Attempts : place[<<j, k>>] # "absent"
    BY DEF SentInv
  <2>2. <<j, k>> \in Messages /\ JobOf(<<j, k>>) = j
    BY DEF Messages, JobOf
  <2>3. place[<<j, k>>] \in {"visible", "inflight", "dlq", "deleted"}
    BY <2>1, <2>2 DEF TypeInv, TypeOK, StoreTypeOK
  <2>4. CASE place[<<j, k>>] = "deleted"
    BY <2>2, <2>4 DEF PipelineInv, NeverDroppedUnsettled, Stray
  <2> QED BY <2>3, <2>4 DEF Tracked
<1>3. Spec => []TypeInv
  BY TypeCorrect, PTL DEF TypeInv
<1> QED BY <1>1, <1>2, <1>3, SentStep, InvariantHolds, PTL DEF Spec

-----------------------------------------------------------------------------
(* Refinement of JobLifecycle.                                             *)

Live == {"visible", "inflight", "dlq"}

(* A step that moves no message in or out of the tracked places, and makes *)
(* no tracked job stray, leaves the tracked jobs as they are.              *)
LEMMA TrackedSame ==
    ASSUME \A m \in Messages : place'[m] \in Live <=> place[m] \in Live,
           \A j \in Jobs : Stray(j)' <=> Stray(j)
    PROVE  TrackedJobs' = TrackedJobs
BY DEF TrackedJobs, Tracked, Live, Messages

LEMMA ApiRefines ==
    ASSUME TypeInv, PipelineInv, NEW j \in Jobs, ApiStep(j), UNCHANGED workerVars
    PROVE  [Lifecycle!Next]_Lifecycle!vars
<1> USE DEF PipelineInv, TypeInv, TypeOK, StoreTypeOK, ApiTypeOK, ApiGoto, ApiRetry,
            Applied, s3Vars, tableVars, queueVars, storeVars
<1>a. \A k \in 1..Attempts : <<j, k>> \in Messages /\ JobOf(<<j, k>>) = j
  BY DEF Messages, JobOf
<1>1. ASSUME NEW k \in Kinds, ApiBegin(j, k)
      PROVE  UNCHANGED Lifecycle!vars
  BY <1>1, TrackedSame DEF ApiBegin, Stray, Lifecycle!vars
<1>2. ASSUME NEW k \in Kinds, StraySend(j, k)
      PROVE  UNCHANGED Lifecycle!vars
  <2>1. \A l \in 1..Attempts : place[<<j, l>>] = "absent"
    BY <1>2, <1>a DEF StraySend, QueuedIsBacked, RequestOrder, Stray
  <2>2. j \notin TrackedJobs /\ j \notin TrackedJobs'
    BY <1>2, <2>1 DEF StraySend, TrackedJobs, Tracked, Stray
  <2>3. ASSUME NEW i \in Jobs \ {j} PROVE i \in TrackedJobs' <=> i \in TrackedJobs
    BY <1>2, <1>a, OneInAttempts
    DEF StraySend, SendMessage, TrackedJobs, Tracked, Stray, Messages
  <2>4. TrackedJobs' = TrackedJobs
    BY <2>2, <2>3 DEF TrackedJobs
  <2> QED BY <1>2, <2>4 DEF StraySend, Lifecycle!vars
<1>3. ASSUME ApiPutObject(j)
      PROVE  UNCHANGED Lifecycle!vars
  BY <1>3, TrackedSame DEF ApiPutObject, Stray, Lifecycle!vars
<1>4. ASSUME ApiPutJob(j)
      PROVE  Lifecycle!Submit(j) \/ UNCHANGED Lifecycle!vars
  <2>1. TrackedJobs' = TrackedJobs
    BY <1>4, TrackedSame DEF ApiPutJob, Stray
  <2>2. status[j] = "ABSENT"
    BY <1>4 DEF ApiPutJob, RequestOrder
  <2> QED BY <1>4, <2>1, <2>2
      DEF ApiPutJob, PutItem, Terminal, Lifecycle!Submit, Lifecycle!vars
<1>5. ASSUME NEW o \in Outcomes, ApiSend(j, o)
      PROVE  Lifecycle!Enqueue(j) \/ UNCHANGED Lifecycle!vars
  <2>1. status[j] # "ABSENT" /\ ~Stray(j) /\ UNCHANGED <<status, settled>>
    BY <1>5 DEF ApiSend, RequestOrder, Stray
  <2>2. \A i \in Jobs : Stray(i)' <=> Stray(i)
    BY <1>5 DEF ApiSend, Stray
  <2>3. CASE Applied(o)
    <3>1. place' = [place EXCEPT ![<<j, apiTry[j]>>] = "visible"]
      BY <1>5, <2>3 DEF ApiSend, SendMessage
    <3>2. TrackedJobs' = TrackedJobs \cup {j}
      BY <1>a, <2>1, <2>2, <3>1 DEF TrackedJobs, Tracked, Messages
    <3> QED BY <2>1, <3>2 DEF Lifecycle!Enqueue
  <2>4. CASE ~Applied(o)
    BY <1>5, <2>1, <2>2, <2>4, TrackedSame DEF ApiSend, Lifecycle!vars
  <2> QED BY <2>3, <2>4
<1>6. ASSUME NEW o \in Outcomes, ApiMarkUnqueueable(j, o)
      PROVE  Lifecycle!Settle(j, "FAILED") \/ UNCHANGED Lifecycle!vars
  <2>1. TrackedJobs' = TrackedJobs
    BY <1>6, TrackedSame DEF ApiMarkUnqueueable, Stray
  <2>2. status[j] # "ABSENT"
    BY <1>6 DEF ApiMarkUnqueueable, RequestOrder
  <2> QED BY <1>6, <2>1, <2>2
      DEF ApiMarkUnqueueable, PutItem, Terminal, Lifecycle!Settle, Lifecycle!vars
<1>7. ASSUME ApiCrash(j)
      PROVE  UNCHANGED Lifecycle!vars
  BY <1>7, TrackedSame DEF ApiCrash, ApiActive, Stray, Lifecycle!vars
<1> QED BY <1>1, <1>2, <1>3, <1>4, <1>5, <1>6, <1>7 DEF ApiStep, Lifecycle!Next

LEMMA WorkerRefines ==
    ASSUME TypeInv, PipelineInv, NEW w \in Workers, WorkerStep(w), UNCHANGED apiVars
    PROVE  [Lifecycle!Next]_Lifecycle!vars
<1> USE DEF PipelineInv, TypeInv, TypeOK, StoreTypeOK, s3Vars, tableVars, queueVars,
            storeVars, Applied, PastLookup
<1>a. wpc[w] # "poll" =>
          /\ JobOfW(w) \in Jobs /\ MsgOf(w) \in Messages
          /\ MsgOf(w) = <<JobOfW(w), MsgOf(w)[2]>> /\ MsgOf(w)[2] \in 1..Attempts
          /\ held[w][1] = MsgOf(w)
  BY ReceiptParts DEF HoldsReceipt, JobOfW, JobOf, MsgOf
<1>b. \A j \in Jobs : Stray(j)' <=> Stray(j)
  BY DEF apiVars, Stray
<1>c. ASSUME UNCHANGED queueVars PROVE TrackedJobs' = TrackedJobs
  BY <1>b, <1>c, TrackedSame
<1>1. ASSUME NEW m \in Messages, WorkerReceive(w, m) \/ WorkerReceiveLost(w, m)
      PROVE  UNCHANGED Lifecycle!vars
  <2>1. TrackedJobs' = TrackedJobs
    BY <1>1, <1>b, TrackedSame
    DEF WorkerReceive, WorkerReceiveLost, CanReceive, ReceiveMessage, Live
  <2> QED BY <1>1, <2>1 DEF WorkerReceive, WorkerReceiveLost, Lifecycle!vars
<1>2. ASSUME WorkerHandle(w) \/ WorkerGetJob(w) \/ WorkerRender(w) \/ WorkerCrash(w)
      PROVE  UNCHANGED Lifecycle!vars
  BY <1>2, <1>c DEF WorkerHandle, WorkerGetJob, WorkerRender, WorkerCrash, Lifecycle!vars
<1>3. ASSUME WorkerUpload(w)
      PROVE  UNCHANGED Lifecycle!vars
  BY <1>3, <1>c DEF WorkerUpload, Lifecycle!vars
<1>4. ASSUME NEW o \in Outcomes, WorkerMarkProcessing(w, o)
      PROVE  Lifecycle!Start(JobOfW(w)) \/ UNCHANGED Lifecycle!vars
  BY <1>4, <1>a, <1>c DEF WorkerMarkProcessing, UpdateProcessing, StartCondition,
     Lifecycle!Start, Lifecycle!vars
<1>5. ASSUME NEW o \in Outcomes, WorkerMarkComplete(w, o)
      PROVE  Lifecycle!Settle(JobOfW(w), "COMPLETE") \/ UNCHANGED Lifecycle!vars
  BY <1>5, <1>a, <1>c DEF WorkerMarkComplete, UpdateComplete, WorkerKnows,
     Lifecycle!Settle, Lifecycle!vars
<1>6. ASSUME NEW o \in Outcomes, WorkerMarkFailed(w, o)
      PROVE  Lifecycle!Settle(JobOfW(w), "FAILED") \/ UNCHANGED Lifecycle!vars
  BY <1>6, <1>a, <1>c DEF WorkerMarkFailed, UpdateFailed, WorkerKnows,
     Lifecycle!Settle, Lifecycle!vars
<1>7. ASSUME WorkerDelete(w)
      PROVE  Lifecycle!Retire(JobOfW(w)) \/ UNCHANGED Lifecycle!vars
  <2> DEFINE j == JobOfW(w)
  <2>1. wpc[w] = "delete" /\ UNCHANGED <<status, settled>>
    BY <1>7 DEF WorkerDelete
  <2>2. ~Stray(j) => j \in settled
    BY <2>1 DEF WorkerKnows
  <2>3. CASE UNCHANGED place
    BY <1>b, <2>1, <2>3, TrackedSame DEF Lifecycle!vars
  <2>4. CASE place' = [place EXCEPT ![MsgOf(w)] = "deleted"]
    <3>1. ASSUME NEW i \in Jobs \ {j} PROVE i \in TrackedJobs' <=> i \in TrackedJobs
      <4>1. ASSUME NEW k \in 1..Attempts PROVE place'[<<i, k>>] = place[<<i, k>>]
        <5>1. <<i, k>> \in Messages /\ <<i, k>> # MsgOf(w)
          BY <1>a, <2>1 DEF Messages
        <5> QED BY <2>4, <5>1
      <4> QED BY <1>b, <4>1 DEF TrackedJobs, Tracked
    <3>2. j \in TrackedJobs' => j \in TrackedJobs
      BY <1>a, <1>b, <2>1, <2>4 DEF TrackedJobs, Tracked, Messages
    <3>3. TrackedJobs' = TrackedJobs \/ (j \in TrackedJobs /\ TrackedJobs' = TrackedJobs \ {j})
      BY <3>1, <3>2 DEF TrackedJobs
    <3>4. j \in TrackedJobs => ~Stray(j)
      BY DEF TrackedJobs
    <3> QED BY <2>1, <2>2, <3>3, <3>4 DEF Lifecycle!Retire, Lifecycle!vars
  <2> QED BY <1>7, <1>a, <2>1, <2>3, <2>4 DEF WorkerDelete, DeleteMessage
<1> QED BY <1>a, <1>1, <1>2, <1>3, <1>4, <1>5, <1>6, <1>7
        DEF WorkerStep, WorkerHandler, Lifecycle!Next, WorkerMarkProcessing,
            WorkerMarkComplete, WorkerMarkFailed, WorkerDelete

LEMMA QueueRefines ==
    ASSUME TypeInv, NEW m \in Messages, VisibilityTimeout(m) \/ Redrive(m)
    PROVE  UNCHANGED Lifecycle!vars
<1>1. \A l \in Messages : place'[l] \in Live <=> place[l] \in Live
  BY DEF VisibilityTimeout, Redrive, ExpireVisibility, RedriveMessage,
         TypeInv, TypeOK, StoreTypeOK, Live
<1>2. TrackedJobs' = TrackedJobs
  BY <1>1, TrackedSame DEF VisibilityTimeout, Redrive, apiVars, Stray
<1> QED BY <1>2 DEF VisibilityTimeout, Redrive, tableVars, Lifecycle!vars

(* Every step of the pipeline is a step of the life cycle or invisible to  *)
(* it: a record appears PENDING, a job is tracked until it has settled, a  *)
(* COMPLETE job is not started again.                                      *)
THEOREM ImplementsLifecycle == Spec => LifecycleSpec
<1>1. Init => Lifecycle!Init
  BY DEF Init, StoreInit, ApiInit, Lifecycle!Init, TrackedJobs, Tracked, Messages
<1>2. TypeInv /\ PipelineInv /\ [Next]_vars => [Lifecycle!Next]_Lifecycle!vars
  <2> SUFFICES ASSUME TypeInv, PipelineInv, [Next]_vars
               PROVE  [Lifecycle!Next]_Lifecycle!vars
    OBVIOUS
  <2>1. CASE UNCHANGED vars
    BY <2>1, TrackedSame
    DEF vars, storeVars, tableVars, queueVars, apiVars, Stray, Lifecycle!vars
  <2> QED BY <2>1, ApiRefines, WorkerRefines, QueueRefines DEF Next
<1>3. Spec => []TypeInv
  BY TypeCorrect, PTL DEF TypeInv
<1> QED BY <1>1, <1>2, <1>3, InvariantHolds, PTL DEF Spec, LifecycleSpec, Lifecycle!Spec

(* A COMPLETE job is never started again and no worker call creates an     *)
(* item: read off the steps of the life cycle.                             *)
THEOREM NoRestartNoUpsertHolds == Spec => NoRestartNoUpsert
<1> DEFINE Safe == \A j \in Jobs :
              /\ status[j] = "COMPLETE" => status'[j] # "PROCESSING"
              /\ status[j] = "ABSENT"   => status'[j] \in {"ABSENT", "PENDING"}
<1>1. TypeInv /\ [Lifecycle!Next]_Lifecycle!vars => Safe
  BY DEF TypeInv, TypeOK, StoreTypeOK, Lifecycle!Next, Lifecycle!vars, Lifecycle!Submit,
     Lifecycle!Enqueue, Lifecycle!Start, Lifecycle!Settle, Lifecycle!Retire
<1>2. Spec => []TypeInv
  BY TypeCorrect, PTL DEF TypeInv
<1> QED BY <1>1, <1>2, ImplementsLifecycle, PTL
        DEF NoRestartNoUpsert, LifecycleSpec, Lifecycle!Spec

-----------------------------------------------------------------------------
(* Where a message can go, and what can undo a result: the arguments that  *)
(* QueueDrains and the finding on OverwriteIsSafe rest on.                 *)

(* Every attempt of a send is a message of its own, which nothing has      *)
(* touched before.                                                         *)
SendIsFresh ==
    \A j \in Jobs, k \in 1..Attempts :
        \/ apiPc[j] \in {"idle", "put_object", "put_job"}
        \/ apiPc[j] = "send" /\ k >= apiTry[j]
        => place[<<j, k>>] = "absent"

(* How many moves a message on the queue has left: for each delivery that  *)
(* remains a receive and a timeout, and the timeout of the current one.    *)
MovesLeft(m) ==
    2 * (MaxReceive - receives[m]) + (IF place[m] = "inflight" THEN 1 ELSE 0)

MoveIsForward(m) ==
    /\ place[m] \in {"deleted", "dlq"} => place'[m] = place[m]
    /\ InQueue(m) /\ place'[m] # place[m] => ~InQueue(m)' \/ MovesLeft(m)' < MovesLeft(m)

LEMMA FreshStep == TypeInv /\ SendIsFresh /\ [Next]_vars => SendIsFresh'
<1> SUFFICES ASSUME TypeInv, SendIsFresh, [Next]_vars,
                    NEW j \in Jobs, NEW k \in 1..Attempts,
                    \/ apiPc'[j] \in {"idle", "put_object", "put_job"}
                    \/ apiPc'[j] = "send" /\ k >= apiTry'[j]
             PROVE  place'[<<j, k>>] = "absent"
  BY DEF SendIsFresh
<1> USE DEF TypeInv, TypeOK, StoreTypeOK, ApiTypeOK, storeVars, queueVars, apiVars
<1>1. <<j, k>> \in Messages /\ k \in Nat /\ apiTry[j] \in Nat /\ 1 \in 1..Attempts
  BY OneInAttempts DEF Messages
<1>2. ASSUME NEW i \in Jobs, ApiStep(i) PROVE place'[<<j, k>>] = "absent"
  <2>1. place[<<j, k>>] = "absent"
    BY <1>1, <1>2 DEF ApiStep, ApiBegin, StraySend, ApiPutObject, ApiPutJob, ApiSend,
       ApiMarkUnqueueable, ApiCrash, ApiGoto, ApiRetry, SendIsFresh
  <2>2. CASE UNCHANGED place
    BY <2>1, <2>2
  <2>3. CASE \E b \in Kinds : StraySend(i, b)
    BY <1>1, <2>1, <2>3 DEF StraySend, ApiGoto, SendMessage
  <2>4. CASE \E o \in Outcomes : ApiSend(i, o)
    BY <1>1, <2>1, <2>4 DEF ApiSend, ApiGoto, ApiRetry, SendMessage
  <2> QED BY <1>2, <2>2, <2>3, <2>4 DEF ApiStep, ApiBegin, ApiPutObject, ApiPutJob,
             ApiMarkUnqueueable, ApiCrash
<1>3. ASSUME UNCHANGED apiVars PROVE place[<<j, k>>] = "absent"
  BY <1>3 DEF SendIsFresh
<1>4. ASSUME NEW w \in Workers, WorkerStep(w), UNCHANGED apiVars
      PROVE  place'[<<j, k>>] = "absent"
  <2>1. place[<<j, k>>] = "absent"
    BY <1>3, <1>4
  <2> QED BY <1>1, <1>4, <2>1
      DEF WorkerStep, WorkerHandler, WorkerReceive, WorkerReceiveLost, WorkerHandle,
          WorkerGetJob, WorkerMarkProcessing, WorkerRender, WorkerUpload, WorkerMarkComplete,
          WorkerMarkFailed, WorkerDelete, WorkerCrash, CanReceive, ReceiveMessage,
          DeleteMessage, InQueue
<1>5. ASSUME NEW l \in Messages, VisibilityTimeout(l) \/ Redrive(l)
      PROVE  place'[<<j, k>>] = "absent"
  <2>1. place[<<j, k>>] = "absent"
    BY <1>3, <1>5 DEF VisibilityTimeout, Redrive
  <2> QED BY <1>1, <1>5, <2>1 DEF VisibilityTimeout, Redrive, ExpireVisibility, RedriveMessage
<1>6. CASE UNCHANGED vars
  BY <1>3, <1>6 DEF vars
<1> QED BY <1>2, <1>4, <1>5, <1>6 DEF Next

(* The four things that can happen to a message that has been sent.        *)
LEMMA MoveCases ==
    ASSUME TypeInv, SendIsFresh, [Next]_vars, NEW m \in Messages, place[m] # "absent"
    PROVE  \/ place'[m] = place[m] /\ receives'[m] = receives[m]
           \/ /\ place[m] = "visible" /\ place'[m] = "inflight"
              /\ receives[m] < MaxReceive /\ receives'[m] = receives[m] + 1
           \/ place[m] = "inflight" /\ place'[m] = "visible" /\ receives'[m] = receives[m]
           \/ InQueue(m) /\ place'[m] \in {"deleted", "dlq"}
<1> USE DEF TypeInv, TypeOK, StoreTypeOK, storeVars, queueVars
<1>1. ASSUME NEW j \in Jobs, ApiStep(j) PROVE place'[m] = place[m] /\ receives'[m] = receives[m]
  <2>1. CASE UNCHANGED queueVars
    BY <2>1
  <2>2. CASE \E b \in Kinds : StraySend(j, b)
    <3>1. <<j, 1>> \in Messages /\ place[<<j, 1>>] = "absent"
      BY <2>2, OneInAttempts DEF StraySend, SendIsFresh, Messages
    <3> QED BY <2>2, <3>1 DEF StraySend, SendMessage
  <2>3. CASE \E o \in Outcomes : ApiSend(j, o)
    <3>1. /\ apiTry[j] \in 1..Attempts /\ <<j, apiTry[j]>> \in Messages
          /\ apiPc[j] = "send" /\ apiTry[j] >= apiTry[j]
      BY <2>3 DEF ApiSend, ApiTypeOK, Messages
    <3>2. place[<<j, apiTry[j]>>] = "absent"
      BY <3>1 DEF SendIsFresh
    <3> QED BY <2>3, <3>1, <3>2 DEF ApiSend, SendMessage
  <2> QED BY <1>1, <2>1, <2>2, <2>3 DEF ApiStep, ApiBegin, ApiPutObject, ApiPutJob,
             ApiMarkUnqueueable, ApiCrash
<1>2. ASSUME NEW w \in Workers, WorkerStep(w)
      PROVE  \/ place'[m] = place[m] /\ receives'[m] = receives[m]
             \/ /\ place[m] = "visible" /\ place'[m] = "inflight"
                /\ receives[m] < MaxReceive /\ receives'[m] = receives[m] + 1
             \/ InQueue(m) /\ place'[m] = "deleted"
  <2>1. CASE UNCHANGED queueVars
    BY <2>1
  <2>2. CASE \E l \in Messages : CanReceive(l) /\ ReceiveMessage(l)
    BY <2>2 DEF CanReceive, ReceiveMessage
  <2>3. CASE DeleteMessage(held[w])
    BY <2>3 DEF DeleteMessage, InQueue
  <2> QED BY <1>2, <2>1, <2>2, <2>3
      DEF WorkerStep, WorkerHandler, WorkerReceive, WorkerReceiveLost, WorkerHandle,
          WorkerGetJob, WorkerMarkProcessing, WorkerRender, WorkerUpload, WorkerMarkComplete,
          WorkerMarkFailed, WorkerDelete, WorkerCrash
<1>3. ASSUME NEW l \in Messages, VisibilityTimeout(l) \/ Redrive(l)
      PROVE  \/ place'[m] = place[m] /\ receives'[m] = receives[m]
             \/ place[m] = "inflight" /\ place'[m] = "visible" /\ receives'[m] = receives[m]
             \/ InQueue(m) /\ place'[m] = "dlq"
  BY <1>3 DEF VisibilityTimeout, Redrive, ExpireVisibility, RedriveMessage, InQueue
<1>4. CASE UNCHANGED vars
  BY <1>4 DEF vars
<1> QED BY <1>1, <1>2, <1>3, <1>4 DEF Next

(* No message comes back from the dead-letter queue or from its deletion,  *)
(* and every move of a message that stays on the queue uses up one of      *)
(* finitely many: a receive spends a delivery, and only a timeout makes    *)
(* the message visible again.  This is why QueueDrains needs nothing but   *)
(* that moves happen (aws.py 267-327 under the redrive policy).            *)
THEOREM MessagesMoveForward == Spec => [][\A m \in Messages : MoveIsForward(m)]_vars
<1>1. Init => SendIsFresh
  BY DEF Init, StoreInit, SendIsFresh, Messages
<1>2. TypeInv /\ SendIsFresh /\ [Next]_vars => \A m \in Messages : MoveIsForward(m)
  <2> SUFFICES ASSUME TypeInv, SendIsFresh, [Next]_vars, NEW m \in Messages
               PROVE  MoveIsForward(m)
    OBVIOUS
  <2>1. receives[m] \in Nat /\ MaxReceive \in Nat
    BY MaxReceiveAssumption DEF TypeInv, TypeOK, StoreTypeOK
  <2>2. CASE place[m] = "absent"
    BY <2>2 DEF MoveIsForward, InQueue
  <2>3. CASE place[m] # "absent"
    BY <2>1, <2>3, MoveCases DEF MoveIsForward, MovesLeft, InQueue
  <2> QED BY <2>2, <2>3
<1>3. Spec => []TypeInv
  BY TypeCorrect, PTL DEF TypeInv
<1>4. Spec => []SendIsFresh
  BY <1>1, <1>3, FreshStep, PTL DEF Spec
<1> QED BY <1>2, <1>3, <1>4, PTL DEF Spec

(* Who may still write FAILED over a result.                               *)
UndoneBy(j) ==
    \/ apiPc[j] = "mark_unqueueable"
    \/ \E w \in Workers : wpc[w] = "mark_failed" /\ JobOfW(w) = j

LEMMA UndoneStep ==
    ASSUME TypeInv, PipelineInv, [Next]_vars,
           NEW j \in Jobs, status[j] = "COMPLETE", status'[j] # "COMPLETE"
    PROVE  status'[j] = "FAILED" /\ UndoneBy(j)
<1> USE DEF TypeInv, TypeOK, StoreTypeOK, storeVars, tableVars
<1>1. ASSUME NEW i \in Jobs, ApiStep(i) PROVE status'[j] = "FAILED" /\ UndoneBy(j)
  <2>1. CASE ApiPutJob(i)
    <3>1. status[i] = "ABSENT"
      BY <2>1 DEF ApiPutJob, PipelineInv, RequestOrder
    <3> QED BY <2>1, <3>1 DEF ApiPutJob, PutItem
  <2>2. CASE \E o \in Outcomes : ApiMarkUnqueueable(i, o)
    BY <2>2 DEF ApiMarkUnqueueable, PutItem, UndoneBy
  <2> QED BY <1>1, <2>1, <2>2 DEF ApiStep, ApiBegin, StraySend, ApiPutObject, ApiSend, ApiCrash
<1>2. ASSUME NEW w \in Workers, WorkerStep(w) PROVE status'[j] = "FAILED" /\ UndoneBy(j)
  <2>1. CASE \E o \in Outcomes : WorkerMarkFailed(w, o)
    BY <2>1 DEF WorkerMarkFailed, UpdateFailed, UndoneBy
  <2>2. CASE \E o \in Outcomes : WorkerMarkProcessing(w, o)
    BY <2>2 DEF WorkerMarkProcessing, UpdateProcessing, StartCondition
  <2>3. CASE \E o \in Outcomes : WorkerMarkComplete(w, o)
    BY <2>3 DEF WorkerMarkComplete, UpdateComplete
  <2> QED BY <1>2, <2>1, <2>2, <2>3
      DEF WorkerStep, WorkerHandler, WorkerReceive, WorkerReceiveLost, WorkerHandle,
          WorkerGetJob, WorkerRender, WorkerUpload, WorkerDelete, WorkerCrash
<1> QED BY <1>1, <1>2 DEF Next, vars, VisibilityTimeout, Redrive

(* A result is not final, and this is all that can undo it: the item of a  *)
(* COMPLETE job turns FAILED, and nothing else, by the request's own       *)
(* _mark_unqueueable after a send whose answer was lost (service.py        *)
(* 224-245), or by a worker that gives the job up (consumer.py 384-400).   *)
(* Both write without a condition.                                         *)
THEOREM CompleteIsUndoneOnlyByFailure ==
    Spec => [][\A j \in Jobs : status[j] = "COMPLETE" /\ status'[j] # "COMPLETE" =>
                   status'[j] = "FAILED" /\ UndoneBy(j)]_vars
<1>1. TypeInv /\ PipelineInv /\ [Next]_vars =>
        \A j \in Jobs : status[j] = "COMPLETE" /\ status'[j] # "COMPLETE" =>
            status'[j] = "FAILED" /\ UndoneBy(j)
  BY UndoneStep
<1>2. Spec => []TypeInv
  BY TypeCorrect, PTL DEF TypeInv
<1> QED BY <1>1, <1>2, InvariantHolds, PTL DEF Spec
=============================================================================
