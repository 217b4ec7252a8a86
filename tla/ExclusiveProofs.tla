--------------------------- MODULE ExclusiveProofs ---------------------------
(***************************************************************************)
(* What the visibility timeout is for, for every set of jobs, workers and  *)
(* sizes and every MaxReceive and Attempts: if a held message stays        *)
(* invisible, an accepted job that was sent once is completed by a single  *)
(* delivery, over any number of crashes, lost answers and redeliveries.    *)
(***************************************************************************)
EXTENDS PipelineProofs

-----------------------------------------------------------------------------
(* The inductive invariant.  A message in a worker's hand is out of the    *)
(* queue's reach and its receipt is the latest, so it is in one hand only. *)
HeldAlone ==
    /\ \A w \in Workers : wpc[w] # "poll" =>
         /\ place[MsgOf(w)] \in {"inflight", "deleted"}
         /\ held[w] = <<MsgOf(w), receives[MsgOf(w)]>>
    /\ \A v, w \in Workers :
         wpc[v] # "poll" /\ wpc[w] # "poll" /\ MsgOf(v) = MsgOf(w) => v = w

(* A request sends its messages in the order of its attempts.              *)
SendOrder ==
    \A j \in Jobs : apiPc[j] = "send" =>
        \A k \in 1..Attempts : k >= apiTry[j] => place[<<j, k>>] = "absent"

FinishedWasSent == \A r \in finishedBy : place[r[1]] # "absent"

(* The delivery that completed the job is the only one, the record still   *)
(* says so, and who else works on the job has yet to look or is on its way *)
(* out: the next mark_processing or mark_complete cannot happen.           *)
SingleResult ==
    \A j \in Jobs : apiPc[j] \in {"send", "accepted"} /\ SentOnce(j) =>
        \A r \in finishedBy : JobOf(r[1]) = j =>
            /\ status[j] = "COMPLETE"
            /\ \A s \in finishedBy : JobOf(s[1]) = j => s = r
            /\ \A w \in Workers : wpc[w] # "poll" /\ JobOfW(w) = j =>
                 \/ wpc[w] \in {"handle", "get_job", "delete"}
                 \/ wpc[w] = "mark_complete" /\ held[w] = r

ExclusiveInv == HeldAlone /\ SendOrder /\ FinishedWasSent /\ SingleResult

(* A worker goes on with the message it holds, or gives it up.             *)
Moves(w) ==
    \/ Release(w)
    \/ held' = held /\ \E pc : wpc' = [wpc EXCEPT ![w] = pc]

-----------------------------------------------------------------------------
(* A step of a request.  Only a send touches what the invariant is about:  *)
(* its message is new, so nobody holds it and nobody has completed it.     *)
LEMMA ApiExclusive ==
    ASSUME TypeInv, PipelineInv, ExclusiveInv,
           NEW j \in Jobs, ApiStep(j), UNCHANGED workerVars
    PROVE  ExclusiveInv'
<1> USE DEF ExclusiveInv, TypeInv, TypeOK, StoreTypeOK, ApiTypeOK, WorkerTypeOK,
            ApiGoto, ApiRetry, Applied, ApiActive,
            storeVars, s3Vars, tableVars, queueVars, workerVars
<1>a. \A w \in Workers : wpc[w] # "poll" =>
          JobOfW(w) \in Jobs /\ MsgOf(w) \in Messages
  BY ReceiptParts DEF JobOfW, MsgOf, HoldsReceipt
<1>b. \A i \in Jobs : \A k \in 1..Attempts : <<i, k>> \in Messages
  BY DEF Messages
<1>c. \A r \in finishedBy : r[1] \in Messages /\ r[1] = <<JobOf(r[1]), r[1][2]>>
                            /\ r[1][2] \in 1..Attempts
  BY ReceiptParts DEF JobOf
<1>d. apiTry[j] \in 1..Attempts
  OBVIOUS
<1>1. ASSUME UNCHANGED queueVars, SendOrder', SingleResult'  PROVE ExclusiveInv'
  BY <1>1 DEF HeldAlone, MsgOf, FinishedWasSent
<1>2. ASSUME UNCHANGED queueVars,
             \A i \in Jobs \ {j} : status'[i] = status[i],
             apiPc'[j] \notin {"send", "accepted"},
             \A i \in Jobs \ {j} : apiPc'[i] = apiPc[i] /\ apiTry'[i] = apiTry[i]
      PROVE  ExclusiveInv'
  BY <1>1, <1>2 DEF SendOrder, SingleResult, SentOnce, JobOfW, MsgOf
<1>3. ASSUME NEW k \in Kinds, ApiBegin(j, k)  PROVE ExclusiveInv'
  BY <1>2, <1>3 DEF ApiBegin
<1>4. ASSUME ApiPutObject(j)  PROVE ExclusiveInv'
  BY <1>2, <1>4 DEF ApiPutObject
<1>5. ASSUME ApiCrash(j)  PROVE ExclusiveInv'
  BY <1>2, <1>5 DEF ApiCrash
<1>6. ASSUME NEW o \in Outcomes, ApiMarkUnqueueable(j, o)  PROVE ExclusiveInv'
  BY <1>2, <1>6 DEF ApiMarkUnqueueable, PutItem
<1>7. ASSUME \A k \in 1..Attempts : place[<<j, k>>] = "absent"
      PROVE  /\ \A r \in finishedBy : JobOf(r[1]) # j
             /\ \A w \in Workers : wpc[w] # "poll" => JobOfW(w) # j
  <2>1. \A r \in finishedBy : JobOf(r[1]) # j
    BY <1>7, <1>c DEF FinishedWasSent
  <2>2. ASSUME NEW w \in Workers, wpc[w] # "poll", JobOfW(w) = j  PROVE FALSE
    BY <1>7, <2>2, ReceiptParts DEF HeldAlone, HoldsReceipt, JobOfW, JobOf, MsgOf
  <2> QED BY <2>1, <2>2
<1>8. ASSUME ApiPutJob(j)  PROVE ExclusiveInv'
  <2>1. \A k \in 1..Attempts : place[<<j, k>>] = "absent"
    BY <1>8, <1>b DEF ApiPutJob, PipelineInv, QueuedIsBacked, RequestOrder, Stray, JobOf
  <2>2. SendOrder'
    BY <1>8, <2>1 DEF ApiPutJob, SendOrder
  <2>3. SingleResult'
    BY <1>7, <1>8, <2>1 DEF ApiPutJob, PutItem, SingleResult, SentOnce, JobOfW, MsgOf
  <2> QED BY <1>1, <1>8, <2>2, <2>3 DEF ApiPutJob
<1>9. ASSUME NEW k \in 1..Attempts, SendMessage(<<j, k>>), place[<<j, k>>] = "absent"
       PROVE  HeldAlone' /\ FinishedWasSent'
  BY <1>9, <1>a, <1>b, <1>c DEF SendMessage, HeldAlone, FinishedWasSent, MsgOf
<1>10. ASSUME NEW k \in Kinds, StraySend(j, k)  PROVE ExclusiveInv'
  <2>1. place[<<j, 1>>] = "absent"
    BY <1>10, <1>b, OneInAttempts
    DEF StraySend, PipelineInv, QueuedIsBacked, RequestOrder, Stray, JobOf
  <2>2. HeldAlone' /\ FinishedWasSent'
    BY <1>9, <1>10, <2>1, OneInAttempts DEF StraySend
  <2>3. ASSUME NEW i \in Jobs \ {j}, NEW l \in 1..Attempts
        PROVE  place'[<<i, l>>] = place[<<i, l>>]
    BY <1>10, <1>b, OneInAttempts DEF StraySend, SendMessage
  <2>4. SendOrder'
    BY <1>10, <2>3 DEF StraySend, SendOrder
  <2>5. SingleResult'
    BY <1>10, <2>3 DEF StraySend, SingleResult, SentOnce, JobOfW, MsgOf
  <2> QED BY <2>2, <2>4, <2>5
<1>11. ASSUME NEW o \in Outcomes, ApiSend(j, o)  PROVE ExclusiveInv'
  <2>1. \A k \in 1..Attempts : k >= apiTry[j] => place[<<j, k>>] = "absent"
    BY <1>11 DEF ApiSend, SendOrder
  <2>2. CASE ~Applied(o)
    <3>1. SendOrder'
      BY <1>11, <2>1, <2>2 DEF ApiSend, SendOrder
    <3>2. SingleResult'
      BY <1>11, <2>2 DEF ApiSend, SingleResult, SentOnce, JobOfW, MsgOf
    <3> QED BY <1>1, <1>11, <2>2, <3>1, <3>2 DEF ApiSend
  <2>3. CASE Applied(o)
    <3>1. SendMessage(<<j, apiTry[j]>>) /\ place[<<j, apiTry[j]>>] = "absent"
      BY <1>11, <1>d, <2>1, <2>3 DEF ApiSend
    <3>2. HeldAlone' /\ FinishedWasSent'
      BY <1>9, <1>d, <3>1
    <3>3. place' = [place EXCEPT ![<<j, apiTry[j]>>] = "visible"]
      BY <3>1 DEF SendMessage
    <3>4. ASSUME NEW i \in Jobs \ {j}, NEW l \in 1..Attempts
          PROVE  place'[<<i, l>>] = place[<<i, l>>]
      BY <1>b, <1>d, <3>3
    <3>5. \A l \in 1..Attempts : l > apiTry[j] => place'[<<j, l>>] = "absent"
      BY <1>b, <1>d, <2>1, <3>3
    <3>6. SendOrder'
      BY <1>11, <1>d, <3>4, <3>5 DEF ApiSend, SendOrder
    <3>7. SentOnce(j)' => \A l \in 1..Attempts : place[<<j, l>>] = "absent"
      BY <1>b, <1>d, <3>1, <3>3 DEF SentOnce
    <3>8. \A i \in Jobs \ {j} : SentOnce(i)' => SentOnce(i)
      BY <3>4 DEF SentOnce
    <3>9. SingleResult'
      BY <1>7, <1>11, <3>7, <3>8 DEF ApiSend, SingleResult, JobOfW, MsgOf
    <3> QED BY <3>2, <3>6, <3>9
  <2> QED BY <2>2, <2>3
<1> QED BY <1>3, <1>4, <1>5, <1>6, <1>8, <1>10, <1>11 DEF ApiStep

(* A step of a worker.  With one message per job it is the only one at     *)
(* work on the job; once the job is completed the record turns it away.    *)
LEMMA WorkerExclusive ==
    ASSUME TypeInv, PipelineInv, ExclusiveInv,
           NEW w \in Workers, WorkerStep(w), UNCHANGED apiVars
    PROVE  ExclusiveInv'
<1> USE DEF ExclusiveInv, TypeInv, TypeOK, StoreTypeOK, ApiTypeOK, WorkerTypeOK,
            HoldsReceipt, Moves, Goto, Retry, Release, Applied,
            storeVars, s3Vars, tableVars, queueVars, apiVars, workerVars
<1>a. \A v \in Workers : wpc[v] # "poll" =>
          /\ JobOfW(v) \in Jobs /\ MsgOf(v) \in Messages /\ JobOf(held[v][1]) = JobOfW(v)
          /\ MsgOf(v) = <<JobOfW(v), MsgOf(v)[2]>> /\ MsgOf(v)[2] \in 1..Attempts
  BY ReceiptParts DEF JobOfW, JobOf, MsgOf
<1>b. \A i \in Jobs : \A k \in 1..Attempts : <<i, k>> \in Messages
  BY DEF Messages
<1>c. \A r \in finishedBy : r[1] \in Messages /\ JobOf(r[1]) \in Jobs
  BY ReceiptParts
<1>1. ASSUME \A m \in Messages : place'[m] = "absent" <=> place[m] = "absent"
      PROVE  /\ SendOrder' /\ \A i \in Jobs : SentOnce(i)' <=> SentOnce(i)
             /\ finishedBy' = finishedBy => FinishedWasSent'
  BY <1>1, <1>b, <1>c DEF SendOrder, SentOnce, FinishedWasSent
<1>2. ASSUME NEW m \in Messages, place[m] = "visible"
      PROVE  \A v \in Workers : wpc[v] # "poll" => MsgOf(v) # m
  BY <1>2 DEF HeldAlone
<1>3. ASSUME NEW m \in Messages, WorkerReceive(w, m)  PROVE ExclusiveInv'
  <2> USE <1>3 DEF WorkerReceive, CanReceive, ReceiveMessage
  <2>1. \A l \in Messages : place'[l] = "absent" <=> place[l] = "absent"
    OBVIOUS
  <2>2. MsgOf(w)' = m /\ \A v \in Workers \ {w} : MsgOf(v)' = MsgOf(v)
    BY DEF MsgOf
  <2>3. HeldAlone'
    BY <1>2, <1>a, <2>2 DEF HeldAlone, MsgOf
  <2>4. SingleResult'
    BY <1>1, <2>1, <2>2 DEF SingleResult, JobOfW
  <2> QED BY <1>1, <2>1, <2>3, <2>4
<1>4. ASSUME NEW m \in Messages, WorkerReceiveLost(w, m)  PROVE ExclusiveInv'
  <2> USE <1>4 DEF WorkerReceiveLost, CanReceive, ReceiveMessage
  <2>1. \A l \in Messages : place'[l] = "absent" <=> place[l] = "absent"
    OBVIOUS
  <2>2. HeldAlone'
    BY <1>2, <1>a DEF HeldAlone, MsgOf
  <2>3. SingleResult'
    BY <1>1, <2>1 DEF SingleResult, JobOfW, MsgOf
  <2> QED BY <1>1, <2>1, <2>2, <2>3
<1>5. ASSUME wpc[w] # "poll", Moves(w),
             UNCHANGED queueVars
      PROVE  /\ HeldAlone'
             /\ \A v \in Workers : wpc'[v] # "poll" =>
                  held'[v] = held[v] /\ wpc[v] # "poll" /\ JobOfW(v)' = JobOfW(v)
             /\ \A v \in Workers \ {w} : wpc'[v] = wpc[v]
  BY <1>5 DEF HeldAlone, JobOfW, MsgOf
<1>d. ASSUME wpc[w] # "poll", Moves(w), UNCHANGED <<queueVars, finishedBy>>,
             \/ wpc'[w] = "poll" /\ status' = status
             \/ /\ wpc[w] \notin {"handle", "get_job", "delete", "mark_complete"}
                /\ \A i \in Jobs : i # JobOfW(w) => status'[i] = status[i]
      PROVE  SingleResult'
  <2> SUFFICES ASSUME NEW j \in Jobs, apiPc[j] \in {"send", "accepted"}, SentOnce(j),
                      NEW r \in finishedBy, JobOf(r[1]) = j
               PROVE  /\ status'[j] = "COMPLETE"
                      /\ \A s \in finishedBy : JobOf(s[1]) = j => s = r
                      /\ \A v \in Workers : wpc'[v] # "poll" /\ JobOfW(v)' = j =>
                           \/ wpc'[v] \in {"handle", "get_job", "delete"}
                           \/ wpc'[v] = "mark_complete" /\ held'[v] = r
    BY <1>1, <1>d DEF SingleResult
  <2>1. /\ status[j] = "COMPLETE"
        /\ \A s \in finishedBy : JobOf(s[1]) = j => s = r
        /\ \A v \in Workers : wpc[v] # "poll" /\ JobOfW(v) = j =>
             \/ wpc[v] \in {"handle", "get_job", "delete"}
             \/ wpc[v] = "mark_complete" /\ held[v] = r
    BY DEF SingleResult
  <2>2. \/ wpc'[w] = "poll" /\ status' = status
        \/ JobOfW(w) # j /\ status'[j] = status[j]
    BY <1>d, <2>1
  <2>3. ASSUME NEW v \in Workers, wpc'[v] # "poll", JobOfW(v)' = j
        PROVE  v # w /\ wpc'[v] = wpc[v] /\ held'[v] = held[v] /\ wpc[v] # "poll" /\ JobOfW(v) = j
    BY <1>5, <1>d, <2>2, <2>3
  <2> QED BY <2>1, <2>2, <2>3
<1>6. ASSUME WorkerHandle(w)  PROVE ExclusiveInv'
  <2>1. HeldAlone'
    BY <1>5, <1>6 DEF WorkerHandle
  <2>2. SingleResult'
    BY <1>1, <1>5, <1>6 DEF WorkerHandle, SingleResult
  <2> QED BY <1>1, <1>6, <2>1, <2>2 DEF WorkerHandle
<1>7. ASSUME WorkerGetJob(w)  PROVE ExclusiveInv'
  <2>1. HeldAlone'
    BY <1>5, <1>7 DEF WorkerGetJob
  <2>2. SingleResult'
    BY <1>1, <1>5, <1>7 DEF WorkerGetJob, SingleResult
  <2> QED BY <1>1, <1>7, <2>1, <2>2 DEF WorkerGetJob
<1>8. ASSUME NEW o \in Outcomes, WorkerMarkProcessing(w, o)  PROVE ExclusiveInv'
  <2>1. HeldAlone'
    BY <1>5, <1>8 DEF WorkerMarkProcessing
  <2>2. SingleResult'
    BY <1>a, <1>d, <1>8 DEF WorkerMarkProcessing, UpdateProcessing
  <2> QED BY <1>1, <1>8, <2>1, <2>2 DEF WorkerMarkProcessing
<1>9. ASSUME WorkerRender(w)  PROVE ExclusiveInv'
  <2>1. HeldAlone'
    BY <1>5, <1>9 DEF WorkerRender
  <2>2. SingleResult'
    BY <1>1, <1>5, <1>9 DEF WorkerRender, SingleResult
  <2> QED BY <1>1, <1>9, <2>1, <2>2 DEF WorkerRender
<1>10. ASSUME WorkerUpload(w)  PROVE ExclusiveInv'
  <2>1. wpc[w] = "upload" /\ Moves(w)
    BY <1>10 DEF WorkerUpload
  <2>2. HeldAlone'
    BY <1>5, <1>10, <2>1 DEF WorkerUpload
  <2>3. SingleResult'
    BY <1>d, <1>10, <2>1 DEF WorkerUpload
  <2> QED BY <1>1, <1>10, <2>2, <2>3 DEF WorkerUpload
<1>11. ASSUME NEW o \in Outcomes, WorkerMarkComplete(w, o)  PROVE ExclusiveInv'
  <2>1. HeldAlone'
    BY <1>5, <1>11 DEF WorkerMarkComplete
  <2>2. FinishedWasSent'
    BY <1>11 DEF WorkerMarkComplete, FinishedWasSent, HeldAlone, MsgOf
  <2>3. CASE ~Applied(o)
    <3>1. SingleResult'
      BY <1>1, <1>5, <1>11, <2>3 DEF WorkerMarkComplete, SingleResult
    <3> QED BY <1>1, <1>11, <2>1, <2>2, <3>1 DEF WorkerMarkComplete
  <2>4. CASE Applied(o)
    <3> DEFINE j == JobOfW(w)
    <3>1. j \in Jobs /\ JobOf(held[w][1]) = j
      BY <1>a, <1>11 DEF WorkerMarkComplete
    <3>2. /\ finishedBy' = finishedBy \cup {held[w]}
          /\ status' = [status EXCEPT ![j] = "COMPLETE"]
      BY <1>11, <2>4 DEF WorkerMarkComplete, UpdateComplete
    <3>3. ASSUME SentOnce(j), NEW v \in Workers, wpc[v] # "poll", JobOfW(v) = j  PROVE v = w
      <4>1. wpc[w] # "poll" /\ JobOfW(w) = j
        BY <1>11 DEF WorkerMarkComplete
      <4>2. place[MsgOf(v)] # "absent" /\ place[MsgOf(w)] # "absent"
        BY <3>3, <4>1 DEF HeldAlone
      <4>3. MsgOf(v)[2] = MsgOf(w)[2]
        BY <1>a, <3>3, <4>1, <4>2 DEF SentOnce
      <4>4. MsgOf(v) = MsgOf(w)
        BY <1>a, <3>3, <4>1, <4>3
      <4> QED BY <3>3, <4>1, <4>4 DEF HeldAlone
    <3>4. SingleResult'
      BY <1>1, <1>5, <1>11, <3>1, <3>2, <3>3 DEF WorkerMarkComplete, SingleResult
    <3> QED BY <1>1, <1>11, <2>1, <2>2, <3>4 DEF WorkerMarkComplete
  <2> QED BY <2>3, <2>4
<1>12. ASSUME NEW o \in Outcomes, WorkerMarkFailed(w, o)  PROVE ExclusiveInv'
  <2>1. HeldAlone'
    BY <1>5, <1>12 DEF WorkerMarkFailed
  <2>2. SingleResult'
    BY <1>a, <1>d, <1>12 DEF WorkerMarkFailed, UpdateFailed
  <2> QED BY <1>1, <1>12, <2>1, <2>2 DEF WorkerMarkFailed
<1>13. ASSUME WorkerDelete(w)  PROVE ExclusiveInv'
  <2>1. /\ place' = place \/ place' = [place EXCEPT ![MsgOf(w)] = "deleted"]
        /\ receives' = receives /\ wpc[w] = "delete" /\ Release(w)
        /\ UNCHANGED <<finishedBy, status>>
    BY <1>13 DEF WorkerDelete, DeleteMessage, MsgOf
  <2>2. \A l \in Messages : place'[l] = "absent" <=> place[l] = "absent"
    BY <1>a, <2>1 DEF HeldAlone
  <2>3. HeldAlone'
    BY <1>a, <2>1 DEF HeldAlone, MsgOf
  <2>4. SingleResult'
    BY <1>1, <2>1, <2>2 DEF SingleResult, JobOfW, MsgOf
  <2> QED BY <1>1, <2>1, <2>2, <2>3, <2>4
<1>14. ASSUME WorkerCrash(w)  PROVE ExclusiveInv'
  <2>1. HeldAlone'
    BY <1>5, <1>14 DEF WorkerCrash
  <2>2. SingleResult'
    BY <1>d, <1>14 DEF WorkerCrash
  <2> QED BY <1>1, <1>14, <2>1, <2>2 DEF WorkerCrash
<1> QED BY <1>3, <1>4, <1>6, <1>7, <1>8, <1>9, <1>10, <1>11, <1>12, <1>13, <1>14
        DEF WorkerStep, WorkerHandler

(* A step of the queue: the only place where Exclusive counts.             *)
LEMMA QueueExclusive ==
    ASSUME Exclusive, TypeInv, ExclusiveInv,
           NEW m \in Messages, VisibilityTimeout(m) \/ Redrive(m)
    PROVE  ExclusiveInv'
<1> USE DEF ExclusiveInv, TypeInv, TypeOK, StoreTypeOK, WorkerTypeOK, VisibilityTimeout,
            Redrive, ExpireVisibility, RedriveMessage, tableVars, apiVars, workerVars
<1>a. \A v \in Workers : wpc[v] # "poll" => MsgOf(v) \in Messages
  BY ReceiptParts DEF HoldsReceipt, MsgOf
<1>b. \A i \in Jobs : \A k \in 1..Attempts : <<i, k>> \in Messages
  BY DEF Messages
<1>c. \A r \in finishedBy : r[1] \in Messages
  BY ReceiptParts
<1>1. \A v \in Workers : wpc[v] # "poll" => MsgOf(v) # m
  BY DEF HeldAlone
<1>2. \A l \in Messages : place'[l] = "absent" <=> place[l] = "absent"
  OBVIOUS
<1>3. HeldAlone'
  BY <1>a, <1>1 DEF HeldAlone, MsgOf
<1>4. SendOrder' /\ FinishedWasSent'
  BY <1>b, <1>c, <1>2 DEF SendOrder, FinishedWasSent
<1>5. \A i \in Jobs : SentOnce(i)' <=> SentOnce(i)
  BY <1>b, <1>2 DEF SentOnce
<1>6. SingleResult'
  BY <1>5 DEF SingleResult, JobOfW, MsgOf
<1> QED BY <1>3, <1>4, <1>6

(* "duplicate delivery produces one result, not two" (consumer.py 5-7), if *)
(* a held message stays invisible: an accepted job that was sent once has  *)
(* been completed by at most one delivery, in every reachable state of     *)
(* every instance.                                                         *)
THEOREM OneResult == Exclusive => (Spec => []OneResultIfExclusive)
<1> SUFFICES ASSUME Exclusive PROVE Spec => []OneResultIfExclusive
  OBVIOUS
<1>1. Init => ExclusiveInv
  BY DEF Init, StoreInit, ApiInit, WorkerInit, ExclusiveInv, HeldAlone, SendOrder,
         FinishedWasSent, SingleResult
<1>2. TypeInv /\ PipelineInv /\ ExclusiveInv /\ [Next]_vars => ExclusiveInv'
  <2> SUFFICES ASSUME TypeInv, PipelineInv, ExclusiveInv, [Next]_vars PROVE ExclusiveInv'
    OBVIOUS
  <2>1. CASE UNCHANGED vars
    BY <2>1 DEF vars, storeVars, tableVars, queueVars, apiVars, workerVars, ExclusiveInv,
       HeldAlone, SendOrder, FinishedWasSent, SingleResult, SentOnce, JobOfW, MsgOf
  <2> QED BY <2>1, ApiExclusive, WorkerExclusive, QueueExclusive DEF Next
<1>3. TypeInv /\ ExclusiveInv => OneResultIfExclusive
  <2> SUFFICES ASSUME TypeInv, ExclusiveInv PROVE OneResultIfExclusive
    OBVIOUS
  <2>1. \A r \in finishedBy : JobOf(r[1]) \in Jobs
    BY ReceiptParts DEF TypeInv, TypeOK, WorkerTypeOK
  <2> QED BY <2>1 DEF ExclusiveInv, SingleResult, OneResultIfExclusive
<1>4. Spec => []TypeInv
  BY TypeCorrect, PTL DEF TypeInv
<1> QED BY <1>1, <1>2, <1>3, <1>4, InvariantHolds, PTL DEF Spec
=============================================================================
