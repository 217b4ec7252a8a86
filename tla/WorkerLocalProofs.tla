------------------------- MODULE WorkerLocalProofs -------------------------
(***************************************************************************)
(* The workers' own books, for every set of jobs, workers and sizes and    *)
(* every MaxReceive and Attempts, with and without Exclusive: whatever way *)
(* handlers end and whoever else holds a stale receipt of the same job,    *)
(* nothing is left behind and outcome, counters and table agree.           *)
(***************************************************************************)
EXTENDS WorkerLocal, PipelineProofs

-----------------------------------------------------------------------------
(* The local state restricts nothing: without it every step is a step of   *)
(* the pipeline.                                                           *)
LEMMA LocalIsWorker ==
    ASSUME NEW w \in Workers, LocalStep(w)
    PROVE  WorkerStep(w)
BY DEF LocalStep, LocalReceive, LocalReceiveLost, LocalHandle, LocalGetJob,
   LocalMarkProcessing, LocalMarkComplete, LocalMarkFailed, LocalRender, LocalUpload,
   LocalDelete, LocalCrash, WorkerStep, WorkerHandler

(* The workers with their local state implement the pipeline, so what is   *)
(* proved of the pipeline holds of them (consumer.py 160-410).             *)
THEOREM LocalImplementsPipeline == LocalSpec => Spec
<1>1. LocalNext => Next
  BY LocalIsWorker DEF LocalNext, Next
<1>2. [LocalNext]_<<vars, localVars>> => [Next]_vars
  BY <1>1
<1> QED BY <1>2, PTL DEF LocalSpec, Spec

-----------------------------------------------------------------------------
(* Where a worker is tells which of its blocks are open, and those tell    *)
(* what it has bound, counted and created.                                 *)
Shape(w) ==
    /\ wpc[w] = "poll" <=> held[w] = NoReceipt
    /\ wpc[w] \in {"poll", "handle"} => scope[w] = {}
    /\ wpc[w] \in {"get_job", "mark_processing"} => "inflight" \notin scope[w]
    /\ wpc[w] \in {"render", "upload"} <=> "workspace" \in scope[w]
    /\ wpc[w] \in {"render", "upload", "mark_complete"} => "inflight" \in scope[w]
    /\ inflight[w] = IF "inflight" \in scope[w] THEN 1 ELSE 0
    /\ bound[w] = IF "context" \in scope[w] THEN {JobOfW(w)} ELSE {}
    /\ wpc[w] # "poll" /\ held[w] \in scratch => "workspace" \in scope[w]

(* The books of the delivery a worker is handling: open, nothing counted   *)
(* but what the verdict it is about to return stands for, and completed    *)
(* only on the way to COMPLETED.                                           *)
Counted(w) == wpc[w] = "delete" /\ verdict[w] \in {"FAILED", "MALFORMED"}

Ledger(w) ==
    wpc[w] # "poll" =>
        /\ held[w][2] <= receives[MsgOf(w)]
        /\ outcome[held[w]] = "OPEN"
        /\ tally[held[w]]["complete"] = 0
        /\ tally[held[w]]["failed"] = IF Counted(w) THEN 1 ELSE 0
        /\ wpc[w] = "delete" =>
             /\ verdict[w] # "RETRY"
             /\ verdict[w] = "COMPLETED" => held[w] \in finishedBy
             /\ verdict[w] = "SKIPPED_DUPLICATE" => JobOfW(w) \in settled
        /\ held[w] \in finishedBy =>
             \/ wpc[w] = "mark_complete"
             \/ wpc[w] = "delete" /\ verdict[w] = "COMPLETED"

(* No two workers hold the same delivery, stale ones included.             *)
OneHolder == \A v, w \in Workers : held[v] = held[w] /\ held[v] # NoReceipt => v = w

(* A delivery that has not been made yet has left no trace.                *)
Fresh(r) ==
    r[2] > receives[r[1]] =>
        /\ outcome[r] = "OPEN" /\ r \notin finishedBy
        /\ tally[r]["complete"] = 0 /\ tally[r]["failed"] = 0

(* The properties of the runs, for one delivery.                           *)
Truthful(r) ==
    /\ tally[r]["complete"] + tally[r]["failed"] <= 1
    /\ tally[r]["complete"] = 1 <=> outcome[r] = "COMPLETED"
    /\ tally[r]["complete"] = 1 => r \in finishedBy
    /\ outcome[r] \in {"FAILED", "MALFORMED"} => tally[r]["failed"] = 1
    /\ tally[r]["failed"] = 1 => JobOf(r[1]) \in settled \/ Stray(JobOf(r[1]))
    /\ outcome[r] = "SKIPPED_DUPLICATE" => JobOf(r[1]) \in settled /\ tally[r]["failed"] = 0

Traced(r) ==
    /\ r \in finishedBy =>
         \/ tally[r]["complete"] = 1
         \/ outcome[r] \in {"RETRY", "KILLED"}
         \/ \E w \in Workers : held[w] = r
    /\ r \in scratch =>
         \/ outcome[r] = "KILLED"
         \/ \E w \in Workers : held[w] = r /\ wpc[w] \in {"render", "upload"}

LocalInv ==
    /\ \A w \in Workers : Shape(w) /\ Ledger(w)
    /\ OneHolder
    /\ \A r \in Receipts : Fresh(r) /\ Truthful(r) /\ Traced(r)

-----------------------------------------------------------------------------
(* What the local operators do to the worker that takes the step, and that *)
(* they do nothing to anyone else.                                         *)

(* After the step the worker is inside exactly the blocks S.               *)
Blocks(w, S) ==
    /\ scope' \in [Workers -> SUBSET Finals] /\ inflight' \in [Workers -> {0, 1}]
    /\ bound' \in [Workers -> SUBSET Jobs] /\ scratch' \in SUBSET Receipts
    /\ scope'[w] = S
    /\ inflight'[w] = IF "inflight" \in S THEN 1 ELSE 0
    /\ bound'[w] = IF "context" \in S THEN {JobOfW(w)} ELSE {}
    /\ held[w] \in scratch' => "workspace" \in S
    /\ \A v \in Workers \ {w} :
         scope'[v] = scope[v] /\ inflight'[v] = inflight[v] /\ bound'[v] = bound[v]
    /\ \A r \in Receipts \ {held[w]} : r \in scratch' <=> r \in scratch

(* What a step of a worker that has a message in hand may rely on.         *)
Busy(w) ==
    /\ TypeInv /\ PipelineInv /\ LocalTypeOK /\ Shape(w) /\ Ledger(w)
    /\ wpc[w] # "poll"

LEMMA BusyHolds ==
    ASSUME NEW w \in Workers, Busy(w)
    PROVE  /\ held[w] \in Receipts /\ held[w] # NoReceipt
           /\ JobOfW(w) \in Jobs /\ MsgOf(w) \in Messages
           /\ JobOfW(w) = JobOf(held[w][1])
<1>1. held[w] \in Receipts
  BY DEF Busy, TypeInv, HoldsReceipt
<1> QED BY <1>1, NoReceiptAssumption, ReceiptParts DEF JobOfW, MsgOf

LEMMA EnterEffect ==
    ASSUME NEW w \in Workers, Busy(w), NEW f \in SUBSET Finals, Enter(w, f),
           "inflight" \in f => "inflight" \notin scope[w]
    PROVE  Blocks(w, scope[w] \cup f)
<1> USE BusyHolds DEF Busy, LocalTypeOK
<1>1. /\ scope' \in [Workers -> SUBSET Finals] /\ scope'[w] = scope[w] \cup f
      /\ \A v \in Workers \ {w} : scope'[v] = scope[v]
  BY DEF Enter
<1>2. /\ inflight' \in [Workers -> {0, 1}]
      /\ inflight'[w] = IF "inflight" \in scope[w] \cup f THEN 1 ELSE 0
      /\ \A v \in Workers \ {w} : inflight'[v] = inflight[v]
  BY DEF Enter, Shape
<1>3. /\ bound' \in [Workers -> SUBSET Jobs]
      /\ bound'[w] = IF "context" \in scope[w] \cup f THEN {JobOfW(w)} ELSE {}
      /\ \A v \in Workers \ {w} : bound'[v] = bound[v]
  BY DEF Enter, Shape
<1>4. /\ scratch' \in SUBSET Receipts
      /\ held[w] \in scratch' => "workspace" \in scope[w] \cup f
      /\ \A r \in Receipts \ {held[w]} : r \in scratch' <=> r \in scratch
  BY DEF Enter, Shape
<1> QED BY ONLY <1>1, <1>2, <1>3, <1>4 DEF Blocks

LEMMA LeaveEffect ==
    ASSUME NEW w \in Workers, Busy(w), NEW f \in SUBSET Finals, Leave(w, f)
    PROVE  Blocks(w, scope[w] \ f)
<1> USE BusyHolds DEF Busy, LocalTypeOK
<1>1. /\ scope' \in [Workers -> SUBSET Finals] /\ scope'[w] = scope[w] \ f
      /\ \A v \in Workers \ {w} : scope'[v] = scope[v]
  BY DEF Leave
<1>2. /\ inflight' \in [Workers -> {0, 1}]
      /\ inflight'[w] = IF "inflight" \in scope[w] \ f THEN 1 ELSE 0
      /\ \A v \in Workers \ {w} : inflight'[v] = inflight[v]
  BY DEF Leave, Shape
<1>3. /\ bound' \in [Workers -> SUBSET Jobs]
      /\ bound'[w] = IF "context" \in scope[w] \ f THEN {JobOfW(w)} ELSE {}
      /\ \A v \in Workers \ {w} : bound'[v] = bound[v]
  BY DEF Leave, Shape
<1>4. /\ scratch' \in SUBSET Receipts
      /\ held[w] \in scratch' => "workspace" \in scope[w] \ f
      /\ \A r \in Receipts \ {held[w]} : r \in scratch' <=> r \in scratch
  BY DEF Leave, Shape
<1> QED BY ONLY <1>1, <1>2, <1>3, <1>4 DEF Blocks

LEMMA CountEffect ==
    ASSUME NEW w \in Workers, Busy(w), NEW l \in Labels, Count(w, l)
    PROVE  /\ tally' \in [Receipts -> [Labels -> Nat]]
           /\ tally'[held[w]][l] = tally[held[w]][l] + 1
           /\ \A k \in Labels \ {l} : tally'[held[w]][k] = tally[held[w]][k]
           /\ \A r \in Receipts \ {held[w]} : tally'[r] = tally[r]
<1>1. held[w] \in Receipts /\ tally \in [Receipts -> [Labels -> Nat]]
  BY BusyHolds DEF Busy, LocalTypeOK
<1>2. tally[held[w]] \in [Labels -> Nat] /\ tally[held[w]][l] + 1 \in Nat
  BY <1>1
<1>3. [tally[held[w]] EXCEPT ![l] = @ + 1] \in [Labels -> Nat]
  BY <1>2
<1> QED BY <1>1, <1>2, <1>3 DEF Count

(* A step of worker w does not touch what is not in its hands.             *)
Around(w) ==
    /\ \A v \in Workers \ {w} : wpc'[v] = wpc[v] /\ held'[v] = held[v]
    /\ \A r \in Receipts \ {held[w]} : r \in finishedBy' <=> r \in finishedBy
    /\ settled \subseteq settled' /\ apiPc' = apiPc /\ receives' = receives

LEMMA WorkerAround ==
    ASSUME NEW w \in Workers, Busy(w), WorkerStep(w), UNCHANGED apiVars
    PROVE  Around(w)
<1> USE DEF Busy, Around, Goto, Retry, Release, storeVars, s3Vars, tableVars, queueVars,
            apiVars, workerVars, TypeInv, TypeOK, WorkerTypeOK
<1>1. ~\E m \in Messages : WorkerReceive(w, m) \/ WorkerReceiveLost(w, m)
  BY DEF WorkerReceive, WorkerReceiveLost
<1>2. CASE WorkerHandle(w)
  BY <1>2 DEF WorkerHandle
<1>3. CASE WorkerGetJob(w)
  BY <1>3 DEF WorkerGetJob
<1>4. CASE \E o \in Outcomes : WorkerMarkProcessing(w, o)
  BY <1>4 DEF WorkerMarkProcessing, UpdateProcessing
<1>5. CASE \E o \in Outcomes : WorkerMarkComplete(w, o)
  BY <1>5 DEF WorkerMarkComplete, UpdateComplete
<1>6. CASE \E o \in Outcomes : WorkerMarkFailed(w, o)
  BY <1>6 DEF WorkerMarkFailed, UpdateFailed
<1>7. CASE WorkerRender(w)
  BY <1>7 DEF WorkerRender
<1>8. CASE WorkerUpload(w)
  BY <1>8 DEF WorkerUpload
<1>9. CASE WorkerDelete(w)
  BY <1>9 DEF WorkerDelete, DeleteMessage
<1>10. CASE WorkerCrash(w)
  BY <1>10 DEF WorkerCrash
<1> QED BY <1>1, <1>2, <1>3, <1>4, <1>5, <1>6, <1>7, <1>8, <1>9, <1>10
        DEF WorkerStep, WorkerHandler

(* What is left to show of a step of worker w: its own state, the books of *)
(* the delivery it has in hand, and that the other books are as they were. *)
Kept(w) ==
    /\ LocalTypeOK' /\ Shape(w)' /\ Ledger(w)'
    /\ \A v \in Workers \ {w} :
         /\ scope'[v] = scope[v] /\ inflight'[v] = inflight[v] /\ bound'[v] = bound[v]
         /\ verdict'[v] = verdict[v]
    /\ \A r \in Receipts \ {held[w]} :
         /\ outcome'[r] = outcome[r] /\ tally'[r] = tally[r]
         /\ r \in scratch' <=> r \in scratch
    /\ \A r \in Receipts : r = held[w] => Truthful(r)' /\ Traced(r)'

(* Which blocks are open where.                                            *)
Fits(pc, S) ==
    /\ pc \in {"poll", "handle"} => S = {}
    /\ pc \in {"get_job", "mark_processing"} => "inflight" \notin S
    /\ pc \in {"render", "upload"} <=> "workspace" \in S
    /\ pc \in {"render", "upload", "mark_complete"} => "inflight" \in S

LEMMA ShapeKept ==
    ASSUME NEW w \in Workers, Busy(w), NEW S \in SUBSET Finals, Blocks(w, S), Fits(wpc'[w], S),
           \/ held' = held /\ wpc'[w] # "poll"
           \/ held'[w] = NoReceipt /\ wpc'[w] = "poll"
    PROVE  Shape(w)'
BY BusyHolds DEF Shape, Blocks, Fits, JobOfW, MsgOf

(* The handler goes on, and has nothing to say yet.                        *)
LEMMA GoesOn ==
    ASSUME NEW w \in Workers, Busy(w), Around(w), TypeInv',
           wpc[w] # "delete", wpc'[w] \notin {"poll", "delete"}, held' = held,
           NEW S \in SUBSET Finals, Blocks(w, S), Fits(wpc'[w], S),
           Undecided, UNCHANGED tally,
           held[w] \in finishedBy' => wpc'[w] = "mark_complete"
    PROVE  Kept(w)
<1>1. held[w] \in Receipts
  BY BusyHolds
<1>2. Shape(w)'
  BY ShapeKept
<1>3. LocalTypeOK'
  BY DEF Busy, LocalTypeOK, Blocks, Undecided
<1>4. /\ outcome[held[w]] = "OPEN" /\ tally[held[w]]["complete"] = 0
      /\ tally[held[w]]["failed"] = 0 /\ held[w][2] <= receives[MsgOf(w)]
  BY DEF Busy, Ledger, Counted
<1>5. Ledger(w)'
  BY <1>4 DEF Ledger, Counted, Undecided, Around, MsgOf
<1>6. ASSUME NEW r \in Receipts, r = held[w] PROVE Truthful(r)' /\ Traced(r)'
  <2>1. Truthful(r)'
    BY <1>4, <1>6 DEF Truthful, Undecided
  <2>2. Traced(r)'
    BY <1>2, <1>6 DEF Traced, Shape
  <2> QED BY <2>1, <2>2
<1> QED BY <1>2, <1>3, <1>5, <1>6 DEF Kept, Blocks, Undecided

(* The handler has made up its mind.                                       *)
LEMMA HasDecided ==
    ASSUME NEW w \in Workers, Busy(w), Around(w), TypeInv', PipelineInv',
           wpc[w] # "delete", wpc'[w] = "delete", held' = held,
           NEW S \in SUBSET Finals, Blocks(w, S), "workspace" \notin S,
           NEW v \in Verdicts \ {"RETRY"}, Decide(w, v),
           v \in {"FAILED", "MALFORMED"} => Count(w, "failed"),
           v \notin {"FAILED", "MALFORMED"} => UNCHANGED tally,
           held[w] \in finishedBy' <=> v = "COMPLETED",
           v = "SKIPPED_DUPLICATE" => JobOfW(w) \in settled
    PROVE  Kept(w)
<1>1. held[w] \in Receipts /\ JobOfW(w) = JobOf(held[w][1])
  BY BusyHolds
<1>2. Shape(w)'
  BY ShapeKept DEF Fits
<1>3. /\ outcome[held[w]] = "OPEN" /\ tally[held[w]]["complete"] = 0
      /\ tally[held[w]]["failed"] = 0 /\ held[w][2] <= receives[MsgOf(w)]
  BY DEF Busy, Ledger, Counted
<1>4. /\ tally' \in [Receipts -> [Labels -> Nat]]
      /\ \A r \in Receipts \ {held[w]} : tally'[r] = tally[r]
      /\ tally'[held[w]]["complete"] = 0
      /\ tally'[held[w]]["failed"] = IF v \in {"FAILED", "MALFORMED"} THEN 1 ELSE 0
  BY <1>3, CountEffect DEF Labels, Busy, LocalTypeOK
<1>5. /\ verdict' \in [Workers -> Verdicts] /\ verdict'[w] = v
      /\ \A u \in Workers \ {w} : verdict'[u] = verdict[u]
      /\ outcome' = outcome
  BY DEF Decide, Busy, LocalTypeOK
<1>6. LocalTypeOK'
  BY <1>4, <1>5 DEF Busy, LocalTypeOK, Blocks
<1>7. Ledger(w)'
  BY <1>3, <1>4, <1>5 DEF Ledger, Counted, Around, MsgOf, JobOfW
<1>8. ASSUME NEW r \in Receipts, r = held[w] PROVE Truthful(r)' /\ Traced(r)'
  <2>1. JobOf(r[1]) \in settled' \/ Stray(JobOf(r[1]))'
    BY <1>1, <1>8 DEF PipelineInv, WorkerKnows, JobOfW, MsgOf, Stray
  <2>2. Truthful(r)'
    BY <1>3, <1>4, <1>5, <1>8, <2>1 DEF Truthful
  <2>3. Traced(r)'
    BY <1>2, <1>8 DEF Traced, Shape
  <2> QED BY <2>2, <2>3
<1> QED BY <1>2, <1>4, <1>5, <1>6, <1>7, <1>8 DEF Kept, Blocks

(* The handler has returned, by way of every finally block that is open.   *)
LEMMA HasEnded ==
    ASSUME NEW w \in Workers, Busy(w), Around(w), TypeInv', wpc'[w] = "poll",
           held'[w] = NoReceipt, NEW v \in Verdicts, Return(w, v),
           wpc[w] = "delete" => finishedBy' = finishedBy,
           \/ v = "RETRY" /\ ~Counted(w) /\ UNCHANGED tally
           \/ wpc[w] = "delete" /\ v = verdict[w] /\ v # "COMPLETED" /\ UNCHANGED tally
           \/ wpc[w] = "delete" /\ v = verdict[w] /\ v = "COMPLETED" /\ Count(w, "complete")
    PROVE  Kept(w)
<1>1. held[w] \in Receipts /\ JobOfW(w) = JobOf(held[w][1])
  BY BusyHolds
<1>2. Blocks(w, {}) /\ Shape(w)'
  <2>1. scope[w] \ Finals = {}
    BY DEF Busy, LocalTypeOK
  <2>2. Blocks(w, scope[w] \ Finals)
    BY LeaveEffect DEF Return
  <2>3. Blocks(w, {})
    BY <2>1, <2>2
  <2>4. {} \in SUBSET Finals /\ Fits("poll", {})
    BY DEF Fits
  <2> QED BY <2>3, <2>4, ShapeKept
<1>3. /\ tally[held[w]]["complete"] = 0
      /\ tally[held[w]]["failed"] = IF Counted(w) THEN 1 ELSE 0
      /\ wpc[w] = "delete" => /\ verdict[w] # "RETRY"
                              /\ verdict[w] = "COMPLETED" <=> held[w] \in finishedBy
                              /\ verdict[w] = "SKIPPED_DUPLICATE" => JobOfW(w) \in settled
      /\ Counted(w) => JobOfW(w) \in settled \/ Stray(JobOfW(w))
  BY DEF Busy, Ledger, Counted, PipelineInv, WorkerKnows
<1>4. /\ tally' \in [Receipts -> [Labels -> Nat]]
      /\ \A r \in Receipts \ {held[w]} : tally'[r] = tally[r]
      /\ tally'[held[w]]["complete"] = IF v = "COMPLETED" THEN 1 ELSE 0
      /\ tally'[held[w]]["failed"] = IF Counted(w) THEN 1 ELSE 0
  BY <1>3, CountEffect DEF Labels, Busy, LocalTypeOK
<1>5. /\ verdict' \in [Workers -> Verdicts]
      /\ \A u \in Workers \ {w} : verdict'[u] = verdict[u]
  BY DEF Return, Busy, LocalTypeOK, Verdicts
<1>6. /\ outcome' \in [Receipts -> Verdicts \cup {"OPEN", "KILLED"}] /\ outcome'[held[w]] = v
      /\ \A r \in Receipts \ {held[w]} : outcome'[r] = outcome[r]
  BY <1>1 DEF Return, Busy, LocalTypeOK
<1>7. LocalTypeOK'
  BY <1>2, <1>4, <1>5, <1>6 DEF LocalTypeOK, Blocks
<1>8. Ledger(w)'
  BY DEF Ledger
<1>9. ASSUME NEW r \in Receipts, r = held[w] PROVE Truthful(r)' /\ Traced(r)'
  <2>1. Counted(w) => JobOf(r[1]) \in settled' \/ Stray(JobOf(r[1]))'
    BY <1>1, <1>3, <1>9 DEF Around, Stray
  <2>2. v = "SKIPPED_DUPLICATE" => JobOf(r[1]) \in settled' /\ ~Counted(w)
    BY <1>1, <1>3, <1>9 DEF Around, Counted
  <2>3. v = "COMPLETED" => r \in finishedBy' /\ ~Counted(w)
    BY <1>3, <1>9 DEF Counted
  <2>4. v \in {"FAILED", "MALFORMED"} => Counted(w)
    BY DEF Counted
  <2>5. Truthful(r)'
    BY <1>4, <1>6, <1>9, <2>1, <2>2, <2>3, <2>4 DEF Truthful
  <2>6. r \in finishedBy' => v \in {"COMPLETED", "RETRY"}
    BY <1>3, <1>9
  <2>7. r \notin scratch'
    BY <1>2, <1>9 DEF Blocks
  <2>8. Traced(r)'
    BY <1>4, <1>6, <1>9, <2>6, <2>7 DEF Traced
  <2> QED BY <2>5, <2>8
<1> QED BY <1>2, <1>4, <1>5, <1>6, <1>7, <1>8, <1>9 DEF Kept, Blocks

(* The process has died and no finally block has run.                      *)
LEMMA HasDied ==
    ASSUME NEW w \in Workers, Busy(w), Around(w), TypeInv', LocalCrash(w)
    PROVE  Kept(w)
<1>1. held[w] \in Receipts /\ JobOfW(w) = JobOf(held[w][1])
  BY BusyHolds
<1>2. wpc'[w] = "poll" /\ held'[w] = NoReceipt /\ UNCHANGED <<scratch, tally>>
  BY DEF LocalCrash, WorkerCrash, Release, Busy, TypeInv, TypeOK, WorkerTypeOK
<1>3. /\ scope' \in [Workers -> SUBSET Finals] /\ inflight' \in [Workers -> {0, 1}]
      /\ bound' \in [Workers -> SUBSET Jobs] /\ verdict' \in [Workers -> Verdicts]
      /\ scope'[w] = {} /\ inflight'[w] = 0 /\ bound'[w] = {}
      /\ \A v \in Workers \ {w} :
           /\ scope'[v] = scope[v] /\ inflight'[v] = inflight[v] /\ bound'[v] = bound[v]
           /\ verdict'[v] = verdict[v]
  BY DEF LocalCrash, Busy, LocalTypeOK, Verdicts
<1>4. /\ outcome' \in [Receipts -> Verdicts \cup {"OPEN", "KILLED"}]
      /\ outcome'[held[w]] = "KILLED"
      /\ \A r \in Receipts \ {held[w]} : outcome'[r] = outcome[r]
  BY <1>1 DEF LocalCrash, Busy, LocalTypeOK
<1>5. LocalTypeOK' /\ Shape(w)' /\ Ledger(w)'
  BY <1>2, <1>3, <1>4 DEF Busy, LocalTypeOK, Shape, Ledger
<1>6. ASSUME NEW r \in Receipts, r = held[w] PROVE Truthful(r)' /\ Traced(r)'
  <2>1. /\ tally[r]["complete"] = 0 /\ tally[r]["failed"] = IF Counted(w) THEN 1 ELSE 0
        /\ Counted(w) => JobOfW(w) \in settled \/ Stray(JobOfW(w))
    BY <1>6 DEF Busy, Ledger, Counted, PipelineInv, WorkerKnows
  <2>2. Counted(w) => JobOf(r[1]) \in settled' \/ Stray(JobOf(r[1]))'
    BY <1>1, <1>6, <2>1 DEF Around, Stray
  <2>3. Truthful(r)'
    BY <1>2, <1>4, <1>6, <2>1, <2>2 DEF Truthful
  <2>4. Traced(r)'
    BY <1>4, <1>6 DEF Traced
  <2> QED BY <2>3, <2>4
<1> QED BY <1>2, <1>3, <1>4, <1>5, <1>6 DEF Kept

-----------------------------------------------------------------------------
(* The handler's steps, one lemma per stage.                               *)

(* A step either lets go of the message or keeps it, and only              *)
(* mark_complete writes to the history of completions.                     *)
LEMMA HandlerMoves ==
    ASSUME NEW w \in Workers, Busy(w), WorkerStep(w)
    PROVE  /\ wpc'[w] = "poll" => held'[w] = NoReceipt
           /\ wpc'[w] # "poll" => held' = held
           /\ wpc[w] # "mark_complete" => finishedBy' = finishedBy
<1> USE DEF Busy, Goto, Retry, Release, workerVars, TypeInv, TypeOK, WorkerTypeOK
<1>1. ~\E m \in Messages : WorkerReceive(w, m) \/ WorkerReceiveLost(w, m)
  BY DEF WorkerReceive, WorkerReceiveLost
<1>2. CASE WorkerHandle(w) \/ WorkerGetJob(w) \/ WorkerRender(w)
  BY <1>2 DEF WorkerHandle, WorkerGetJob, WorkerRender
<1>3. CASE \E o \in Outcomes : WorkerMarkProcessing(w, o) \/ WorkerMarkFailed(w, o)
  BY <1>3 DEF WorkerMarkProcessing, WorkerMarkFailed
<1>4. CASE \E o \in Outcomes : WorkerMarkComplete(w, o)
  BY <1>4 DEF WorkerMarkComplete
<1>5. CASE WorkerUpload(w)
  BY <1>5 DEF WorkerUpload
<1>6. CASE WorkerDelete(w) \/ WorkerCrash(w)
  BY <1>6 DEF WorkerDelete, WorkerCrash
<1> QED BY <1>1, <1>2, <1>3, <1>4, <1>5, <1>6 DEF WorkerStep, WorkerHandler

(* Whatever a worker with a message in hand does next, it keeps its state  *)
(* and the books of that message in order.                                 *)
LEMMA HandlerKeeps ==
    ASSUME NEW w \in Workers, Busy(w), TypeInv', PipelineInv', LocalStep(w), UNCHANGED apiVars
    PROVE  Kept(w)
<1>a. Around(w)
  BY LocalIsWorker, WorkerAround
<1>b. /\ wpc'[w] = "poll" => held'[w] = NoReceipt
      /\ wpc'[w] # "poll" => held' = held
      /\ wpc[w] # "mark_complete" => finishedBy' = finishedBy
  BY LocalIsWorker, HandlerMoves
<1>c. /\ held[w] \in Receipts /\ JobOfW(w) \in Jobs
      /\ scope[w] \in SUBSET Finals /\ Fits(wpc[w], scope[w])
      /\ wpc[w] # "delete" => ~Counted(w)
      /\ wpc[w] \notin {"mark_complete", "delete"} => held[w] \notin finishedBy
  BY BusyHolds DEF Busy, LocalTypeOK, Shape, Ledger, Fits, Counted
<1>d. ASSUME Enter(w, {}) PROVE Blocks(w, scope[w])
  <2>1. {} \in SUBSET Finals /\ scope[w] \cup {} = scope[w]
    BY <1>c
  <2>2. Blocks(w, scope[w] \cup {})
    BY <1>d, <2>1, EnterEffect
  <2> QED BY <2>1, <2>2
<1>e. ASSUME wpc'[w] = "poll", wpc[w] # "delete", Return(w, "RETRY"), UNCHANGED tally
      PROVE  Kept(w)
  BY <1>a, <1>b, <1>c, <1>e, HasEnded DEF Verdicts
<1>f. ASSUME wpc'[w] \notin {"poll", "delete"}, wpc[w] \notin {"mark_complete", "delete"},
             Enter(w, {}), Undecided, UNCHANGED tally, Fits(wpc'[w], scope[w])
      PROVE  Kept(w)
  BY <1>a, <1>b, <1>c, <1>d, <1>f, GoesOn
<1>1. CASE \E m \in Messages : LocalReceive(w, m) \/ LocalReceiveLost(w, m)
  BY <1>1 DEF LocalReceive, LocalReceiveLost, WorkerReceive, WorkerReceiveLost, Busy
<1>2. CASE LocalHandle(w)
  <2>1. wpc[w] = "handle" /\ scope[w] = {}
    BY <1>2, <1>c DEF LocalHandle, WorkerHandle, Fits
  <2>2. CASE /\ wpc'[w] = "delete" /\ Count(w, "failed") /\ Decide(w, "MALFORMED")
             /\ Enter(w, {})
    BY <1>a, <1>b, <1>c, <1>d, <2>1, <2>2, HasDecided DEF Verdicts
  <2>3. CASE wpc'[w] = "poll" /\ Return(w, "RETRY") /\ UNCHANGED tally
    BY <1>e, <2>1, <2>3
  <2>4. CASE wpc'[w] = "get_job" /\ Enter(w, {"context"}) /\ Undecided /\ UNCHANGED tally
    <3>1. {"context"} \in SUBSET Finals /\ scope[w] \cup {"context"} = {"context"}
          /\ "inflight" \notin {"context"}
      BY <2>1 DEF Finals
    <3>2. Blocks(w, {"context"})
      <4>1. Blocks(w, scope[w] \cup {"context"})
        BY <2>4, <3>1, EnterEffect
      <4> QED BY <3>1, <4>1
    <3>3. Fits("get_job", {"context"})
      BY DEF Fits
    <3> QED BY <1>a, <1>b, <1>c, <2>1, <2>4, <3>1, <3>2, <3>3, GoesOn
  <2> QED BY <1>2, <2>2, <2>3, <2>4 DEF LocalHandle
<1>3. CASE LocalGetJob(w)
  <2>1. wpc[w] = "get_job"
    BY <1>3 DEF LocalGetJob, WorkerGetJob
  <2>2. CASE wpc'[w] = "poll" /\ Return(w, "RETRY") /\ UNCHANGED tally
    BY <1>e, <2>1, <2>2
  <2>3. CASE wpc'[w] = "delete" /\ Count(w, "failed") /\ Decide(w, "FAILED") /\ Enter(w, {})
    BY <1>a, <1>b, <1>c, <1>d, <2>1, <2>3, HasDecided DEF Verdicts, Fits
  <2>4. CASE /\ wpc'[w] = "delete" /\ status[JobOfW(w)] = "COMPLETE"
             /\ Decide(w, "SKIPPED_DUPLICATE") /\ Enter(w, {}) /\ UNCHANGED tally
    <3>1. JobOfW(w) \in settled
      BY <1>c, <2>4 DEF Busy, PipelineInv, RequestOrder, Terminal
    <3> QED BY <1>a, <1>b, <1>c, <1>d, <2>1, <2>4, <3>1, HasDecided DEF Verdicts, Fits
  <2>5. CASE /\ wpc'[w] \in {"mark_failed", "mark_processing"}
             /\ Enter(w, {}) /\ Undecided /\ UNCHANGED tally
    BY <1>c, <1>f, <2>1, <2>5 DEF Fits
  <2> QED BY <1>3, <2>2, <2>3, <2>4, <2>5 DEF LocalGetJob
<1>4. ASSUME NEW o \in Outcomes, LocalMarkProcessing(w, o) PROVE Kept(w)
  <2>1. wpc[w] = "mark_processing" /\ UNCHANGED tally
    BY <1>4 DEF LocalMarkProcessing, WorkerMarkProcessing
  <2>2. CASE wpc'[w] = "mark_processing" /\ Enter(w, {}) /\ Undecided
    BY <1>c, <1>f, <2>1, <2>2
  <2>3. CASE wpc'[w] = "render" /\ Enter(w, {"inflight", "workspace"}) /\ Undecided
    <3>1. {"inflight", "workspace"} \in SUBSET Finals
      BY DEF Finals
    <3>2. "inflight" \notin scope[w]
      BY <1>c, <2>1 DEF Fits
    <3>3. Blocks(w, scope[w] \cup {"inflight", "workspace"})
      BY <2>3, <3>1, <3>2, EnterEffect
    <3>4. Fits("render", scope[w] \cup {"inflight", "workspace"})
      BY DEF Fits
    <3>5. scope[w] \cup {"inflight", "workspace"} \in SUBSET Finals
      BY <1>c, <3>1
    <3> QED BY <1>a, <1>b, <1>c, <2>1, <2>3, <3>3, <3>4, <3>5, GoesOn
  <2>4. CASE wpc'[w] = "delete" /\ Decide(w, "SKIPPED_DUPLICATE") /\ Enter(w, {})
    <3>1. ~StartCondition(JobOfW(w))
      BY <1>4, <2>4 DEF LocalMarkProcessing, WorkerMarkProcessing, Goto, Retry, Release,
         Busy, TypeInv, TypeOK, WorkerTypeOK
    <3>2. status[JobOfW(w)] = "COMPLETE"
      BY <2>1, <3>1 DEF StartCondition, Busy, PipelineInv, WorkerKnows, PastLookup
    <3>3. JobOfW(w) \in settled
      BY <1>c, <3>2 DEF Busy, PipelineInv, RequestOrder, Terminal
    <3> QED BY <1>a, <1>b, <1>c, <1>d, <2>1, <2>4, <3>3, HasDecided DEF Verdicts, Fits
  <2>5. CASE wpc'[w] = "poll" /\ Return(w, "RETRY")
    BY <1>e, <2>1, <2>5
  <2> QED BY <1>4, <2>2, <2>3, <2>4, <2>5 DEF LocalMarkProcessing
<1>g. ASSUME wpc[w] \in {"render", "upload"}, wpc'[w] \in {"mark_failed", "mark_complete"},
             Leave(w, {"workspace"}), Undecided, UNCHANGED tally
      PROVE  Kept(w)
  <2>1. {"workspace"} \in SUBSET Finals /\ scope[w] \ {"workspace"} \in SUBSET Finals
    BY <1>c DEF Finals
  <2>2. Blocks(w, scope[w] \ {"workspace"})
    BY <1>g, <2>1, LeaveEffect
  <2>3. Fits(wpc'[w], scope[w] \ {"workspace"})
    BY <1>c, <1>g DEF Fits
  <2> QED BY <1>a, <1>b, <1>c, <1>g, <2>1, <2>2, <2>3, GoesOn
<1>5. CASE LocalRender(w)
  <2>1. wpc[w] = "render" /\ UNCHANGED tally
    BY <1>5 DEF LocalRender, WorkerRender
  <2>2. CASE wpc'[w] = "upload" /\ Enter(w, {}) /\ Undecided
    BY <1>c, <1>f, <2>1, <2>2 DEF Fits
  <2> QED BY <1>5, <1>e, <1>g, <2>1, <2>2 DEF LocalRender
<1>6. CASE LocalUpload(w)
  <2>1. wpc[w] = "upload" /\ UNCHANGED tally
    BY <1>6 DEF LocalUpload, WorkerUpload
  <2>2. CASE wpc'[w] = "upload" /\ Enter(w, {}) /\ Undecided
    BY <1>c, <1>f, <2>1, <2>2
  <2> QED BY <1>6, <1>e, <1>g, <2>1, <2>2 DEF LocalUpload
<1>7. ASSUME NEW o \in Outcomes, LocalMarkComplete(w, o) PROVE Kept(w)
  <2>1. wpc[w] = "mark_complete" /\ UNCHANGED tally
    BY <1>7 DEF LocalMarkComplete, WorkerMarkComplete
  <2>2. CASE wpc'[w] = "mark_complete" /\ Enter(w, {}) /\ Undecided
    BY <1>a, <1>b, <1>c, <1>d, <2>1, <2>2, GoesOn
  <2>3. CASE wpc'[w] = "delete" /\ Decide(w, "COMPLETED") /\ Enter(w, {})
    <3>1. held[w] \in finishedBy'
      BY <1>7, <2>3 DEF LocalMarkComplete, WorkerMarkComplete, Applied, Goto, Retry, Release,
         Busy, TypeInv, TypeOK, WorkerTypeOK
    <3> QED BY <1>a, <1>b, <1>c, <1>d, <2>1, <2>3, <3>1, HasDecided DEF Verdicts, Fits
  <2>4. CASE wpc'[w] = "poll" /\ Return(w, "RETRY")
    BY <1>e, <2>1, <2>4
  <2> QED BY <1>7, <2>2, <2>3, <2>4 DEF LocalMarkComplete
<1>8. ASSUME NEW o \in Outcomes, LocalMarkFailed(w, o) PROVE Kept(w)
  <2>1. wpc[w] = "mark_failed"
    BY <1>8 DEF LocalMarkFailed, WorkerMarkFailed
  <2>2. CASE wpc'[w] = "mark_failed" /\ Enter(w, {}) /\ Undecided /\ UNCHANGED tally
    BY <1>c, <1>f, <2>1, <2>2
  <2>3. CASE wpc'[w] = "delete" /\ Count(w, "failed") /\ Decide(w, "FAILED") /\ Enter(w, {})
    BY <1>a, <1>b, <1>c, <1>d, <2>1, <2>3, HasDecided DEF Verdicts, Fits
  <2>4. CASE wpc'[w] = "poll" /\ Return(w, "RETRY") /\ UNCHANGED tally
    BY <1>e, <2>1, <2>4
  <2> QED BY <1>8, <2>2, <2>3, <2>4 DEF LocalMarkFailed
<1>9. CASE LocalDelete(w)
  <2>1. wpc[w] = "delete" /\ wpc'[w] = "poll"
    BY <1>9 DEF LocalDelete, WorkerDelete, Release, Busy, TypeInv, TypeOK, WorkerTypeOK
  <2>2. verdict[w] \in Verdicts
    BY DEF Busy, LocalTypeOK
  <2>3. CASE verdict[w] = "COMPLETED" /\ Count(w, "complete") /\ Return(w, "COMPLETED")
    BY <1>a, <1>b, <2>1, <2>2, <2>3, HasEnded
  <2>4. CASE verdict[w] = "COMPLETED" /\ Return(w, "RETRY") /\ UNCHANGED tally
    BY <1>a, <1>b, <2>1, <2>4, HasEnded DEF Verdicts, Counted
  <2>5. CASE verdict[w] # "COMPLETED" /\ Return(w, verdict[w]) /\ UNCHANGED tally
    BY <1>a, <1>b, <2>1, <2>2, <2>5, HasEnded
  <2> QED BY <1>9, <2>3, <2>4, <2>5 DEF LocalDelete
<1>10. CASE LocalCrash(w)
  BY <1>a, <1>10, HasDied
<1> QED BY <1>1, <1>2, <1>3, <1>4, <1>5, <1>6, <1>7, <1>8, <1>9, <1>10 DEF LocalStep

-----------------------------------------------------------------------------
(* From one worker to the system.                                          *)

(* A step of one worker leaves the state and the books of the others in    *)
(* order: no two have the same delivery in hand.                           *)
LEMMA WorkerKeeps ==
    ASSUME TypeInv, LocalInv, NEW w \in Workers, wpc[w] # "poll", Around(w), Kept(w),
           held'[w] \in {held[w], NoReceipt}
    PROVE  LocalInv'
<1>a. /\ \A v \in Workers : Shape(v) /\ Ledger(v)
      /\ \A r \in Receipts : Fresh(r) /\ Truthful(r) /\ Traced(r)
      /\ OneHolder
  BY DEF LocalInv
<1>b. \A v \in Workers : wpc[v] # "poll" <=> held[v] \in Receipts
  BY <1>a, NoReceiptAssumption DEF TypeInv, HoldsReceipt, Shape
<1>1. ASSUME NEW v \in Workers PROVE Shape(v)' /\ Ledger(v)'
  <2>1. CASE v = w
    BY <2>1 DEF Kept
  <2>2. CASE v # w
    <3>1. /\ wpc'[v] = wpc[v] /\ held'[v] = held[v] /\ scope'[v] = scope[v]
          /\ inflight'[v] = inflight[v] /\ bound'[v] = bound[v] /\ verdict'[v] = verdict[v]
          /\ receives' = receives /\ settled \subseteq settled'
      BY <2>2 DEF Around, Kept
    <3>2. wpc[v] # "poll" => held[v] \in Receipts \ {held[w]}
      BY <1>a, <1>b, <2>2, NoReceiptAssumption DEF OneHolder
    <3>3. wpc[v] # "poll" =>
            /\ outcome'[held[v]] = outcome[held[v]] /\ tally'[held[v]] = tally[held[v]]
            /\ held[v] \in scratch' <=> held[v] \in scratch
            /\ held[v] \in finishedBy' <=> held[v] \in finishedBy
      BY <3>2 DEF Around, Kept
    <3>4. Shape(v)'
      BY <1>a, <3>1, <3>3 DEF Shape, JobOfW, MsgOf
    <3>5. Ledger(v)'
      BY <1>a, <3>1, <3>3 DEF Ledger, Counted, JobOfW, MsgOf
    <3> QED BY <3>4, <3>5
  <2> QED BY <2>1, <2>2
<1>2. OneHolder'
  BY <1>a DEF OneHolder, Around
<1>3. ASSUME NEW r \in Receipts PROVE Fresh(r)' /\ Truthful(r)' /\ Traced(r)'
  <2>1. CASE r = held[w]
    <3>1. r[2] <= receives[r[1]] /\ receives' = receives
      BY <1>a, <2>1 DEF Ledger, MsgOf, Around
    <3>2. r[2] \in Nat /\ receives[r[1]] \in Nat
      BY ReceiptParts, MaxReceiveAssumption DEF TypeInv, TypeOK, StoreTypeOK
    <3>3. Fresh(r)'
      BY <3>1, <3>2 DEF Fresh
    <3> QED BY <2>1, <3>3 DEF Kept
  <2>2. CASE r # held[w]
    <3>1. /\ outcome'[r] = outcome[r] /\ tally'[r] = tally[r]
          /\ r \in scratch' <=> r \in scratch
          /\ r \in finishedBy' <=> r \in finishedBy
          /\ receives' = receives /\ settled \subseteq settled' /\ apiPc' = apiPc
      BY <2>2 DEF Around, Kept
    <3>2. Fresh(r)'
      BY <1>a, <3>1 DEF Fresh
    <3>3. Truthful(r)'
      BY <1>a, <3>1 DEF Truthful, Stray
    <3>4. \A v \in Workers : held[v] = r => held'[v] = r /\ wpc'[v] = wpc[v]
      BY <2>2 DEF Around
    <3>5. Traced(r)'
      BY <1>a, <3>1, <3>4 DEF Traced
    <3> QED BY <3>2, <3>3, <3>5
  <2> QED BY <2>1, <2>2
<1> QED BY <1>1, <1>2, <1>3 DEF LocalInv

(* What happens elsewhere only settles jobs and spends deliveries.         *)
LEMMA ElsewhereKeeps ==
    ASSUME TypeInv, TypeInv', LocalInv, UNCHANGED <<workerVars, localVars>>,
           settled \subseteq settled', \A j \in Jobs : Stray(j) => Stray(j)',
           \A m \in Messages : receives[m] <= receives'[m]
    PROVE  LocalInv'
<1>a. /\ UNCHANGED <<wpc, held, finishedBy, scope, inflight, bound, scratch, verdict, outcome, tally>>
      /\ \A m \in Messages : receives[m] \in Nat /\ receives'[m] \in Nat
  BY MaxReceiveAssumption DEF workerVars, localVars, TypeInv, TypeOK, StoreTypeOK
<1>1. ASSUME NEW w \in Workers PROVE Shape(w)' /\ Ledger(w)'
  <2>1. Shape(w) /\ Ledger(w)
    BY DEF LocalInv
  <2>2. Shape(w)'
    BY <1>a, <2>1 DEF Shape, JobOfW, MsgOf
  <2>3. wpc[w] # "poll" => MsgOf(w) \in Messages /\ held[w][2] \in Nat
    BY ReceiptParts, MaxReceiveAssumption DEF TypeInv, HoldsReceipt, MsgOf
  <2>4. wpc[w] # "poll" => held[w][2] <= receives'[MsgOf(w)]
    BY <1>a, <2>1, <2>3 DEF Ledger
  <2>5. Ledger(w)'
    BY <1>a, <2>1, <2>4 DEF Ledger, Counted, JobOfW, MsgOf
  <2> QED BY <2>2, <2>5
<1>2. OneHolder'
  BY <1>a DEF LocalInv, OneHolder
<1>3. ASSUME NEW r \in Receipts PROVE Fresh(r)' /\ Truthful(r)' /\ Traced(r)'
  <2>1. Fresh(r) /\ Truthful(r) /\ Traced(r)
    BY DEF LocalInv
  <2>2. r[1] \in Messages /\ r[2] \in Nat /\ JobOf(r[1]) \in Jobs
    BY ReceiptParts, MaxReceiveAssumption
  <2>3. r[2] > receives'[r[1]] => r[2] > receives[r[1]]
    BY <1>a, <2>2
  <2>4. Fresh(r)'
    BY <1>a, <2>1, <2>3 DEF Fresh
  <2>5. Truthful(r)'
    BY <1>a, <2>1, <2>2 DEF Truthful
  <2>6. Traced(r)'
    BY <1>a, <2>1 DEF Traced
  <2> QED BY <2>4, <2>5, <2>6
<1> QED BY <1>1, <1>2, <1>3 DEF LocalInv

(* The receipt a worker is handed is nobody else's, and its books are new. *)
LEMMA ReceiveKeeps ==
    ASSUME TypeInv, TypeInv', LocalInv, NEW w \in Workers, NEW m \in Messages,
           LocalReceive(w, m), UNCHANGED apiVars
    PROVE  LocalInv'
<1> DEFINE new == <<m, receives[m] + 1>>
<1>a. /\ wpc[w] = "poll" /\ wpc'[w] = "handle" /\ held'[w] = new
      /\ \A v \in Workers \ {w} : wpc'[v] = wpc[v] /\ held'[v] = held[v]
      /\ UNCHANGED <<finishedBy, scope, inflight, bound, scratch, verdict, outcome, tally,
                     settled, apiPc>>
      /\ receives' = [receives EXCEPT ![m] = @ + 1]
  BY DEF LocalReceive, WorkerReceive, ReceiveMessage, localVars, apiVars, tableVars,
     TypeInv, TypeOK, WorkerTypeOK
<1>b. receives[m] \in Nat /\ receives[m] + 1 \in 1..MaxReceive /\ new \in Receipts
  BY MaxReceiveAssumption
     DEF LocalReceive, WorkerReceive, CanReceive, TypeInv, TypeOK, StoreTypeOK, Receipts
<1>c. /\ \A l \in Messages : receives[l] \in Nat /\ receives'[l] \in Nat
                             /\ receives[l] <= receives'[l]
      /\ receives'[m] = receives[m] + 1
  BY <1>a, MaxReceiveAssumption DEF TypeInv, TypeOK, StoreTypeOK
<1>d. /\ \A v \in Workers : Shape(v) /\ Ledger(v)
      /\ \A r \in Receipts : Fresh(r) /\ Truthful(r) /\ Traced(r)
      /\ OneHolder
  BY DEF LocalInv
<1>e. new[1] = m /\ new[2] = receives[m] + 1 /\ new[2] > receives[new[1]] /\ new # NoReceipt
  BY <1>b, NoReceiptAssumption
<1> HIDE DEF new
<1>f. \A v \in Workers : held[v] # new
  <2> SUFFICES ASSUME NEW v \in Workers, held[v] = new PROVE FALSE
    OBVIOUS
  <2>1. wpc[v] # "poll"
    BY <1>d, <1>e DEF Shape
  <2>2. new[2] <= receives[m]
    BY <1>d, <1>e, <2>1 DEF Ledger, MsgOf
  <2> QED BY <1>b, <1>e, <2>2
<1>g. /\ outcome[new] = "OPEN" /\ new \notin finishedBy /\ new \notin scratch
      /\ tally[new]["complete"] = 0 /\ tally[new]["failed"] = 0
  BY <1>b, <1>d, <1>e, <1>f DEF Fresh, Traced
<1>1. ASSUME NEW v \in Workers PROVE Shape(v)' /\ Ledger(v)'
  <2>1. CASE v = w
    <3>1. Shape(v)'
      BY <1>a, <1>d, <1>e, <1>g, <2>1 DEF Shape, JobOfW, MsgOf
    <3>2. Ledger(v)'
      BY <1>a, <1>b, <1>c, <1>e, <1>g, <2>1 DEF Ledger, Counted, MsgOf
    <3> QED BY <3>1, <3>2
  <2>2. CASE v # w
    <3>1. Shape(v)'
      BY <1>a, <1>d, <2>2 DEF Shape, JobOfW, MsgOf
    <3>2. wpc[v] # "poll" => MsgOf(v) \in Messages /\ held[v][2] \in Nat
      BY ReceiptParts, MaxReceiveAssumption DEF TypeInv, HoldsReceipt, MsgOf
    <3>3. wpc[v] # "poll" => held[v][2] <= receives'[MsgOf(v)]
      BY <1>c, <1>d, <3>2 DEF Ledger
    <3>4. Ledger(v)'
      BY <1>a, <1>d, <2>2, <3>3 DEF Ledger, Counted, JobOfW, MsgOf
    <3> QED BY <3>1, <3>4
  <2> QED BY <2>1, <2>2
<1>2. OneHolder'
  BY <1>a, <1>d, <1>f DEF OneHolder
<1>3. ASSUME NEW r \in Receipts PROVE Fresh(r)' /\ Truthful(r)' /\ Traced(r)'
  <2>1. r[1] \in Messages /\ r[2] \in Nat
    BY ReceiptParts, MaxReceiveAssumption
  <2>2. r[2] > receives'[r[1]] => r[2] > receives[r[1]]
    BY <1>c, <2>1
  <2>3. Fresh(r)'
    BY <1>a, <1>d, <2>2 DEF Fresh
  <2>4. Truthful(r)'
    BY <1>a, <1>d DEF Truthful, Stray
  <2>5. \A v \in Workers : held[v] = r => v # w
    BY <1>a, <1>d, NoReceiptAssumption DEF Shape
  <2>6. Traced(r)'
    BY <1>a, <1>d, <2>5 DEF Traced
  <2> QED BY <2>3, <2>4, <2>6
<1> QED BY <1>1, <1>2, <1>3 DEF LocalInv

(* One step of the system keeps the books in order.                        *)
LEMMA LocalKeeps ==
    ASSUME TypeInv, TypeInv', PipelineInv, PipelineInv', LocalTypeOK, LocalInv,
           [LocalNext]_<<vars, localVars>>
    PROVE  LocalTypeOK' /\ LocalInv'
<1>1. ASSUME UNCHANGED localVars PROVE LocalTypeOK'
  BY <1>1 DEF LocalTypeOK, localVars
<1>2. ASSUME NEW j \in Jobs, ApiStep(j), UNCHANGED <<workerVars, localVars>>
      PROVE  LocalTypeOK' /\ LocalInv'
  <2>1. settled \subseteq settled' /\ (\A i \in Jobs : Stray(i) => Stray(i)') /\ receives' = receives
    BY <1>2 DEF ApiStep, ApiBegin, StraySend, ApiPutObject, ApiPutJob, ApiSend,
       ApiMarkUnqueueable, ApiCrash, ApiGoto, ApiRetry, PutItem, SendMessage, Stray,
       storeVars, tableVars, queueVars, ApiActive, TypeInv, TypeOK, ApiTypeOK
  <2>2. \A m \in Messages : receives[m] <= receives'[m]
    BY <2>1, MaxReceiveAssumption DEF TypeInv, TypeOK, StoreTypeOK
  <2> QED BY <1>1, <1>2, <2>1, <2>2, ElsewhereKeeps
<1>3. ASSUME NEW w \in Workers, LocalStep(w), UNCHANGED apiVars
      PROVE  LocalTypeOK' /\ LocalInv'
  <2>1. CASE wpc[w] # "poll"
    <3>1. Busy(w)
      BY <2>1 DEF Busy, LocalInv
    <3>2. Kept(w)
      BY <1>3, <3>1, HandlerKeeps
    <3>3. Around(w) /\ held'[w] \in {held[w], NoReceipt}
      BY <1>3, <3>1, LocalIsWorker, WorkerAround, HandlerMoves
    <3> QED BY <2>1, <3>2, <3>3, WorkerKeeps DEF Kept
  <2>2. CASE \E m \in Messages : LocalReceive(w, m)
    BY <1>1, <1>3, <2>2, ReceiveKeeps DEF LocalReceive
  <2>3. CASE \E m \in Messages : LocalReceiveLost(w, m)
    <3>1. PICK m \in Messages : LocalReceiveLost(w, m)
      BY <2>3
    <3>2. /\ UNCHANGED <<workerVars, localVars, settled, apiPc>>
          /\ receives' = [receives EXCEPT ![m] = @ + 1]
      BY <1>3, <3>1 DEF LocalReceiveLost, WorkerReceiveLost, ReceiveMessage, tableVars, apiVars
    <3>3. \A l \in Messages : receives[l] <= receives'[l]
      BY <3>2, MaxReceiveAssumption DEF TypeInv, TypeOK, StoreTypeOK
    <3> QED BY <1>1, <3>2, <3>3, ElsewhereKeeps DEF Stray
  <2>4. wpc[w] = "poll" => \E m \in Messages : LocalReceive(w, m) \/ LocalReceiveLost(w, m)
    BY <1>3 DEF LocalStep, LocalHandle, LocalGetJob, LocalMarkProcessing, LocalMarkComplete,
       LocalMarkFailed, LocalRender, LocalUpload, LocalDelete, LocalCrash, WorkerHandle,
       WorkerGetJob, WorkerMarkProcessing, WorkerMarkComplete, WorkerMarkFailed,
       WorkerRender, WorkerUpload, WorkerDelete, WorkerCrash
  <2> QED BY <2>1, <2>2, <2>3, <2>4
<1>4. ASSUME UNCHANGED <<workerVars, localVars, settled, apiPc, receives>>
      PROVE  LocalTypeOK' /\ LocalInv'
  <2>1. \A m \in Messages : receives[m] <= receives'[m]
    BY <1>4, MaxReceiveAssumption DEF TypeInv, TypeOK, StoreTypeOK
  <2> QED BY <1>1, <1>4, <2>1, ElsewhereKeeps DEF Stray
<1>5. ASSUME NEW m \in Messages, VisibilityTimeout(m) \/ Redrive(m), UNCHANGED localVars
      PROVE  LocalTypeOK' /\ LocalInv'
  <2>1. UNCHANGED <<workerVars, localVars, settled, apiPc, receives>>
    BY <1>5 DEF VisibilityTimeout, Redrive, ExpireVisibility, RedriveMessage, tableVars, apiVars
  <2> QED BY <1>4, <2>1
<1>6. CASE UNCHANGED <<vars, localVars>>
  BY <1>4, <1>6 DEF vars, storeVars, tableVars, queueVars, apiVars
<1> QED BY <1>2, <1>3, <1>5, <1>6 DEF LocalNext

LEMMA LocalInitially == Init /\ LocalInit => LocalTypeOK /\ LocalInv
<1> SUFFICES ASSUME Init, LocalInit PROVE LocalTypeOK /\ LocalInv
  OBVIOUS
<1>1. LocalTypeOK
  BY DEF LocalInit, LocalTypeOK, Verdicts, Labels
<1>2. \A w \in Workers : Shape(w) /\ Ledger(w)
  BY DEF Init, WorkerInit, LocalInit, Shape, Ledger
<1>3. OneHolder
  BY DEF Init, WorkerInit, OneHolder
<1>4. \A r \in Receipts : Fresh(r) /\ Truthful(r) /\ Traced(r)
  BY DEF Init, WorkerInit, LocalInit, Fresh, Truthful, Traced, Labels
<1> QED BY <1>1, <1>2, <1>3, <1>4 DEF LocalInv

(* The inductive invariant of the workers' books holds in every instance.  *)
THEOREM BooksInOrder == LocalSpec => [](LocalTypeOK /\ LocalInv)
<1>1. LocalSpec => []TypeInv
  BY LocalImplementsPipeline, TypeCorrect, PTL DEF TypeInv
<1>2. LocalSpec => []PipelineInv
  BY LocalImplementsPipeline, InvariantHolds, PTL
<1>3. TypeInv /\ TypeInv' /\ PipelineInv /\ PipelineInv' /\ LocalTypeOK /\ LocalInv
        /\ [LocalNext]_<<vars, localVars>> => (LocalTypeOK /\ LocalInv)'
  BY LocalKeeps
<1> QED BY <1>1, <1>2, <1>3, LocalInitially, PTL DEF LocalSpec

(* The gauge of a worker never leaves zero and one, whatever way its       *)
(* handlers take (consumer.py 278, 335-336).                               *)
THEOREM GaugeInRange == LocalSpec => []LocalTypeOK
BY BooksInOrder, PTL

(* However a handler ends, and it may die anywhere, the gauge, the log     *)
(* context and the scratch directory are as consumer.py 341-343 and        *)
(* logging_setup.py 234-235 say.                                           *)
THEOREM NothingIsLeft == LocalSpec => []HandlersLeaveNothing
<1>1. LocalTypeOK /\ LocalInv => HandlersLeaveNothing
  <2> SUFFICES ASSUME LocalTypeOK, LocalInv, NEW w \in Workers
               PROVE  /\ wpc[w] = "poll" => inflight[w] = 0 /\ bound[w] = {}
                      /\ wpc[w] # "poll" => bound[w] \subseteq {JobOfW(w)}
                      /\ wpc[w] \in {"render", "upload", "mark_complete"} => inflight[w] = 1
                      /\ \A r \in scratch :
                           \/ outcome[r] = "KILLED"
                           \/ \E v \in Workers : held[v] = r /\ wpc[v] \in {"render", "upload"}
    BY DEF HandlersLeaveNothing
  <2>1. Shape(w)
    BY DEF LocalInv
  <2>2. \A r \in scratch : Traced(r)
    BY DEF LocalInv, LocalTypeOK
  <2> QED BY <2>1, <2>2 DEF Shape, Traced
<1> QED BY <1>1, BooksInOrder, PTL

(* Outcome, counters and table agree for every delivery although stale     *)
(* workers, retries and crashes come between (consumer.py 240-410).        *)
THEOREM OutcomesAreTrue == LocalSpec => []OutcomesTellTheTruth
<1>1. LocalInv => OutcomesTellTheTruth
  BY DEF LocalInv, Truthful, OutcomesTellTheTruth
<1> QED BY <1>1, BooksInOrder, PTL

(* A completion that reached the table and is not counted ended in a       *)
(* logged RETRY or with its process (consumer.py 302-304, 319-327).        *)
THEOREM CompletionsAreTraced == LocalSpec => []CompletionsCounted
<1>1. finishedBy \subseteq Receipts /\ LocalInv => CompletionsCounted
  BY DEF LocalInv, Traced, CompletionsCounted
<1>2. TypeOK => finishedBy \subseteq Receipts
  BY DEF TypeOK, WorkerTypeOK
<1> QED BY <1>1, <1>2, BooksInOrder, LocalImplementsPipeline, TypeCorrect, PTL
=============================================================================
