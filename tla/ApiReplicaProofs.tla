-------------------------- MODULE ApiReplicaProofs --------------------------
(***************************************************************************)
(* For any number of requests and threads, any limit, margin and chunk     *)
(* size: every upload that is decided is counted once, under its outcome,  *)
(* no other one twice, and the size limit is exact.  For any changes of    *)
(* the chaos settings and of the dependencies while requests are under     *)
(* way: an injected failure has a cause, and readyz reports what it met.   *)
(***************************************************************************)
EXTENDS ApiReplica, TLAPS

LEMMA FirstEntry == \A x : Append(<< >>, x) = <<x>>
OBVIOUS

LEMMA ResultsOfRejections == \A a \in Rejections : MetricResult[a] \in Results
BY DEF Rejections, MetricResult, Results

(* The outcomes that are counted do not overlap.                           *)
LEMMA Buckets ==
    /\ Bucket("accepted") = "accepted"
    /\ \A a \in Rejections : Bucket(a) = MetricResult[a]
    /\ \A a \in Failures : Bucket(a) = "error"
<1>1. /\ "accepted" \notin Rejections \cup Failures
      /\ Rejections \cap Failures = {}
  BY DEF Rejections, Failures
<1> QED BY <1>1 DEF Bucket

(* The invariant of one request, so that an action on another leaves it be. *)
ReqInv(r) ==
    /\ pc[r] \in Waiting \cup {"reading", "queued", "thread"} =>
         booked[r] = << >> /\ answer[r] = "none"
    /\ pc[r] = "except" =>
         Upload(r) /\ booked[r] = << >> /\ answer[r] \in Rejections \cup Failures
    /\ pc[r] = "handler" /\ Upload(r) =>
         /\ answer[r] \in Rejections \cup Failures \cup {"injected", "validation_error"}
         /\ booked[r] = IF answer[r] \in Failures THEN <<"error">> ELSE << >>
    /\ Upload(r) /\ pc[r] = "done" =>
         /\ Len(booked[r]) <= 1
         /\ answer[r] \in Counted => booked[r] = <<Bucket(answer[r])>>
    /\ pc[r] = "idle" \/ r \in Probes => ~Upload(r)
    /\ pc[r] \in Waiting => total[r] = 0
    /\ pc[r] = "reading" => Upload(r) /\ size[r] # NoFile /\ total[r] <= size[r]
                            /\ total[r] <= MaxBytes
    /\ pc[r] \in {"queued", "thread"} /\ Upload(r) => total[r] = size[r] /\ size[r] <= MaxBytes
    /\ Upload(r) /\ answer[r] = "too_large" =>
         size[r] > MaxBytes \/ declared[r] - size[r] > Margin
    /\ Upload(r) => total[r] <= MaxBytes + Chunk

LEMMA ByRequest == ReplicaInv <=> \A r \in Requests : ReqInv(r)
BY DEF ReplicaInv, BookedSoFar, ReadSoFar, OneBucket, SizeLimitExact, ReqInv

LEMMA ByRequestNext == ReplicaInv' <=> \A r \in Requests : ReqInv(r)'
BY DEF ReplicaInv, BookedSoFar, ReadSoFar, OneBucket, SizeLimitExact, ReqInv,
       Upload, Bucket

LEMMA Initially == Init => RequestTypeOK /\ ReplicaInv
<1> SUFFICES ASSUME Init PROVE RequestTypeOK /\ \A r \in Requests : ReqInv(r)
  BY ByRequest
<1>1. RequestTypeOK
  BY DEF Init, RequestTypeOK, Answers, NoLength, NoFile
<1>2. \A r \in Requests : ReqInv(r)
  BY ReplicaAssumption DEF Init, ReqInv, Upload, Waiting
<1> QED BY <1>1, <1>2

(* An action of one request leaves the others as they are.                 *)
Untouched(q) ==
    /\ pc'[q] = pc[q] /\ method'[q] = method[q] /\ size'[q] = size[q]
    /\ declared'[q] = declared[q] /\ total'[q] = total[q]
    /\ answer'[q] = answer[q] /\ booked'[q] = booked[q]

LEMMA UntouchedKeeps ==
    ASSUME NEW q \in Requests, ReqInv(q), Untouched(q)
    PROVE  ReqInv(q)'
BY DEF ReqInv, Untouched, Upload, Bucket

(* The length a client declares is a number, with or without a file.       *)
LEMMA LengthsAreNat == \A s \in FileSizes \cup {NoFile} : Lengths(s) \subseteq Nat
<1> SUFFICES ASSUME NEW s \in FileSizes \cup {NoFile}, NEW d \in Lengths(s)  PROVE d \in Nat
  OBVIOUS
<1>1. FileSizes \subseteq Nat /\ Overheads \subseteq Nat
  BY ReplicaAssumption
<1>2. CASE d = NoLength
  BY <1>2 DEF NoLength
<1>3. CASE d # NoLength
  <2>1. PICK o \in Overheads : d = (IF s = NoFile THEN 0 ELSE s) + o
    BY <1>3 DEF Lengths
  <2>2. o \in Nat /\ (s = NoFile \/ s \in Nat)
    BY <1>1
  <2> QED BY <2>1, <2>2
<1> QED BY <1>2, <1>3

(* Arrival, the chaos gate and the wait for a thread.                      *)
LEMMA GateKeeps ==
    ASSUME RequestTypeOK, NEW r \in Requests, ReqInv(r),
           Arrive(r) \/ ApplyChaos(r) \/ WakeUp(r) \/ ResolveDeps(r) \/ TakeThread(r)
    PROVE  /\ RequestTypeOK' /\ ReqInv(r)'
           /\ \A q \in Requests \ {r} : Untouched(q)
<1> USE ReplicaAssumption DEF RequestTypeOK, ReqInv, Upload, Waiting, Goto, Raise,
        Untouched, inputVars, Answers
<1>1. CASE Arrive(r)
  <2>1. \A s \in FileSizes \cup {NoFile} : Lengths(s) \subseteq Nat
    BY ONLY LengthsAreNat
  <2>2. RequestTypeOK'
    <3>1. CASE UNCHANGED inputVars
      BY <1>1, <3>1 DEF Arrive
    <3>2. CASE ~UNCHANGED inputVars
      <4>1. PICK s \in FileSizes \cup {NoFile} :
                /\ size' = [size EXCEPT ![r] = s]
                /\ \E d \in Lengths(s) : declared' = [declared EXCEPT ![r] = d]
        BY <1>1, <3>2 DEF Arrive
      <4>2. PICK d \in Lengths(s) : declared' = [declared EXCEPT ![r] = d]
        BY <4>1
      <4>3. d \in Nat
        BY <2>1
      <4> QED BY <1>1, <3>2, <4>1, <4>2, <4>3 DEF Arrive
    <3> QED BY <3>1, <3>2
  <2>3. pc'[r] \in {"chaos", "deps"} /\ (r \in Probes => ~Upload(r)')
    <3>1. CASE UNCHANGED inputVars
      BY <1>1, <3>1 DEF Arrive
    <3>2. CASE r \in JobRequests
      BY <1>1, <3>2 DEF Arrive
    <3> QED BY <1>1, <3>1, <3>2 DEF Arrive
  <2>4. booked'[r] = << >> /\ answer'[r] = "none" /\ total'[r] = 0
    BY <1>1 DEF Arrive
  <2>5. ReqInv(r)'
    BY <2>3, <2>4
  <2> QED BY <1>1, <2>2, <2>5 DEF Arrive
<1>2. CASE ApplyChaos(r) \/ WakeUp(r)
  <2>1. CASE Raise(r, "injected", "handler")
    <3>1. booked[r] = << >> /\ total[r] = 0
      BY <1>2 DEF ApplyChaos, WakeUp
    <3>2. UNCHANGED <<inputVars, total, booked>>
      BY <1>2 DEF ApplyChaos, WakeUp
    <3>3. RequestTypeOK'
      BY <2>1, <3>2
    <3>4. ReqInv(r)'
      BY <2>1, <3>1, <3>2 DEF Rejections, Failures
    <3> QED BY <2>1, <3>2, <3>3, <3>4
  <2>2. CASE (Goto(r, "sleeping") \/ Goto(r, "deps")) /\ UNCHANGED answer
    BY <1>2, <2>2 DEF ApplyChaos, WakeUp
  <2> QED BY <1>2, <2>1, <2>2 DEF ApplyChaos, WakeUp, Sample
<1>3. CASE ResolveDeps(r)
  BY <1>3 DEF ResolveDeps
<1>4. CASE TakeThread(r)
  BY <1>4 DEF TakeThread
<1> QED BY <1>1, <1>2, <1>3, <1>4

(* The route and the loop that reads the file.                             *)
LEMMA ReadKeeps ==
    ASSUME RequestTypeOK, NEW r \in Requests, ReqInv(r), Route(r) \/ ReadChunk(r)
    PROVE  /\ RequestTypeOK' /\ ReqInv(r)'
           /\ \A q \in Requests \ {r} : Untouched(q)
<1> USE ReplicaAssumption DEF RequestTypeOK, Upload, Lookup, Goto, Raise,
        Untouched, inputVars, Answers, NoFile
<1>1. CASE Route(r)
  <2>1. booked[r] = << >> /\ answer[r] = "none" /\ total[r] = 0 /\ UNCHANGED <<inputVars, total, booked>>
    BY <1>1 DEF Route, ReqInv, Waiting
  <2>2. CASE Upload(r)
    <3>1. r \notin Probes /\ r \in JobRequests
      BY <2>2 DEF ReqInv, Requests
    <3>2. ASSUME NEW a \in {"validation_error", "too_large"}, Raise(r, a, "handler"),
                 a = "too_large" => size[r] # NoFile /\ DeclaredTooLarge(r)
          PROVE  RequestTypeOK' /\ ReqInv(r)' /\ \A q \in Requests \ {r} : Untouched(q)
      <4>1. pc'[r] = "handler" /\ answer'[r] = a /\ booked'[r] = << >> /\ total'[r] = 0
            /\ method'[r] = method[r] /\ size'[r] = size[r] /\ declared'[r] = declared[r]
        BY <2>1, <3>2
      <4>2. a \in Answers /\ a \notin Failures /\ a \in Rejections \cup {"validation_error"}
        BY <3>2 DEF Failures, Rejections
      <4>3. RequestTypeOK' /\ \A q \in Requests \ {r} : Untouched(q)
        BY <2>1, <3>2, <4>2
      <4>4. a = "too_large" => size[r] > MaxBytes \/ declared[r] - size[r] > Margin
        <5>1. declared[r] \in Nat /\ (size[r] # NoFile => size[r] \in Nat)
          OBVIOUS
        <5> QED BY <3>2, <5>1 DEF DeclaredTooLarge
      <4>5. 0 <= MaxBytes + Chunk
        OBVIOUS
      <4>6. ReqInv(r)'
        BY <2>2, <3>1, <4>1, <4>2, <4>4, <4>5 DEF ReqInv, Waiting
      <4> QED BY <4>3, <4>6
    <3>4. CASE size[r] # NoFile /\ Goto(r, "reading") /\ UNCHANGED answer
      <4>1. 0 <= size[r] /\ 0 <= MaxBytes /\ 0 <= MaxBytes + Chunk
        <5>1. size[r] \in FileSizes
          BY ONLY RequestTypeOK, <3>4 DEF RequestTypeOK
        <5>2. size[r] \in Nat /\ MaxBytes \in Nat /\ Chunk \in Nat
          BY ONLY <5>1, ReplicaAssumption
        <5> QED BY ONLY <5>2
      <4>2. RequestTypeOK' /\ \A q \in Requests \ {r} : Untouched(q)
        BY <2>1, <3>4
      <4>3. pc'[r] = "reading" /\ answer'[r] = "none" /\ booked'[r] = << >> /\ total'[r] = 0
            /\ size'[r] = size[r] /\ method'[r] = method[r]
        BY <2>1, <3>4
      <4>4. ReqInv(r)'
        BY <2>2, <3>1, <3>4, <4>1, <4>3 DEF ReqInv, Waiting
      <4> QED BY <4>2, <4>4
    <3> QED BY <1>1, <2>2, <3>1, <3>2, <3>4 DEF Route
  <2>3. CASE ~Upload(r)
    <3>1. CASE Goto(r, "queued") /\ UNCHANGED answer
      BY <2>1, <2>3, <3>1 DEF ReqInv, Waiting
    <3>2. CASE Raise(r, "forced", "done")
      BY <2>1, <2>3, <3>2 DEF ReqInv, Waiting
    <3> QED BY <1>1, <2>3, <3>1, <3>2 DEF Route
  <2> QED BY <2>2, <2>3
<1>2. CASE ReadChunk(r)
  <2>1. /\ Upload(r) /\ size[r] \in Nat /\ total[r] <= size[r] /\ total[r] <= MaxBytes
        /\ booked[r] = << >> /\ answer[r] = "none" /\ r \notin Probes
    BY <1>2 DEF ReadChunk, ReqInv
  <2>2. /\ NextChunk(r) \in Nat /\ NextChunk(r) <= Chunk
        /\ total[r] + NextChunk(r) <= size[r]
        /\ (NextChunk(r) = 0 => total[r] = size[r])
    BY <2>1 DEF NextChunk
  <2>3. total'[r] = total[r] + NextChunk(r) /\ total' \in [Requests -> Nat]
    BY <1>2, <2>2 DEF ReadChunk
  <2>4. UNCHANGED <<inputVars, booked>> /\ \A q \in Requests \ {r} : total'[q] = total[q]
    BY <1>2 DEF ReadChunk
  <2>5. CASE NextChunk(r) = 0 /\ Goto(r, "queued") /\ UNCHANGED answer
    BY <2>1, <2>2, <2>3, <2>4, <2>5 DEF ReqInv, Waiting
  <2>6. CASE total'[r] > MaxBytes /\ Raise(r, "too_large", "except")
    BY <2>1, <2>2, <2>3, <2>4, <2>6 DEF ReqInv, Waiting, Rejections
  <2>7. CASE total'[r] <= MaxBytes /\ UNCHANGED <<pc, answer>>
    BY <1>2, <2>1, <2>2, <2>3, <2>4, <2>7 DEF ReadChunk, ReqInv, Waiting
  <2> QED BY <1>2, <2>5, <2>6, <2>7 DEF ReadChunk
<1> QED BY <1>1, <1>2

(* What runs in a thread.                                                  *)
LEMMA ThreadKeeps ==
    ASSUME RequestTypeOK, NEW r \in Requests, ReqInv(r),
           CreateJob(r) \/ LookupJob(r) \/ Probe(r) \/ ProbeDone(r)
    PROVE  /\ RequestTypeOK' /\ ReqInv(r)'
           /\ \A q \in Requests \ {r} : Untouched(q)
<1> USE ReplicaAssumption DEF RequestTypeOK, Upload, Lookup, Goto, Raise,
        Untouched, inputVars, Answers
<1>1. CASE CreateJob(r)
  <2>1. /\ total[r] = size[r] /\ size[r] <= MaxBytes /\ booked[r] = << >>
        /\ r \notin Probes /\ Upload(r) /\ UNCHANGED <<inputVars, total>>
    BY <1>1 DEF CreateJob, ReqInv
  <2>2. ASSUME NEW a \in {"unsupported", "invalid_image"} \cup Failures,
               Raise(r, a, "except"), UNCHANGED booked
        PROVE  RequestTypeOK' /\ ReqInv(r)' /\ \A q \in Requests \ {r} : Untouched(q)
    <3>1. a \in Answers /\ a \in Rejections \cup Failures /\ a # "too_large"
      BY <2>2 DEF Rejections, Failures
    <3>2. RequestTypeOK' /\ \A q \in Requests \ {r} : Untouched(q)
      BY <2>1, <2>2, <3>1
    <3>3. ReqInv(r)'
      BY <2>1, <2>2, <3>1 DEF ReqInv, Waiting
    <3> QED BY <3>2, <3>3
  <2>3. CASE Raise(r, "accepted", "done") /\ Book(r, "accepted")
    <3>1. booked' = [booked EXCEPT ![r] = <<"accepted">>]
      BY <2>1, <2>3, FirstEntry DEF Book
    <3>2. <<"accepted">> \in Seq(Results)
      BY DEF Results
    <3>3. RequestTypeOK' /\ \A q \in Requests \ {r} : Untouched(q)
      BY <2>1, <2>3, <3>1, <3>2
    <3>4. booked'[r] = <<Bucket("accepted")>> /\ Len(booked'[r]) = 1
      BY <3>1, Buckets
    <3>5. ReqInv(r)'
      BY <2>1, <2>3, <3>4 DEF ReqInv, Waiting
    <3> QED BY <3>3, <3>5
  <2>4. ~(total[r] > MaxBytes)
    BY <2>1
  <2>5. (\E a \in {"unsupported", "invalid_image"} \cup Failures :
            Raise(r, a, "except") /\ UNCHANGED booked)
        \/ (Raise(r, "accepted", "done") /\ Book(r, "accepted"))
    BY ONLY <1>1, <2>4 DEF CreateJob
  <2> QED BY <2>2, <2>3, <2>5
<1>2. CASE LookupJob(r)
  <2>1. ~Upload(r) /\ UNCHANGED <<inputVars, total, booked>>
    BY <1>2 DEF LookupJob
  <2>2. PICK a \in {"found", "not_found", "dependency", "server_error"},
             where \in {"done", "handler"} : Raise(r, a, where)
    BY ONLY <1>2 DEF LookupJob
  <2>3. a \in Answers
    BY DEF Failures
  <2>4. RequestTypeOK' /\ \A q \in Requests \ {r} : Untouched(q)
    BY <2>1, <2>2, <2>3
  <2>5. ReqInv(r)'
    BY <2>1, <2>2 DEF ReqInv, Waiting
  <2> QED BY <2>4, <2>5
<1>3. CASE Probe(r)
  BY <1>3 DEF Probe, ReqInv, Waiting
<1>4. CASE ProbeDone(r)
  BY <1>4 DEF ProbeDone, ReqInv, Waiting
<1> QED BY <1>1, <1>2, <1>3, <1>4

(* The except clause and the handlers: the two places that count refusals. *)
LEMMA HandlersKeep ==
    ASSUME RequestTypeOK, NEW r \in Requests, ReqInv(r),
           ExceptClause(r) \/ ExceptionHandler(r)
    PROVE  /\ RequestTypeOK' /\ ReqInv(r)'
           /\ \A q \in Requests \ {r} : Untouched(q)
<1> USE ReplicaAssumption DEF RequestTypeOK, Upload, Goto, Book, Untouched, inputVars
<1>1. CASE ExceptClause(r)
  <2>1. Upload(r) /\ booked[r] = << >> /\ answer[r] \in Rejections \cup Failures
        /\ UNCHANGED <<inputVars, total, answer>> /\ pc' = [pc EXCEPT ![r] = "handler"]
    BY <1>1 DEF ExceptClause, ReqInv
  <2>2. /\ booked'[r] = IF answer[r] \in Failures THEN <<"error">> ELSE << >>
        /\ booked' \in [Requests -> Seq(Results)]
        /\ \A q \in Requests \ {r} : booked'[q] = booked[q]
    <3>1. Rejections \cap Failures = {}
      BY DEF Rejections, Failures
    <3>2. CASE answer[r] \in Rejections
      BY <1>1, <2>1, <3>1, <3>2 DEF ExceptClause
    <3>3. CASE answer[r] \in Failures
      <4>1. booked' = [booked EXCEPT ![r] = <<"error">>]
        BY <1>1, <2>1, <3>1, <3>3, FirstEntry DEF ExceptClause
      <4>2. <<"error">> \in Seq(Results)
        BY DEF Results
      <4> QED BY <3>3, <4>1, <4>2
    <3> QED BY <2>1, <3>2, <3>3
  <2> QED BY <2>1, <2>2 DEF ReqInv, Waiting
<1>2. CASE ExceptionHandler(r)
  <2>1. UNCHANGED <<inputVars, total, answer>> /\ pc' = [pc EXCEPT ![r] = "done"] /\ pc[r] = "handler"
    BY <1>2 DEF ExceptionHandler
  <2>2. /\ booked' \in [Requests -> Seq(Results)]
        /\ \A q \in Requests \ {r} : booked'[q] = booked[q]
    <3>1. CASE UNCHANGED booked
      BY <3>1
    <3>2. CASE answer[r] \in Rejections /\ Book(r, MetricResult[answer[r]])
      <4>1. Append(booked[r], MetricResult[answer[r]]) \in Seq(Results)
        BY <3>2, ResultsOfRejections
      <4> QED BY <3>2, <4>1
    <3> QED BY <1>2, <3>1, <3>2 DEF ExceptionHandler
  <2>3. Upload(r) => /\ Len(booked'[r]) <= 1
                     /\ answer[r] \in Counted => booked'[r] = <<Bucket(answer[r])>>
    <3> SUFFICES ASSUME Upload(r)
                 PROVE  /\ Len(booked'[r]) <= 1
                        /\ answer[r] \in Counted => booked'[r] = <<Bucket(answer[r])>>
      OBVIOUS
    <3>1. Rejections \cap Failures = {} /\ {"injected", "validation_error"} \cap Counted = {}
      BY DEF Rejections, Failures, Counted
    <3>2. /\ answer[r] \in Rejections \cup Failures \cup {"injected", "validation_error"}
          /\ booked[r] = IF answer[r] \in Failures THEN <<"error">> ELSE << >>
      BY <2>1 DEF ReqInv
    <3>3. CASE answer[r] \in Rejections
      <4>1. booked' = [booked EXCEPT ![r] = <<MetricResult[answer[r]]>>]
        BY <1>2, <3>1, <3>2, <3>3, FirstEntry DEF ExceptionHandler
      <4>2. booked'[r] = <<MetricResult[answer[r]]>>
        BY <4>1
      <4> QED BY <3>3, <4>2, Buckets
    <3>4. CASE answer[r] \in Failures
      <4>1. booked'[r] = <<"error">>
        BY <1>2, <3>1, <3>2, <3>4 DEF ExceptionHandler
      <4> QED BY <3>4, <4>1, Buckets
    <3>5. CASE answer[r] \notin Rejections \cup Failures
      <4>1. booked'[r] = << >> /\ answer[r] \notin Counted
        BY <1>2, <3>1, <3>2, <3>5 DEF ExceptionHandler
      <4> QED BY <4>1
    <3> QED BY <3>3, <3>4, <3>5
  <2> QED BY <2>1, <2>2, <2>3 DEF ReqInv, Waiting
<1> QED BY <1>1, <1>2

(* The invariant of the uploads holds in every state.                      *)
THEOREM ReplicaInvariant == Spec => [](RequestTypeOK /\ ReplicaInv)
<1>1. RequestTypeOK /\ ReplicaInv /\ [Next]_vars => (RequestTypeOK /\ ReplicaInv)'
  <2> SUFFICES ASSUME RequestTypeOK, \A q \in Requests : ReqInv(q), [Next]_vars
               PROVE  RequestTypeOK' /\ \A q \in Requests : ReqInv(q)'
    BY ByRequest, ByRequestNext
  <2>1. ASSUME NEW r \in Requests, Arrive(r) \/ Step(r)
        PROVE  RequestTypeOK' /\ \A q \in Requests : ReqInv(q)'
    <3>1. RequestTypeOK' /\ ReqInv(r)' /\ \A q \in Requests \ {r} : Untouched(q)
      BY <2>1, GateKeeps, ReadKeeps, ThreadKeeps, HandlersKeep DEF Step
    <3> QED BY <3>1, UntouchedKeeps
  <2>2. CASE (\E new \in ChaosStates : SetChaos(new)) \/ (\E d \in AllDependencies : Outage(d))
             \/ UNCHANGED vars
    <3>1. UNCHANGED <<pc, inputVars, total, answer, booked>>
      BY <2>2 DEF SetChaos, Outage, vars
    <3>2. \A q \in Requests : Untouched(q)
      BY <3>1 DEF Untouched, inputVars
    <3> QED BY <3>1, <3>2, UntouchedKeeps DEF RequestTypeOK, inputVars
  <2> QED BY <2>1, <2>2 DEF Next
<1> QED BY <1>1, Initially, PTL DEF Spec

(* No upload is counted twice, and one that was decided is counted under   *)
(* its outcome (main.py 122-125, routes/jobs.py 114-123, service.py 200).  *)
THEOREM OneBucketAlways == Spec => []OneBucket
<1>1. ReplicaInv => OneBucket
  BY DEF ReplicaInv
<1> QED BY <1>1, ReplicaInvariant, PTL

(* create_job is only given whole files within MAX_UPLOAD_BYTES, and only  *)
(* framing beyond the margin refuses one that is (routes/jobs.py 38-103).  *)
THEOREM SizeLimitAlways == Spec => []SizeLimitExact
<1>1. ReplicaInv => SizeLimitExact
  BY DEF ReplicaInv
<1> QED BY <1>1, ReplicaInvariant, PTL

-----------------------------------------------------------------------------
(* What the history variables of a request have to do with the answer it   *)
(* is on its way to.  A job request that is under way has seen the rate    *)
(* that is in force; past the gate it has been spared by some rate.        *)
JobSeen(r) ==
    /\ Active(r) => chaos.error_rate \in rates[r]
    /\ answer[r] = "injected" => \E x \in rates[r] : x > 0
    /\ pc[r] \notin {"idle", "chaos", "sleeping"} /\ answer[r] # "injected" =>
         \E x \in rates[r] : x < Full

(* A probe that is under way has seen the dependencies as they are now; of *)
(* those it has asked it has an answer, or knows that they failed.         *)
ProbeSeen(r) ==
    /\ pc[r] \in {"idle", "deps", "route", "queued", "thread", "done"}
    /\ pc[r] = "idle" => checked[r] = 0 /\ failed[r] = {}
    /\ Active(r) =>
         /\ up \subseteq upSeen[r] /\ AllDependencies \ up \subseteq downSeen[r]
         /\ chaos.fail_readiness => forcedSeen[r]
    /\ failed[r] \subseteq downSeen[r]
    /\ \A i \in 1..checked[r] : Dependencies[i] \in failed[r] \cup upSeen[r]
    /\ pc[r] # "done" => answer[r] = "none"
    /\ pc[r] = "done" =>
         \/ answer[r] = "forced" /\ forcedSeen[r]
         \/ answer[r] = (IF failed[r] = {} THEN "ready" ELSE "not_ready") /\ checked[r] = 3

SeenInv(r) == (r \in JobRequests => JobSeen(r)) /\ (r \in Probes => ProbeSeen(r))

(* The part of TypeOK that is not about a request's own way.               *)
OutsideTypeOK ==
    /\ checked \in [Requests -> 0..3] /\ attempt \in [Requests -> 1..2]
    /\ failed \in [Requests -> SUBSET AllDependencies]
    /\ chaos \in ChaosStates /\ up \in SUBSET AllDependencies /\ changes \in 0..MaxChanges
    /\ rates \in [Requests -> SUBSET (0..Full)]
    /\ forcedSeen \in [Requests -> BOOLEAN]
    /\ upSeen \in [Requests -> SUBSET AllDependencies]
    /\ downSeen \in [Requests -> SUBSET AllDependencies]

LEMMA DependencyList ==
    /\ \A i \in 1..3 : Dependencies[i] \in AllDependencies
    /\ \A d \in AllDependencies : \E i \in 1..3 : Dependencies[i] = d
<1>1. /\ Dependencies[1] = "s3" /\ Dependencies[2] = "sqs" /\ Dependencies[3] = "dynamodb"
      /\ 1 \in 1..3 /\ 2 \in 1..3 /\ 3 \in 1..3
  BY DEF Dependencies
<1>2. \A i \in 1..3 : i = 1 \/ i = 2 \/ i = 3
  OBVIOUS
<1> QED BY ONLY <1>1, <1>2 DEF AllDependencies

LEMMA RatesOfChaos ==
    ASSUME NEW c \in ChaosStates
    PROVE  /\ c.error_rate \in 0..Full /\ c.error_rate \in Int
           /\ c.fail_readiness \in BOOLEAN
BY DEF ChaosStates, Full

LEMMA SeenInitially == Init => OutsideTypeOK /\ \A r \in Requests : SeenInv(r)
<1> SUFFICES ASSUME Init PROVE OutsideTypeOK /\ \A r \in Requests : SeenInv(r)
  OBVIOUS
<1>1. OutsideTypeOK
  BY ReplicaAssumption DEF Init, OutsideTypeOK, Inert, ChaosStates, Full
<1>2. \A r \in Requests : SeenInv(r)
  BY DEF Init, SeenInv, JobSeen, ProbeSeen, Active
<1> QED BY <1>1, <1>2

(* What SeenInv says of a request depends on nothing else.                 *)
SeenAsBefore(q) ==
    /\ pc'[q] = pc[q] /\ answer'[q] = answer[q]
    /\ checked'[q] = checked[q] /\ failed'[q] = failed[q]
    /\ rates'[q] = rates[q] /\ forcedSeen'[q] = forcedSeen[q]
    /\ upSeen'[q] = upSeen[q] /\ downSeen'[q] = downSeen[q]
    /\ chaos' = chaos /\ up' = up

LEMMA SeenAsBeforeKeeps ==
    ASSUME NEW q \in Requests, SeenInv(q), SeenAsBefore(q)
    PROVE  SeenInv(q)'
BY DEF SeenInv, JobSeen, ProbeSeen, SeenAsBefore, Active

(* A request that comes in sees the settings and the dependencies as they  *)
(* are.                                                                    *)
LEMMA SeenArrive ==
    ASSUME RequestTypeOK, OutsideTypeOK, NEW r \in Requests, ReqInv(r), SeenInv(r), Arrive(r)
    PROVE  /\ OutsideTypeOK' /\ SeenInv(r)'
           /\ \A q \in Requests \ {r} : SeenAsBefore(q)
<1> USE DEF RequestTypeOK, OutsideTypeOK, Goto, probeVars, worldVars
<1>1. /\ pc[r] = "idle" /\ pc'[r] = IF r \in Probes THEN "deps" ELSE "chaos"
      /\ answer'[r] = "none"
      /\ \A q \in Requests \ {r} : pc'[q] = pc[q] /\ answer'[q] = answer[q]
      /\ UNCHANGED <<checked, attempt, failed, chaos, up, changes>>
  BY DEF Arrive, ReqInv, Waiting
<1>2. CASE r \in Probes
  <2>1. /\ upSeen' = [upSeen EXCEPT ![r] = up]
        /\ downSeen' = [downSeen EXCEPT ![r] = AllDependencies \ up]
        /\ forcedSeen' = [forcedSeen EXCEPT ![r] = chaos.fail_readiness]
        /\ UNCHANGED rates
    BY <1>2 DEF Arrive
  <2>2. r \notin JobRequests
    BY <1>2, ReplicaAssumption
  <2>3. ProbeSeen(r)'
    BY <1>1, <1>2, <2>1 DEF SeenInv, ProbeSeen, Active
  <2>4. OutsideTypeOK'
    BY <1>1, <2>1, RatesOfChaos
  <2>5. \A q \in Requests \ {r} : SeenAsBefore(q)
    BY <1>1, <2>1 DEF SeenAsBefore
  <2> QED BY <2>2, <2>3, <2>4, <2>5 DEF SeenInv
<1>3. CASE r \notin Probes
  <2>1. /\ rates' = [rates EXCEPT ![r] = {chaos.error_rate}]
        /\ UNCHANGED <<upSeen, downSeen, forcedSeen>>
    BY <1>3 DEF Arrive
  <2>2. JobSeen(r)'
    BY <1>1, <1>3, <2>1 DEF JobSeen, Active
  <2>3. OutsideTypeOK'
    BY <1>1, <2>1, RatesOfChaos
  <2>4. \A q \in Requests \ {r} : SeenAsBefore(q)
    BY <1>1, <2>1 DEF SeenAsBefore
  <2> QED BY <1>3, <2>2, <2>3, <2>4 DEF SeenInv
<1> QED BY <1>2, <1>3

(* The gate decides by the rate that is in force, which the request has    *)
(* seen; nothing after it turns an answer into an injected one.            *)
LEMMA SeenJobStep ==
    ASSUME RequestTypeOK, OutsideTypeOK, NEW r \in JobRequests, ReqInv(r), SeenInv(r), Step(r)
    PROVE  /\ SeenInv(r)' /\ UNCHANGED outsideVars
           /\ \A q \in Requests \ {r} : pc'[q] = pc[q] /\ answer'[q] = answer[q]
<1> r \in Requests /\ r \notin Probes
  BY ReplicaAssumption DEF Requests
<1> USE DEF RequestTypeOK, Goto, Raise
<1>1. ASSUME UNCHANGED <<rates, chaos>>, Active(r),
             \/ pc[r] \notin {"chaos", "sleeping"} /\ answer'[r] = answer[r]
             \/ answer[r] = "none" /\ answer'[r] # "injected" /\ pc[r] \notin {"chaos", "sleeping"}
      PROVE  SeenInv(r)'
  BY <1>1 DEF SeenInv, JobSeen, Active
<1>2. CASE ApplyChaos(r) \/ WakeUp(r)
  <2>1. /\ UNCHANGED outsideVars /\ Active(r) /\ answer[r] = "none"
        /\ pc[r] \in {"chaos", "sleeping"}
    BY <1>2 DEF ApplyChaos, WakeUp, ReqInv, Waiting, Active
  <2>2. chaos.error_rate \in rates[r] /\ UNCHANGED <<rates, chaos>> /\ chaos.error_rate \in Int
    BY <2>1, RatesOfChaos DEF SeenInv, JobSeen, outsideVars, worldVars, seenVars, OutsideTypeOK
  <2>3. CASE chaos.error_rate > 0 /\ Raise(r, "injected", "handler")
    BY <2>1, <2>2, <2>3 DEF SeenInv, JobSeen, Active
  <2>4. CASE chaos.error_rate < Full /\ Goto(r, "deps") /\ UNCHANGED answer
    BY <2>1, <2>2, <2>4 DEF SeenInv, JobSeen, Active
  <2>5. CASE Goto(r, "sleeping") /\ UNCHANGED answer
    BY <2>1, <2>2, <2>5 DEF SeenInv, JobSeen, Active
  <2> QED BY <1>2, <2>1, <2>3, <2>4, <2>5 DEF ApplyChaos, WakeUp, Sample
<1> DEFINE Goal == /\ SeenInv(r)' /\ UNCHANGED outsideVars
                   /\ \A q \in Requests \ {r} : pc'[q] = pc[q] /\ answer'[q] = answer[q]
<1>3. ASSUME UNCHANGED outsideVars, Active(r), pc[r] \notin {"chaos", "sleeping"},
             \/ UNCHANGED answer
             \/ answer[r] = "none" /\ \E a \in Answers \ {"injected"} : answer' = [answer EXCEPT ![r] = a],
             \/ UNCHANGED pc
             \/ \E where : Goto(r, where)
      PROVE  Goal
  <2>1. UNCHANGED <<rates, chaos>>
    BY <1>3 DEF outsideVars, worldVars, seenVars
  <2>2. SeenInv(r)'
    BY <1>1, <1>3, <2>1
  <2> QED BY <1>3, <2>2
<1>4. CASE ResolveDeps(r)
  BY <1>3, <1>4 DEF ResolveDeps, Active
<1>5. CASE Route(r)
  BY <1>3, <1>5 DEF Route, Active, ReqInv, Waiting, Answers, Rejections
<1>6. CASE ReadChunk(r)
  BY <1>3, <1>6 DEF ReadChunk, Active, ReqInv, Answers, Rejections
<1>7. CASE TakeThread(r)
  BY <1>3, <1>7 DEF TakeThread, Active
<1>8. CASE CreateJob(r)
  <2>1. \E a \in {"too_large", "unsupported", "invalid_image", "accepted"} \cup Failures,
           where \in {"except", "done"} : Raise(r, a, where)
    BY <1>8 DEF CreateJob
  <2>2. {"too_large", "unsupported", "invalid_image", "accepted"} \cup Failures
          \subseteq Answers \ {"injected"}
    BY DEF Answers, Rejections, Failures
  <2>3. UNCHANGED outsideVars /\ pc[r] = "thread" /\ answer[r] = "none"
    BY <1>8 DEF CreateJob, ReqInv
  <2> QED BY <1>3, <2>1, <2>2, <2>3 DEF Active
<1>9. CASE LookupJob(r)
  <2>1. \E a \in {"found", "not_found", "dependency", "server_error"},
           where \in {"handler", "done"} : Raise(r, a, where)
    BY <1>9 DEF LookupJob
  <2>2. {"found", "not_found", "dependency", "server_error"} \subseteq Answers \ {"injected"}
    BY DEF Answers, Failures
  <2>3. UNCHANGED outsideVars /\ pc[r] = "thread" /\ answer[r] = "none"
    BY <1>9 DEF LookupJob, ReqInv
  <2> QED BY <1>3, <2>1, <2>2, <2>3 DEF Active
<1>10. CASE ExceptClause(r)
  BY <1>3, <1>10 DEF ExceptClause, Active
<1>11. CASE ExceptionHandler(r)
  BY <1>3, <1>11 DEF ExceptionHandler, Active
<1>12. ~Probe(r) /\ ~ProbeDone(r)
  BY DEF Probe, ProbeDone
<1> QED BY <1>2, <1>4, <1>5, <1>6, <1>7, <1>8, <1>9, <1>10, <1>11, <1>12 DEF Step

(* A probe adds to its findings what it meets now, and what is the case    *)
(* now it has seen.                                                        *)
LEMMA SeenProbeStep ==
    ASSUME RequestTypeOK, OutsideTypeOK, NEW r \in Probes, ReqInv(r), SeenInv(r), Step(r)
    PROVE  /\ SeenInv(r)' /\ OutsideTypeOK'
           /\ \A q \in Requests \ {r} : SeenAsBefore(q)
<1> r \in Requests /\ r \notin JobRequests
  BY ReplicaAssumption DEF Requests
<1>1. ProbeSeen(r) /\ ~Upload(r)
  BY DEF SeenInv, ReqInv
<1>2. SUFFICES /\ ProbeSeen(r)' /\ OutsideTypeOK'
               /\ \A q \in Requests \ {r} : SeenAsBefore(q)
  BY DEF SeenInv
<1>3. ASSUME UNCHANGED outsideVars
      PROVE  /\ OutsideTypeOK'
             /\ UNCHANGED <<checked, failed, rates, forcedSeen, upSeen, downSeen, chaos, up>>
  BY <1>3 DEF OutsideTypeOK, outsideVars, probeVars, worldVars, seenVars
<1> USE DEF RequestTypeOK, Goto, Raise, SeenAsBefore
<1>4. CASE ResolveDeps(r) \/ TakeThread(r)
  <2>1. UNCHANGED outsideVars /\ UNCHANGED answer
        /\ \E where \in {"route", "thread"} : Goto(r, where) /\ pc[r] \in {"deps", "queued"}
    BY <1>4 DEF ResolveDeps, TakeThread
  <2> QED BY <1>1, <1>3, <2>1 DEF ProbeSeen, Active
<1>5. CASE Route(r)
  <2>1. UNCHANGED outsideVars /\ pc[r] = "route"
    BY <1>5 DEF Route
  <2>2. CASE chaos.fail_readiness /\ Raise(r, "forced", "done")
    BY <1>1, <1>3, <2>1, <2>2 DEF ProbeSeen, Active
  <2>3. CASE Goto(r, "queued") /\ UNCHANGED answer
    BY <1>1, <1>3, <2>1, <2>3 DEF ProbeSeen, Active
  <2> QED BY <1>1, <1>5, <2>2, <2>3 DEF Route, Lookup
<1>6. CASE Probe(r)
  <2> DEFINE d == Dependencies[checked[r] + 1]
  <2>1. /\ pc[r] = "thread" /\ checked[r] \in 0..2 /\ checked[r] + 1 \in 1..3
        /\ UNCHANGED <<pc, answer, worldVars, seenVars>>
    BY <1>6 DEF Probe, OutsideTypeOK
  <2>2. d \in AllDependencies
    BY <2>1, DependencyList
  <2>3. UNCHANGED <<chaos, up, changes, rates, forcedSeen, upSeen, downSeen>>
    BY <2>1 DEF worldVars, seenVars
  <2>4. /\ up \subseteq upSeen[r] /\ AllDependencies \ up \subseteq downSeen[r]
    BY <1>1, <2>1 DEF ProbeSeen, Active
  <2>5. ASSUME checked' = [checked EXCEPT ![r] = @ + 1], attempt' = [attempt EXCEPT ![r] = 1],
               \/ d \in up /\ UNCHANGED failed
               \/ d \notin up /\ failed' = [failed EXCEPT ![r] = @ \cup {d}]
        PROVE  /\ ProbeSeen(r)' /\ OutsideTypeOK'
               /\ \A q \in Requests \ {r} : SeenAsBefore(q)
    <3>1. /\ checked'[r] = checked[r] + 1 /\ checked' \in [Requests -> 0..3]
          /\ attempt' \in [Requests -> 1..2]
      BY <2>1, <2>5 DEF OutsideTypeOK
    <3>2. failed' \in [Requests -> SUBSET AllDependencies]
      <4>1. /\ failed \in [Requests -> SUBSET AllDependencies]
            /\ failed[r] \cup {d} \in SUBSET AllDependencies
        BY <2>2 DEF OutsideTypeOK
      <4> QED BY ONLY <2>5, <4>1
    <3>3. failed[r] \subseteq failed'[r] /\ failed'[r] \subseteq failed[r] \cup {d}
          /\ (d \notin up => d \in failed'[r]) /\ (d \in up => failed'[r] = failed[r])
      BY <2>5 DEF OutsideTypeOK
    <3>4. \A i \in 1..checked'[r] : Dependencies[i] \in failed'[r] \cup upSeen'[r]
      <4> SUFFICES ASSUME NEW i \in 1..checked'[r]
                   PROVE  Dependencies[i] \in failed'[r] \cup upSeen'[r]
        OBVIOUS
      <4>1. i \in 1..checked[r] \/ i = checked[r] + 1
        BY <2>1, <3>1
      <4>2. CASE i \in 1..checked[r]
        BY <1>1, <2>3, <3>3, <4>2 DEF ProbeSeen
      <4>3. CASE i = checked[r] + 1
        BY <2>3, <2>4, <3>3, <4>3
      <4> QED BY <4>1, <4>2, <4>3
    <3>5. failed'[r] \subseteq downSeen'[r]
      BY <1>1, <2>2, <2>3, <2>4, <3>3 DEF ProbeSeen
    <3>6. ProbeSeen(r)'
      BY <1>1, <2>1, <2>3, <3>4, <3>5 DEF ProbeSeen, Active
    <3>7. OutsideTypeOK'
      BY <2>3, <3>1, <3>2 DEF OutsideTypeOK
    <3>8. \A q \in Requests \ {r} : checked'[q] = checked[q] /\ failed'[q] = failed[q]
      BY <2>5 DEF OutsideTypeOK
    <3> QED BY <2>1, <2>3, <3>6, <3>7, <3>8
  <2>6. CASE attempt' = [attempt EXCEPT ![r] = 2] /\ UNCHANGED <<checked, failed>>
    <3>1. OutsideTypeOK'
      BY <2>3, <2>6 DEF OutsideTypeOK
    <3>2. ProbeSeen(r)'
      BY <1>1, <2>1, <2>3, <2>6 DEF ProbeSeen, Active
    <3> QED BY <2>1, <2>3, <2>6, <3>1, <3>2
  <2>7. \/ /\ checked' = [checked EXCEPT ![r] = @ + 1] /\ attempt' = [attempt EXCEPT ![r] = 1]
           /\ \/ d \in up /\ UNCHANGED failed
              \/ d \notin up /\ failed' = [failed EXCEPT ![r] = @ \cup {d}]
        \/ attempt' = [attempt EXCEPT ![r] = 2] /\ UNCHANGED <<checked, failed>>
    BY <1>6 DEF Probe
  <2> HIDE DEF d
  <2> QED BY <2>5, <2>6, <2>7
<1>7. CASE ProbeDone(r)
  <2>1. /\ UNCHANGED outsideVars /\ pc[r] = "thread" /\ checked[r] = 3
        /\ Raise(r, IF failed[r] = {} THEN "ready" ELSE "not_ready", "done")
    BY <1>7 DEF ProbeDone
  <2> QED BY <1>1, <1>3, <2>1 DEF ProbeSeen, Active
<1>8. /\ ~ApplyChaos(r) /\ ~WakeUp(r) /\ ~ReadChunk(r) /\ ~CreateJob(r) /\ ~LookupJob(r)
      /\ ~ExceptClause(r) /\ ~ExceptionHandler(r)
  BY <1>1 DEF ProbeSeen, ApplyChaos, WakeUp, ReadChunk, CreateJob, LookupJob, Lookup,
     ExceptClause, ExceptionHandler
<1> QED BY <1>4, <1>5, <1>6, <1>7, <1>8 DEF Step

(* Settings and dependencies change under requests that are under way,     *)
(* which see it; one that is answered is not told any more.                *)
LEMMA SeenWorld ==
    ASSUME OutsideTypeOK, \A q \in Requests : SeenInv(q),
           (\E new \in ChaosStates : SetChaos(new)) \/ (\E d \in AllDependencies : Outage(d))
    PROVE  OutsideTypeOK' /\ \A q \in Requests : SeenInv(q)'
<1>1. changes' \in 0..MaxChanges
  BY ReplicaAssumption DEF SetChaos, Outage, OutsideTypeOK
<1>2. CASE \E new \in ChaosStates : SetChaos(new)
  <2>1. PICK new \in ChaosStates : SetChaos(new)
    BY <1>2
  <2>2. new.error_rate \in 0..Full /\ new.fail_readiness \in BOOLEAN
    BY RatesOfChaos
  <2>3. /\ UNCHANGED <<pc, answer, checked, attempt, failed, up, upSeen, downSeen>>
        /\ chaos' = new
    BY <2>1 DEF SetChaos, probeVars
  <2>4. \A q \in Requests :
            /\ rates'[q] = IF Active(q) /\ q \in JobRequests
                             THEN rates[q] \cup {new.error_rate} ELSE rates[q]
            /\ forcedSeen'[q] = (forcedSeen[q] \/ (Active(q) /\ q \in Probes /\ new.fail_readiness))
    BY <2>1 DEF SetChaos
  <2>5. rates' \in [Requests -> SUBSET (0..Full)] /\ forcedSeen' \in [Requests -> BOOLEAN]
    BY <2>1, <2>2 DEF SetChaos, OutsideTypeOK
  <2>6. OutsideTypeOK'
    BY <1>1, <2>3, <2>5 DEF OutsideTypeOK
  <2>7. ASSUME NEW q \in JobRequests PROVE JobSeen(q)'
    <3>1. q \in Requests /\ JobSeen(q)
      BY DEF Requests, SeenInv
    <3>2. rates[q] \subseteq rates'[q] /\ (Active(q) => new.error_rate \in rates'[q])
      BY <2>4, <3>1
    <3> QED BY <2>3, <3>1, <3>2 DEF JobSeen, Active
  <2>8. ASSUME NEW q \in Probes PROVE ProbeSeen(q)'
    <3>1. q \in Requests /\ ProbeSeen(q)
      BY DEF Requests, SeenInv
    <3>2. (forcedSeen[q] => forcedSeen'[q]) /\ (Active(q) /\ new.fail_readiness => forcedSeen'[q])
      BY <2>4, <3>1
    <3> QED BY <2>3, <3>1, <3>2 DEF ProbeSeen, Active
  <2> QED BY <2>6, <2>7, <2>8 DEF SeenInv
<1>3. CASE \E d \in AllDependencies : Outage(d)
  <2>1. PICK d \in AllDependencies : Outage(d)
    BY <1>3
  <2>2. /\ UNCHANGED <<pc, answer, checked, attempt, failed, chaos, rates, forcedSeen>>
        /\ up' \in SUBSET AllDependencies
    BY <2>1 DEF Outage, probeVars, OutsideTypeOK
  <2>3. \A q \in Requests :
            /\ upSeen'[q] = IF Active(q) /\ q \in Probes THEN upSeen[q] \cup up' ELSE upSeen[q]
            /\ downSeen'[q] = IF Active(q) /\ q \in Probes
                                THEN downSeen[q] \cup (AllDependencies \ up') ELSE downSeen[q]
    BY <2>1 DEF Outage
  <2>4. /\ upSeen' \in [Requests -> SUBSET AllDependencies]
        /\ downSeen' \in [Requests -> SUBSET AllDependencies]
    BY <2>1, <2>2 DEF Outage, OutsideTypeOK
  <2>5. OutsideTypeOK'
    BY <1>1, <2>2, <2>4 DEF OutsideTypeOK
  <2>6. ASSUME NEW q \in JobRequests PROVE JobSeen(q)'
    BY <2>2 DEF Requests, SeenInv, JobSeen, Active
  <2>7. ASSUME NEW q \in Probes PROVE ProbeSeen(q)'
    <3>1. q \in Requests /\ ProbeSeen(q)
      BY DEF Requests, SeenInv
    <3>2. /\ upSeen[q] \subseteq upSeen'[q] /\ downSeen[q] \subseteq downSeen'[q]
          /\ Active(q) => up' \subseteq upSeen'[q] /\ AllDependencies \ up' \subseteq downSeen'[q]
      BY <2>3, <3>1
    <3> QED BY <2>2, <3>1, <3>2 DEF ProbeSeen, Active
  <2> QED BY <2>5, <2>6, <2>7 DEF SeenInv
<1> QED BY <1>2, <1>3

SeenAll == \A r \in Requests : SeenInv(r)

(* Settings and outages that come between any two steps of any requests    *)
(* never leave a request with an answer its history does not account for.  *)
THEOREM SeenInvariant == Spec => [](OutsideTypeOK /\ SeenAll)
<1>1. RequestTypeOK /\ ReplicaInv /\ OutsideTypeOK /\ SeenAll /\ [Next]_vars
        => (OutsideTypeOK /\ SeenAll)'
  <2> SUFFICES ASSUME RequestTypeOK, \A q \in Requests : ReqInv(q),
                      OutsideTypeOK, \A q \in Requests : SeenInv(q), [Next]_vars
               PROVE  OutsideTypeOK' /\ \A q \in Requests : SeenInv(q)'
    BY ByRequest DEF SeenAll
  <2>1. ASSUME NEW r \in Requests, Arrive(r)
        PROVE  OutsideTypeOK' /\ \A q \in Requests : SeenInv(q)'
    BY <2>1, SeenArrive, SeenAsBeforeKeeps
  <2>2. ASSUME NEW r \in JobRequests, Step(r)
        PROVE  OutsideTypeOK' /\ \A q \in Requests : SeenInv(q)'
    <3>1. r \in Requests
      BY DEF Requests
    <3>2. /\ SeenInv(r)' /\ UNCHANGED outsideVars
          /\ \A q \in Requests \ {r} : pc'[q] = pc[q] /\ answer'[q] = answer[q]
      BY <2>2, <3>1, SeenJobStep
    <3>3. OutsideTypeOK' /\ \A q \in Requests \ {r} : SeenAsBefore(q)
      BY <3>2 DEF OutsideTypeOK, SeenAsBefore, outsideVars, probeVars, worldVars, seenVars
    <3> QED BY <3>2, <3>3, SeenAsBeforeKeeps
  <2>3. ASSUME NEW r \in Probes, Step(r)
        PROVE  OutsideTypeOK' /\ \A q \in Requests : SeenInv(q)'
    <3>1. r \in Requests
      BY DEF Requests
    <3> QED BY <2>3, <3>1, SeenProbeStep, SeenAsBeforeKeeps
  <2>4. CASE UNCHANGED vars
    <3>1. OutsideTypeOK' /\ \A q \in Requests : SeenAsBefore(q)
      BY <2>4 DEF vars, OutsideTypeOK, SeenAsBefore, probeVars, worldVars, seenVars
    <3> QED BY <3>1, SeenAsBeforeKeeps
  <2> QED BY <2>1, <2>2, <2>3, <2>4, SeenWorld DEF Next, Requests
<1>2. Init => OutsideTypeOK /\ SeenAll
  BY SeenInitially DEF SeenAll
<1> QED BY <1>1, <1>2, ReplicaInvariant, PTL DEF Spec

(* The state of the process is well formed: no counter of a probe runs     *)
(* past the dependencies and attempts there are.                           *)
THEOREM ReplicaTypeCorrect == Spec => []TypeOK
<1>1. RequestTypeOK /\ OutsideTypeOK => TypeOK
  BY DEF TypeOK, OutsideTypeOK
<1> QED BY <1>1, ReplicaInvariant, SeenInvariant, PTL

(* A failure is injected into a job request only under a rate that allowed *)
(* it at some time during the request, and the request is spared only      *)
(* under one that did (chaos.py 82-90, 97-119).                            *)
THEOREM InjectionAlwaysHasCause == Spec => []InjectedHasCause
<1>1. SeenAll => InjectedHasCause
  BY DEF SeenAll, SeenInv, JobSeen, InjectedHasCause, Requests, Full
<1> QED BY <1>1, SeenInvariant, PTL

(* What readyz reports of each dependency was so at some time during the   *)
(* request, and nothing that was down all along is left out (routes/       *)
(* health.py, shared/aws.py ReadinessProbe).                               *)
THEOREM ReadinessAlwaysHonest == Spec => []ReadinessHonest
<1>1. OutsideTypeOK /\ SeenAll => ReadinessHonest
  <2> SUFFICES ASSUME OutsideTypeOK, SeenAll, NEW r \in Probes, pc[r] = "done"
               PROVE  /\ answer[r] = "forced" => forcedSeen[r]
                      /\ answer[r] # "forced" => failed[r] \subseteq downSeen[r]
                                        /\ AllDependencies \ upSeen[r] \subseteq failed[r]
                      /\ answer[r] = "ready" <=> answer[r] # "forced" /\ failed[r] = {}
    BY DEF ReadinessHonest
  <2>1. ProbeSeen(r)
    BY DEF SeenAll, SeenInv, Requests
  <2>2. checked[r] = 3 => AllDependencies \ upSeen[r] \subseteq failed[r]
    BY <2>1, DependencyList DEF ProbeSeen
  <2> QED BY <2>1, <2>2 DEF ProbeSeen
<1> QED BY <1>1, SeenInvariant, PTL
=============================================================================
