----------------------------- MODULE ApiReplica -----------------------------
(***************************************************************************)
(* One API process: requests that share an event loop, a pool of threads   *)
(* and the chaos settings (api/routes, api/chaos.py, api/main.py).         *)
(*                                                                         *)
(* A request gives up the loop only where the code awaits: in the injected *)
(* delay, for every chunk of the body, and for a thread.  FastAPI runs     *)
(* plain-function dependencies (api/deps.py) in the pool too.  What        *)
(* create_job does once it writes is JobApi; here it is its outcome.       *)
(***************************************************************************)
EXTENDS Integers, Sequences, FiniteSets

CONSTANTS
    JobRequests,   \* requests to /api/v1/jobs, each made once
    Probes,        \* requests to GET /readyz
    FileSizes,     \* sizes of the uploaded files
    Overheads,     \* multipart framing around them
    MaxBytes,      \* config.max_upload_bytes
    Margin,        \* _MULTIPART_OVERHEAD_BYTES
    Chunk,         \* _CHUNK_BYTES
    Threads,       \* size of the thread pool
    MaxChanges     \* bound on chaos updates and outages

ASSUME ReplicaAssumption ==
    /\ JobRequests \cap Probes = {}
    /\ FileSizes \subseteq Nat /\ Overheads \subseteq Nat
    /\ MaxBytes \in Nat /\ Margin \in Nat
    /\ Chunk \in Nat \ {0} /\ Threads \in Nat \ {0} /\ MaxChanges \in Nat

Requests == JobRequests \cup Probes

NoFile == -1       \* a form without the file field
NoLength == 0      \* no Content-Length, or not a number

(* ReadinessProbe.run asks in this order.                                  *)
Dependencies == <<"s3", "sqs", "dynamodb">>
AllDependencies == {"s3", "sqs", "dynamodb"}

(* error_rate in halves: 0 never fires, 2 always does.                     *)
Full == 2
ChaosStates == [fail_readiness : BOOLEAN, latency_ms : 0..1, error_rate : 0..Full]

Rejections == {"too_large", "unsupported", "invalid_image"}
Failures   == {"enqueue_failed", "dependency", "server_error"}
Answers    == Rejections \cup Failures \cup
              {"none", "accepted", "validation_error", "injected", "found",
               "not_found", "ready", "not_ready", "forced"}

(* UploadRejectedError.metric_result.                                      *)
MetricResult == [too_large     |-> "rejected_too_large",
                 unsupported   |-> "rejected_content_type",
                 invalid_image |-> "rejected_invalid_image"]

VARIABLES
    pc,            \* where the request is
    method,        \* POST, an upload, or GET
    size, declared,   \* of an upload: size of its file, Content-Length
    total,         \* bytes _read_limited has taken
    answer,        \* what it is answered
    booked,        \* the increments of uploads_total it caused, in order
    checked,       \* dependencies asked so far
    attempt,       \* attempt at the next one
    failed,        \* dependencies reported as failing
    chaos,         \* ChaosController._state
    up,            \* dependencies that are reachable
    changes,       \* updates and outages so far
    rates,         \* history: error rates in force since the request came
    forcedSeen,    \* history: fail_readiness was set since it came
    upSeen, downSeen   \* history: dependencies up, down at some time since

inputVars == <<method, size, declared>>
probeVars == <<checked, attempt, failed>>
worldVars == <<chaos, up, changes>>
seenVars  == <<rates, forcedSeen, upSeen, downSeen>>
outsideVars == <<probeVars, worldVars, seenVars>>
vars == <<pc, inputVars, total, answer, booked, probeVars, worldVars, seenVars>>

Results == {"accepted", "error", "rejected_too_large", "rejected_content_type",
            "rejected_invalid_image"}

RequestTypeOK ==
    /\ pc \in [Requests -> {"idle", "chaos", "sleeping", "deps", "route", "reading",
                            "queued", "thread", "except", "handler", "done"}]
    /\ method \in [Requests -> {"POST", "GET"}]
    /\ size \in [Requests -> FileSizes \cup {NoFile}]
    /\ declared \in [Requests -> Nat]
    /\ total \in [Requests -> Nat]
    /\ answer \in [Requests -> Answers]
    /\ booked \in [Requests -> Seq(Results)]

TypeOK ==
    /\ RequestTypeOK
    /\ checked \in [Requests -> 0..3] /\ attempt \in [Requests -> 1..2]
    /\ failed \in [Requests -> SUBSET AllDependencies]
    /\ chaos \in ChaosStates /\ up \in SUBSET AllDependencies /\ changes \in 0..MaxChanges
    /\ rates \in [Requests -> SUBSET (0..Full)]
    /\ forcedSeen \in [Requests -> BOOLEAN]
    /\ upSeen \in [Requests -> SUBSET AllDependencies]
    /\ downSeen \in [Requests -> SUBSET AllDependencies]

(* ChaosState() is inert.                                                  *)
Inert == [fail_readiness |-> FALSE, latency_ms |-> 0, error_rate |-> 0]

Init ==
    /\ pc = [r \in Requests |-> "idle"]
    /\ method = [r \in Requests |-> "GET"]
    /\ size = [r \in Requests |-> NoFile]
    /\ declared = [r \in Requests |-> NoLength]
    /\ total = [r \in Requests |-> 0]
    /\ answer = [r \in Requests |-> "none"]
    /\ booked = [r \in Requests |-> << >>]
    /\ checked = [r \in Requests |-> 0] /\ attempt = [r \in Requests |-> 1]
    /\ failed = [r \in Requests |-> {}]
    /\ chaos = Inert /\ up = AllDependencies /\ changes = 0
    /\ rates = [r \in Requests |-> {}]
    /\ forcedSeen = [r \in Requests |-> FALSE]
    /\ upSeen = [r \in Requests |-> {}] /\ downSeen = [r \in Requests |-> {}]

Upload(r) == method[r] = "POST"
Lookup(r) == r \in JobRequests /\ method[r] = "GET"

Goto(r, where) == pc' = [pc EXCEPT ![r] = where]

(* The request is answered with a: next is the except clause, a handler,   *)
(* or the response itself.                                                 *)
Raise(r, a, where) == Goto(r, where) /\ answer' = [answer EXCEPT ![r] = a]

Book(r, result) == booked' = [booked EXCEPT ![r] = Append(@, result)]

FreeThread == Cardinality({q \in Requests : pc[q] = "thread"}) < Threads

-----------------------------------------------------------------------------
(* The Content-Length of a client covers the file and its framing.         *)
Lengths(s) == {NoLength} \cup {(IF s = NoFile THEN 0 ELSE s) + o : o \in Overheads}

(* A request comes in.  The job routes go through apply_chaos, readyz does *)
(* not.  The framework has parsed the form by then.                        *)
Arrive(r) ==
    /\ pc[r] = "idle"
    /\ Goto(r, IF r \in Probes THEN "deps" ELSE "chaos")
    /\ \/ UNCHANGED inputVars
       \/ /\ r \in JobRequests
          /\ method' = [method EXCEPT ![r] = "POST"]
          /\ \E s \in FileSizes \cup {NoFile} :
                /\ size' = [size EXCEPT ![r] = s]
                /\ \E d \in Lengths(s) : declared' = [declared EXCEPT ![r] = d]
    /\ IF r \in Probes
         THEN /\ upSeen' = [upSeen EXCEPT ![r] = up]
              /\ downSeen' = [downSeen EXCEPT ![r] = AllDependencies \ up]
              /\ forcedSeen' = [forcedSeen EXCEPT ![r] = chaos.fail_readiness]
              /\ UNCHANGED rates
         ELSE /\ rates' = [rates EXCEPT ![r] = {chaos.error_rate}]
              /\ UNCHANGED <<upSeen, downSeen, forcedSeen>>
    /\ UNCHANGED <<total, answer, booked, probeVars, worldVars>>

(* Mutant: the rate that is applied is not the one in force.               *)
MutantSampleStale(r) ==
    \/ Raise(r, "injected", "handler")
    \/ Goto(r, "deps") /\ UNCHANGED answer

(* should_fail_request.                                                    *)
Sample(r) ==
    \/ chaos.error_rate > 0 /\ Raise(r, "injected", "handler")
    \/ chaos.error_rate < Full /\ Goto(r, "deps") /\ UNCHANGED answer

(* apply_chaos: without a delay it does not give up the loop.  After the   *)
(* delay the rate is read anew.                                            *)
ApplyChaos(r) ==
    /\ pc[r] = "chaos"
    /\ \/ chaos.latency_ms > 0 /\ Goto(r, "sleeping") /\ UNCHANGED answer
       \/ chaos.latency_ms = 0 /\ Sample(r)
    /\ UNCHANGED <<inputVars, total, booked, outsideVars>>

WakeUp(r) ==
    /\ pc[r] = "sleeping"
    /\ Sample(r)
    /\ UNCHANGED <<inputVars, total, booked, outsideVars>>

(* get_config, get_service, get_chaos, get_probe: each takes a thread for  *)
(* a moment.                                                               *)
ResolveDeps(r) ==
    /\ pc[r] = "deps" /\ FreeThread
    /\ Goto(r, "route")
    /\ UNCHANGED <<inputVars, total, answer, booked, outsideVars>>

(* Mutant: the early refusal is counted where it is raised, too.           *)
MutantRouteCounts(r) ==
    /\ pc[r] = "route" /\ Upload(r) /\ size[r] # NoFile /\ declared[r] > MaxBytes + Margin
    /\ Raise(r, "too_large", "handler") /\ Book(r, "rejected_too_large")
    /\ UNCHANGED <<inputVars, total, outsideVars>>

(* Mutant: the margin for the framing is forgotten.                        *)
MutantNoMargin(r) == declared[r] > MaxBytes

(* The early check of the route: Content-Length covers the framing too.    *)
DeclaredTooLarge(r) == declared[r] > MaxBytes + Margin

(* The route up to its first await.                                        *)
Route(r) ==
    /\ pc[r] = "route"
    /\ \/ /\ Upload(r)
          /\ \/ size[r] = NoFile /\ Raise(r, "validation_error", "handler")
             \/ size[r] # NoFile /\ DeclaredTooLarge(r) /\ Raise(r, "too_large", "handler")
             \/ size[r] # NoFile /\ ~DeclaredTooLarge(r) /\ Goto(r, "reading") /\ UNCHANGED answer
       \/ Lookup(r) /\ Goto(r, "queued") /\ UNCHANGED answer
       \/ /\ r \in Probes
          /\ \/ chaos.fail_readiness /\ Raise(r, "forced", "done")
             \/ ~chaos.fail_readiness /\ Goto(r, "queued") /\ UNCHANGED answer
    /\ UNCHANGED <<inputVars, total, booked, outsideVars>>

(* Bytes the next upload.read returns.                                     *)
NextChunk(r) == IF size[r] - total[r] < Chunk THEN size[r] - total[r] ELSE Chunk

(* One turn of _read_limited.                                              *)
ReadChunk(r) ==
    /\ pc[r] = "reading"
    /\ total' = [total EXCEPT ![r] = @ + NextChunk(r)]
    /\ \/ NextChunk(r) = 0 /\ Goto(r, "queued") /\ UNCHANGED answer
       \/ NextChunk(r) > 0 /\ total'[r] > MaxBytes /\ Raise(r, "too_large", "except")
       \/ NextChunk(r) > 0 /\ total'[r] <= MaxBytes /\ UNCHANGED <<pc, answer>>
    /\ UNCHANGED <<inputVars, booked, outsideVars>>

(* run_in_threadpool.                                                      *)
TakeThread(r) ==
    /\ pc[r] = "queued" /\ FreeThread
    /\ Goto(r, "thread")
    /\ UNCHANGED <<inputVars, total, answer, booked, outsideVars>>

(* JobService.create_job: validate_upload, probe_image (an empty file is   *)
(* no image), the writes.  It counts what it accepts, in its thread.       *)
CreateJob(r) ==
    /\ Upload(r) /\ pc[r] = "thread"
    /\ IF total[r] > MaxBytes
         THEN Raise(r, "too_large", "except") /\ UNCHANGED booked
         ELSE \/ \E a \in {"unsupported", "invalid_image"} \cup
                         (IF total[r] > 0 THEN Failures ELSE {}) :
                    Raise(r, a, "except") /\ UNCHANGED booked
              \/ total[r] > 0 /\ Raise(r, "accepted", "done") /\ Book(r, "accepted")
    /\ UNCHANGED <<inputVars, total, outsideVars>>

(* GET: None for an id that is malformed or unknown; the lookup may fail.  *)
LookupJob(r) ==
    /\ Lookup(r) /\ pc[r] = "thread"
    /\ \/ \E a \in {"found", "not_found"} : Raise(r, a, "done")
       \/ \E a \in {"dependency", "server_error"} : Raise(r, a, "handler")
    /\ UNCHANGED <<inputVars, total, booked, outsideVars>>

(* Mutant: one attempt too many.                                           *)
MutantThirdAttempt(r) ==
    /\ r \in Probes /\ pc[r] = "thread" /\ checked[r] < 3
    /\ Dependencies[checked[r] + 1] \notin up /\ attempt[r] <= 2
    /\ attempt' = [attempt EXCEPT ![r] = @ + 1]
    /\ UNCHANGED <<pc, inputVars, total, answer, booked, checked, failed, worldVars, seenVars>>

(* Mutant: a dependency that does not answer is asked until it does.       *)
MutantProbeForEver(r) ==
    /\ r \in Probes /\ pc[r] = "thread" /\ checked[r] < 3
    /\ checked' = [checked EXCEPT ![r] =
                      IF Dependencies[checked[r] + 1] \in up THEN @ + 1 ELSE @]
    /\ UNCHANGED <<pc, inputVars, total, answer, booked, attempt, failed, worldVars, seenVars>>

(* Mutant: the result of the last attempt is not looked at.                *)
MutantProbeForgets(r) ==
    /\ r \in Probes /\ pc[r] = "thread" /\ checked[r] < 3
    /\ checked' = [checked EXCEPT ![r] = @ + 1]
    /\ UNCHANGED <<pc, inputVars, total, answer, booked, attempt, failed, worldVars, seenVars>>

(* ReadinessProbe.run: one attempt at one dependency.  check() makes two,  *)
(* gives up at once on an error that is not transient, and takes a 403     *)
(* for an answer.                                                          *)
Probe(r) ==
    /\ r \in Probes /\ pc[r] = "thread" /\ checked[r] < 3
    /\ LET d == Dependencies[checked[r] + 1]
       IN  \/ /\ d \in up
              /\ checked' = [checked EXCEPT ![r] = @ + 1]
              /\ attempt' = [attempt EXCEPT ![r] = 1]
              /\ UNCHANGED failed
           \/ /\ d \notin up /\ attempt[r] = 1
              /\ attempt' = [attempt EXCEPT ![r] = 2]
              /\ UNCHANGED <<checked, failed>>
           \/ /\ d \notin up
              /\ checked' = [checked EXCEPT ![r] = @ + 1]
              /\ attempt' = [attempt EXCEPT ![r] = 1]
              /\ failed' = [failed EXCEPT ![r] = @ \cup {d}]
    /\ UNCHANGED <<pc, inputVars, total, answer, booked, worldVars, seenVars>>

ProbeDone(r) ==
    /\ r \in Probes /\ pc[r] = "thread" /\ checked[r] = 3
    /\ Raise(r, IF failed[r] = {} THEN "ready" ELSE "not_ready", "done")
    /\ UNCHANGED <<inputVars, total, booked, outsideVars>>

(* Mutant: rejections are not let through uncounted.                       *)
MutantExceptCountsAll(r) ==
    /\ pc[r] = "except"
    /\ Book(r, "error")
    /\ Goto(r, "handler")
    /\ UNCHANGED <<inputVars, total, answer, outsideVars>>

(* The except clauses of the upload route.                                 *)
ExceptClause(r) ==
    /\ pc[r] = "except"
    /\ IF answer[r] \in Rejections THEN UNCHANGED booked ELSE Book(r, "error")
    /\ Goto(r, "handler")
    /\ UNCHANGED <<inputVars, total, answer, outsideVars>>

(* The exception handlers of the application, and for anything else the    *)
(* server's own.                                                           *)
ExceptionHandler(r) ==
    /\ pc[r] = "handler"
    /\ IF answer[r] \in Rejections THEN Book(r, MetricResult[answer[r]]) ELSE UNCHANGED booked
    /\ Goto(r, "done")
    /\ UNCHANGED <<inputVars, total, answer, outsideVars>>

-----------------------------------------------------------------------------
Active(r) == pc[r] \notin {"idle", "done"}

(* POST /admin/chaos: a partial update, merged under the lock.  As a body  *)
(* may name any of the three fields, the result may be any other settings. *)
(* History: requests under way have now seen them as well.                 *)
SetChaos(new) ==
    /\ changes < MaxChanges /\ changes' = changes + 1
    /\ new # chaos
    /\ chaos' = new
    /\ rates' = [r \in Requests |-> IF Active(r) /\ r \in JobRequests
                                      THEN rates[r] \cup {new.error_rate} ELSE rates[r]]
    /\ forcedSeen' = [r \in Requests |->
                        forcedSeen[r] \/ (Active(r) /\ r \in Probes /\ new.fail_readiness)]
    /\ UNCHANGED <<pc, inputVars, total, answer, booked, probeVars, up, upSeen, downSeen>>

(* A dependency goes away or comes back.                                   *)
Outage(d) ==
    /\ changes < MaxChanges /\ changes' = changes + 1
    /\ up' = IF d \in up THEN up \ {d} ELSE up \cup {d}
    /\ upSeen' = [r \in Requests |-> IF Active(r) /\ r \in Probes
                                       THEN upSeen[r] \cup up' ELSE upSeen[r]]
    /\ downSeen' = [r \in Requests |-> IF Active(r) /\ r \in Probes
                                         THEN downSeen[r] \cup (AllDependencies \ up')
                                         ELSE downSeen[r]]
    /\ UNCHANGED <<pc, inputVars, total, answer, booked, probeVars, chaos, rates, forcedSeen>>

Step(r) ==
    \/ ApplyChaos(r) \/ WakeUp(r) \/ ResolveDeps(r) \/ Route(r)
    \/ ReadChunk(r) \/ TakeThread(r) \/ CreateJob(r) \/ LookupJob(r)
    \/ Probe(r) \/ ProbeDone(r) \/ ExceptClause(r) \/ ExceptionHandler(r)

Next ==
    \/ \E r \in Requests : Arrive(r) \/ Step(r)
    \/ \E new \in ChaosStates : SetChaos(new)
    \/ \E d \in AllDependencies : Outage(d)

Spec == Init /\ [][Next]_vars

(* The loop runs what is ready, delays and calls end, and a thread that    *)
(* becomes free is given to someone who waits.                             *)
LiveSpec == Spec /\ \A r \in Requests : WF_vars(Step(r))

-----------------------------------------------------------------------------
(* The result under which each outcome is counted, where the code counts.  *)
Counted == {"accepted"} \cup Rejections \cup Failures

Bucket(a) ==
    CASE a = "accepted"    -> "accepted"
      [] a \in Rejections -> MetricResult[a]
      [] a \in Failures   -> "error"

(* An upload that was decided is in the one bucket of its outcome, and no  *)
(* upload is in two, although three places count and an answer may pass    *)
(* two of them (routes/jobs.py 114-123, main.py 120-127, service.py 200).  *)
OneBucket ==
    \A r \in Requests : Upload(r) /\ pc[r] = "done" =>
        /\ Len(booked[r]) <= 1
        /\ answer[r] \in Counted => booked[r] = <<Bucket(answer[r])>>

(* The three checks of the size (declared, while reading, in create_job)   *)
(* agree: create_job is given whole files within MAX_UPLOAD_BYTES, a file  *)
(* within it is refused only for framing beyond the margin, and at most    *)
(* one chunk is read beyond the limit.                                     *)
SizeLimitExact ==
    \A r \in Requests : Upload(r) =>
        /\ pc[r] = "thread" => total[r] = size[r] /\ size[r] <= MaxBytes
        /\ answer[r] = "too_large" =>
             size[r] > MaxBytes \/ declared[r] - size[r] > Margin
        /\ total[r] <= MaxBytes + Chunk

(* What carries the two: how much has been read and counted where.  A      *)
(* rejection is counted by its handler only, a failure in the except       *)
(* clause only, and nothing before either.                                 *)
Waiting == {"idle", "chaos", "sleeping", "deps", "route"}

BookedSoFar ==
    \A r \in Requests :
        /\ pc[r] \in Waiting \cup {"reading", "queued", "thread"} =>
             booked[r] = << >> /\ answer[r] = "none"
        /\ pc[r] = "except" =>
             Upload(r) /\ booked[r] = << >> /\ answer[r] \in Rejections \cup Failures
        /\ pc[r] = "handler" /\ Upload(r) =>
             /\ answer[r] \in Rejections \cup Failures \cup {"injected", "validation_error"}
             /\ booked[r] = IF answer[r] \in Failures THEN <<"error">> ELSE << >>

ReadSoFar ==
    \A r \in Requests :
        /\ pc[r] = "idle" \/ r \in Probes => ~Upload(r)
        /\ pc[r] \in Waiting => total[r] = 0
        /\ pc[r] = "reading" => Upload(r) /\ size[r] # NoFile /\ total[r] <= size[r]
                                /\ total[r] <= MaxBytes
        /\ pc[r] = "queued" /\ Upload(r) => total[r] = size[r] /\ size[r] <= MaxBytes

ReplicaInv == BookedSoFar /\ ReadSoFar /\ OneBucket /\ SizeLimitExact

(* Settings change while requests sleep: a job request fails by injection  *)
(* only if some rate in force during it allowed that, and it is spared     *)
(* only if some rate did (chaos.py 82-90, 97-119).                         *)
InjectedHasCause ==
    \A r \in JobRequests : pc[r] = "done" =>
        /\ answer[r] = "injected" => \E x \in rates[r] : x > 0
        /\ answer[r] # "injected" => rates[r] # {Full}

(* "Health, readiness and metrics stay honest" (chaos.py 101-102), though  *)
(* the three checks are made one after the other: ready means that each    *)
(* dependency answered at some time during the request; those named        *)
(* failing were down at some time; one that was down all along is named.   *)
ReadinessHonest ==
    \A r \in Probes : pc[r] = "done" =>
        /\ answer[r] = "forced" => forcedSeen[r]
        /\ answer[r] # "forced" => failed[r] \subseteq downSeen[r]
                                  /\ AllDependencies \ upSeen[r] \subseteq failed[r]
        /\ answer[r] = "ready" <=> answer[r] # "forced" /\ failed[r] = {}

(* Uploads that hang on a dependency and readiness probes share the pool;  *)
(* every request is answered all the same.                                 *)
EveryRequestEnds == \A r \in Requests : pc[r] # "idle" ~> pc[r] = "done"

-----------------------------------------------------------------------------
(* Statements of the repository that the code does not keep.               *)

(* "Every terminated upload attempt lands in exactly one of them" (README  *)
(* 271-273), "so the result counter accounts for every terminated upload   *)
(* attempt" (routes/jobs.py 119-121), an injected failure included.        *)
EveryUploadCounted ==
    \A r \in Requests : Upload(r) /\ pc[r] = "done" => Len(booked[r]) = 1
=============================================================================
