# Verification of pixelforge

TLA+ modules, TLC configurations and TLAPS proofs for pixelforge, an image
thumbnail service: an HTTP API accepts an upload, writes it to S3, records a job
in DynamoDB and enqueues a message on SQS; worker pods take messages, render the
thumbnails, upload them and record the outcome. No process keeps job state of
its own. Everything the processes know about each other goes through the three
AWS resources, over calls that may fail, may be applied without being answered,
and are retried.

`PROJECT.json` lists components, runs, mutants, findings, hazards and theorems,
and maps every definition to the lines it models. Paths below are relative to
`src/`.

## Inventory

| Component | State it keeps | Operations | What makes it correct | Here |
| --- | --- | --- | --- | --- |
| AWS wrappers, `shared/aws.py` | none; the resources hold objects, items and messages | `put_bytes`, `put_job`, `get_job`, `mark_processing`, `mark_complete`, `mark_failed`, `send_job`, `receive`, `delete`, `change_visibility`, `check` | the one conditional update protects COMPLETE; no update invents an item | `JobStore` |
| Retry ladder, `shared/retry.py` | attempt number | `call_with_retry`, `is_transient` | bounded, and repeating an applied request is harmless | outcomes and attempt counters of `JobStore`, `JobApi`, `JobWorker` |
| Job submission, `api/service.py` | none | `create_job`, `_mark_unqueueable` | object, record, message in that order, whatever fails in between | `JobApi` |
| Worker pipeline, `worker/consumer.py` | the message in hand | `run_once`, `handle_message`, `_process`, `_render`, `_fail_job`, `_delete_quietly` | message deleted last; records true; idempotent under redelivery; every exit cleans up and is counted for what it was | `JobWorker`, `WorkerLocal` |
| Records and messages, `shared/models.py` | the shape of both | `JobStatus`, `JobRecord`, `JobMessage` | status life cycle | `JobStore`, `JobLifecycle` |
| Queue and dead-letter queue, `terraform/platform/sqs.tf` | visibility, receive counts | delivery, timeout, redrive | nothing circulates for ever | `JobStore`, `Pipeline` |
| Heartbeat, `worker/heartbeat.py` | a thread, an event | `start`, `_loop`, `stop` | the message stays invisible during the render; the thread ends | `Heartbeat` |
| Worker process, `worker/main.py` | stop flag, watchdog timer | `run`, `wait_for_dependencies`, signal handler, `_force_exit` | exits in time, does not cut jobs it could finish | `WorkerProcess` |
| Job endpoints, `api/routes/jobs.py`, `api/main.py` | `uploads_total` | `create_job`, `get_job`, the exception handlers | limits agree; an attempt is counted once; every request ends | `ApiReplica` |
| Chaos controller, `api/chaos.py` | three settings under a lock | `apply`, `reset`, `apply_chaos` | an injected failure comes from a rate in force | `ApiReplica` |
| Readiness, `api/routes/health.py` | none | `readyz`, `ReadinessProbe.run` | the answer was true of each dependency during the request | `ApiReplica` |
| Images, `shared/images.py` | none | `probe_image`, `extract_exif`, `render_thumbnails` | no location data is kept; what is kept can be stored | `ImageMetadata` (EXIF); decoding and scaling are Pillow's |
| Configuration, `shared/config.py` | frozen settings | `load_config` | bounds, defaults, all missing variables reported | `Config` |
| Load generator, `loadgen/generate.py` | a queue, statistics under a lock | `run_load`, `_worker`, `_follow_job`, `_poll_job`, `_percentiles` | attempts and follows are accounted for; it ends | `LoadGen`, `LoadReport` |
| Logging, `shared/logging_setup.py` | bound context | the processors, `bind_job_context` | no secret or location in a line, and no more lost than the rules say | `LogRedaction`; the context in `WorkerLocal` |
| Metrics, `shared/metrics.py` | counters, gauges | `inc`, `dec` | they agree with what happened | `uploads_total` in `ApiReplica`, `jobs_processed_total` and the in-flight gauge in `WorkerLocal` |
| Tracing, `shared/tracing.py` | OpenTelemetry's | spans, context headers | | not modelled |
| Deployment, `k8s/`, `terraform/` | declarative | | | its numbers are constants of the models |

How the parts meet. The API and the workers share nothing but S3, DynamoDB and
SQS. The API is the only writer of new items (`put_job`); the worker updates
items in place. A message is the only thing that makes a worker look at a job.
Inside a worker process the main thread runs the poll loop and the signal
handler, a daemon thread per job runs the heartbeat, a timer thread the
watchdog. Inside an API process the requests share an event loop, the chaos
settings and a pool of threads for everything that blocks. The load generator is
a client of the API: upload threads share a queue of send times, a pool follows
the accepted jobs, and both write one set of statistics.

What is hard here: two deliveries of one job handled at once (a visibility
timeout that runs out, or a send that was applied twice); writes based on a
record read earlier; calls that were applied although they raised; a pod that
dies between two calls; the retry that repeats a message; the dead-letter limit
used up by deliveries nobody worked on; a slow extension racing the deadline; a
signal before the handlers exist or during a long poll; settings that change
while a request sleeps; dependencies that change while they are asked one after
the other; a dozen exits of one handler, each with the same clean-up; threads
that die of an exception nobody catches. The list, line by line, is `hazards` in `PROJECT.json`.

## Modules

```
JobStore          S3, DynamoDB, SQS: the effect of one request
  JobApi          create_job, one request per job id
  JobWorker       the consumer, any number of workers
    Pipeline      both together, and the queue's own steps
      MCPipeline      small instances
      WorkerLocal     and what a worker keeps for itself; MCWorkerLocal
      PipelineProofs  types, the inductive invariant, refinement
        ExclusiveProofs    one result, if a held message stays invisible
        WorkerLocalProofs  the workers' own books
JobLifecycle      what the pipeline promises (Pipeline implements it)
Heartbeat         timed model; MCHeartbeat, HeartbeatProofs
WorkerProcess     timed model; MCWorkerProcess, WorkerProcessProofs
ApiReplica        one API process; MCApiReplica, ApiReplicaProofs
LoadGen           the load generator against JobLifecycle; MCLoadGen, LoadGenProofs
PyBuiltins        Python's sorted() and round()
  Config, ImageMetadata, LoadReport
                  pure rules as operators
    Rules         applies them to any input; RulesProofs
      MCRules     to bounded sets of inputs, and LogRedaction with them
MCParts           MCHeartbeat, MCWorkerProcess, MCLoadGen and MCRules in one run
```

### JobStore

`uploads` and `thumbs` are the objects that exist. `status`, `outputs` and
`errored` are the columns of the job items that the properties speak of; a PutItem
replaces all of them, an UpdateItem only the ones its expression names, which is
why `mark_processing` leaves an old error and `_mark_unqueueable` wipes outputs.
`place` and `receives` are the messages: attempt `k` of the send for job `j` is
message `<<j, k>>`, because an attempt whose answer is lost has enqueued its
message all the same. `settled` is a history variable: the jobs whose item was
ever terminal.

A request has one of four outcomes: `ok`, `lost` (applied, no answer), `error`
(not applied, transient), `fatal` (not applied, not transient). `Retried` and
`Raised` are `call_with_retry`. A request that is applied is applied before its
caller learns of an error; one that arrives after its caller has given up is not
modelled.

A receipt is `<<message, n>>`, the n-th delivery. Deleting with the latest
receipt deletes a message still in the queue; with an older one SQS promises
nothing, so both outcomes are possible. A deleted message does not come back,
and retention (4 and 14 days) is not modelled.

### JobApi

`apiPc` and `apiTry` say where the request for a job id is. Validation and
decoding precede the first write, so a request enters at `put_object`. Writing
the object and the first item is repeatable without effect, so each is one step
with its retries. The send and the overwrite keep one step per attempt, because a worker may
act between two attempts. `ApiCrash` is the death of the pod. The `kind` of a
message is what the worker can tell apart: current, newer schema, foreign
bucket, malformed. This release of the API sends current ones; newer and
foreign ones come from API pods of another release or configuration in a rolling update,
which still write record and object, and `StraySend` is any other producer (an
operator, a test), with a message for which there is no record.

### JobWorker

`wpc` is the call the worker is about to make, `held` the receipt in hand,
`rendered` the sizes uploaded, `wTry` the attempt. `finishedBy` is a history
variable: the deliveries whose `mark_complete` reached the table. Every exit of
`_process` that returns `RETRY` is `Release`: nothing happens to the message,
its timeout runs. `WorkerReceiveLost` is a receive whose answer is lost, which
spends a delivery. `WorkerCrash` can happen at any call. Decoding may succeed,
fail for good (`ImageProcessingError`) or fail otherwise.

### Pipeline

Composition: each step is a step of one request, of one worker, or of the queue
(`VisibilityTimeout`, `Redrive`). The timeout may run out under a worker's
hands, because the heartbeat covers the render only and may itself fail or
stall. With the constant `Exclusive` set it may not; that is the assumption the
comments in the code make, and one run is about what it buys.

### WorkerLocal

`Pipeline` with the state of a worker process added, each action of `JobWorker`
conjoined with its local effects. `scope` is the set of blocks a handler is
inside (the log context of `handle_message`, the gauge of `_process`, the
workspace of `_render`): `Enter` and `Leave` open and close them, `Return` is
the end of `handle_message`, by whichever way, with its `Outcome`. A crash runs
none of them; gauge and context go with the process, the directory stays.
`verdict` is the outcome that a handler about to delete will return, so that
the one delete inside the try block (after `mark_complete`) differs from
`_delete_quietly`: if it raises, the completion is not counted and the outcome
is RETRY. `outcome` and `tally` are histories per delivery. Histograms and log
lines are left out.

### Heartbeat and WorkerProcess

Discrete time. `Heartbeat` has the handler (`phase`), the thread (`thread`,
`clock`) and the message's clock in SQS (`left`). SQS refuses an extension for a
message that is visible again, so an extension is only granted in time.
`WorkerProcess` goes from the dependency wait through the poll loop to the exit,
with SIGTERM at any moment. The process is PID 1 in its container, where a
signal without a handler is dropped, and Python runs a handler in the main
thread once the C call it is in has returned (`HandlerDelay`). A receive is the
long poll with everything `call_with_retry` makes of it: four attempts of three
botocore tries with 5 and 40 seconds each, and the backoff. It ends within
`ReceiveMax`, which nothing relates to the grace period, so the watchdog may well
fire during a receive (`endedIn`).

### ApiReplica

Any number of requests, each to the job API (`JobRequests`; an upload or a
lookup) or to `/readyz` (`Probes`). A request gives up the event loop only at an
await, so what lies between two awaits is one action: the chaos gate up to its
delay, the route up to its first read, one turn of `_read_limited`, the wait for
a thread, what runs in the thread, the except clause, the handler. The
dependencies of `api/deps.py` are plain functions, which FastAPI runs in the
pool too. The form has been parsed by the framework before the gate; that a file
is missing is found out when the route is called. `booked` is what the request
added to `uploads_total`, in order. `create_job` is its outcome here; `JobApi`
has its writes, which no property of this module depends on. `ReadinessProbe.run`
is one action per attempt, so that a dependency may go or come between any two
(`Outage`, external). The rate of injected errors is 0, one half or 1, as only
never, sometimes and always differ. `rates`, `forcedSeen`, `upSeen` and
`downSeen` are history variables.

### LoadGen

`run_load` (`mpc`), its upload threads (`upc`) and the pool of pollers (`ppc`),
over a clock of whole ticks. The queue is the number of items taken from it, as
its contents are fixed: the send times, then one `None` per thread. An upload
ends in a 202, another status, an `OSError` or any other exception. The latter
is caught nowhere: an upload thread is gone with it (`died`), and a follow ends
unrecorded in a future nobody looks at (`BROKEN`). A request that failed for the
client may have been served. The service is an instance of `JobLifecycle`, the
specification that `Pipeline` is proved to implement, so what a poll may answer
is what the pipeline may have recorded; it may also leave every job as it is.
The service reads the record (`Respond`, `seen`) at some moment between the
request and its answer, and the record may change before and after that moment,
so an answer may be old when it arrives, or be lost. How long a request takes is
open: `--timeout` bounds each operation on its socket, not the request.
`RequestMax` bounds it in the model, and no property and no proof depends on its
value. `during` is a history variable: the statuses the job has had since the
request in hand was sent.

### Config, LogRedaction, ImageMetadata, LoadReport

The stateless rules, as operators: `load_config` with its parsers; the log
processors that change fields; the EXIF filter and the conversion of its values
to DynamoDB's and back; the index of a percentile. Strings are told apart as far
as the code does (blank, number, known word, other); a key, a tag or a text
stands for all that are treated alike. A double lies on a grid of `1 / Fine`:
the quotient of a rational is rounded to it, `round(x, 6)` then to `1 / Scale`,
and the result is the double nearest to that. All that is assumed of the grid is
that it is finer than the digits kept, which holds up to 2^33. A double that is
not finite has no number in DynamoDB (`Storable`), and one such value makes the
whole write raise (`SaveExif`). The cut of a string is its length, so that both
the limit and what is lost are visible. The arrays of an EXIF directory are flat,
so `_normalise_exif_value` descends one level only. `sorted()` and `round()` are
in `PyBuiltins`, defined by what they return: the k-th element is the one that k
elements do not exceed.

In `Rules` a behaviour picks a rule and an input and applies it. The inputs are
constants (`Environments`, `Images`, `Samples`) of which `InputsAssumption` says
only what a variable, a tag or a series may be; `MCRules` gives them bounded sets
and adds the redaction, which recurses into nested values.

## Runs

Time is in units of 5 seconds in the timed models.

| Run | Instance | Shows |
| --- | --- | --- |
| `pipeline_safety` | 1 job, 2 workers, 2 sizes, 2 attempts, 2 receives | a message of the API has its upload and record behind it (`QueuedIsBacked`); COMPLETE means all thumbnails are stored, FAILED has a reason (`RecordTellsTheTruth`); a message is deleted only after a terminal status was recorded (`NeverDroppedUnsettled`); COMPLETE is never restarted and no worker call creates an item (`NoRestartNoUpsert`); `JobLifecycle` is implemented (`LifecycleSpec`); the inductive invariant of the proofs holds (`PipelineInv`) |
| `worker_local` | 1 job, 2 workers, 1 size, 2 attempts, 2 receives, `Exclusive` | with a message invisible while it is held, and sent once, an accepted job is completed by one delivery only (`OneResultIfExclusive`); gauge, context and directory are undone on every exit (`HandlersLeaveNothing`); outcome, counters and table agree (`OutcomesTellTheTruth`); a completion that is not counted ended in a logged RETRY or with its process (`CompletionsCounted`) |
| `pipeline_live` | 1 job, 1 worker, fairness | every accepted job settles or is parked; every message leaves the queue |
| `api_replica` | 1 job request, 1 probe, 1 thread, limit 3, chunk 2, margin 1, 2 changes | an upload that was accepted, rejected or failed is counted once and under its outcome, and none is counted twice (`OneBucket`); `create_job` is given whole files within the limit and only framing beyond the margin refuses one (`SizeLimitExact`); an injected failure had a rate in force during the request (`InjectedHasCause`); what `/readyz` says of a dependency was true at some time during the request (`ReadinessHonest`); both requests end (`EveryRequestEnds`) |
| `parts` | one of the four below | see below |

`parts` (`MCParts`) takes the parts that share no state with the rest, nor with
each other, in one run. A behaviour is one of any of them; the others have
nothing left to do or have not begun, so it is the union of four runs.

| Part of `parts` | Instance | Shows |
| --- | --- | --- |
| heartbeat | interval 5 s, visibility and extension 60 s, calls of up to 20 s, one failure in a row | the message stays invisible through a failed extension and until `stop()` has returned (`HeldWhileRendering`, with `DeadlineInv`, its inductive form); `join` gives up after 10 s while a call of 20 s is under way, and the thread ends all the same (`ThreadEnds`) |
| worker process | grace 30 s, termination 55 s, C calls of up to 20 s, jobs of up to 25 s, receives of up to 60 s | SIGKILL only after a dropped signal (`KilledOnlyIfDropped`, `ClockInv`); at most one message after the stop (`AtMostOneLateJob`); a job that the watchdog cuts is such a late one (`OnlyLateJobsAreCut`) |
| load generator | 2 uploads, 2 upload threads, 1 poller, requests of up to 1 tick, poll timeout 2, interval 1 | attempts are counted once or lost with their thread (`AttemptsAccounted`); accepted jobs have exactly one entry each in the end (`FollowsAccounted`); a reported status was the record's during the request that brought it (`ReportedWasCurrent`); no poll begins at or after the deadline, and there are no more of them than sleeps fit in before it (`FollowIsBounded`); the run returns (`RunReturns`) |
| rules | every input of `MCRules` | accepted configurations are sound and refused ones have a malformed value (`ConfigIsExact`); redaction shows exactly what its rules allow (`RedactionIsExact`); EXIF keeps no location, loses nothing usable and, unless a value is no number, survives storage (`ExifIsExact`); the percentile is the nearest rank (`PercentileIsNearest`) |

### Disagreements between the code and what is written about it

Each is a run that TLC ends with a counterexample, and an entry of `findings`
with the quotation.

| Run | The text says | The code allows |
| --- | --- | --- |
| `overwrite_is_safe` | overwriting the item just written is safe | after a send whose answer was lost, a worker may have completed the job that the overwrite turns to FAILED |
| `no_lost_job` | a crash never loses a job | one worker fails the job and deletes the message, another that read the record earlier sets PROCESSING and dies |
| `heartbeat_slow_call` | one failed call does not lose the message | one call that fails by timeouts takes longer than the extension |
| `never_sigkilled` | the pod never has to be SIGKILLed | a SIGTERM during the dependency wait is dropped |
| `every_upload_counted` | every terminated upload attempt lands in exactly one bucket of `uploads_total`, injected failures included | an upload that ends in an injected failure or in a 422 is in none; what holds is `OneBucket` |
| `total_counts_attempts` | the report's total is all upload attempts, including failures | an attempt that ends in anything but an answer or an `OSError` goes with its thread; what holds is `AttemptsAccounted` |
| `exif_is_safe` | what the EXIF filter keeps is DynamoDB-safe | a float that is NaN or infinite passes it; boto3 refuses it, every `mark_complete` of that job raises and its message ends in the dead-letter queue; what holds is `ExifIsExact` |

More are visible in the models without a run of their own.

* A redelivery takes a FAILED job back to PROCESSING (`StartCondition` excludes
  COMPLETE only) and a stale worker turns COMPLETE into FAILED
  (`WorkerMarkFailed` has no condition); `shared/models.py:40`, "Only
  ``COMPLETE`` and ``FAILED`` are terminal", and `:49`, "no further transition
  is expected". It is a step of the counterexample of `no_lost_job`.
* Two deliveries handled at once both complete the job; `worker/consumer.py:6-7`,
  "a duplicate delivery produces one result, not two". Where it holds is
  `OneResultIfExclusive`.
* A request whose `put_job` fails leaves its object without a record (`ApiPutJob`
  to `error`; `api/service.py:127-128` promises "either no trace or a record").
* A long poll in flight at the stop may still return a message that is then
  handled (`PollReturnsMessage`; `worker/main.py:4-5`); what holds of it is
  `AtMostOneLateJob`.
* A FAILED job that is picked up again is served as PROCESSING with its old error
  (`UpdateProcessing` leaves `errored`; `api/routes/jobs.py:144-145` says it
  "carries only the submission details").
* A completion whose delete raises is counted nowhere (`LocalDelete`;
  `shared/metrics.py:122`, "Jobs that reached a terminal state"), and a failure
  may be counted by two deliveries.
* The latencies of the load report headed "upload → COMPLETE"
  (`loadgen/generate.py:327`) include FAILED jobs (`:241`). A follow may outlast
  `--poll-timeout` (`:378`) by a request, of any length, and a sleep; its clock
  starts only when a poller is free. `_poll_job` also returns `HTTP_...`, which
  its docstring (`:173`) does not say.
* The EXIF filter keeps lists although its result is called a mapping to scalars
  (`shared/images.py:213`).
* A log field called `message` is overwritten by the event (`RenameMessage`).

### Why the bounds are enough

Jobs do not interact: every action touches one job's columns, objects and
messages, and a worker carries nothing from one message to the next
(`Release` clears it). One job with two workers has all the interference there is between two
deliveries. Two attempts make a first and a last one, and so two messages for
one job; two receives make a redelivery and then the dead-letter queue; two
sizes make a render with a thumbnail stored and one missing. `worker_local` has
one size, as which thumbnails are stored makes no difference to what a worker
keeps for itself, and its second send keeps two workers busy with one job
although a held message stays invisible. The proofs do not depend on any of this. 

The timed parts count in units of 5 seconds. The worker process has the deployed
grace and termination periods; its dependency wait is shortened from ten rounds to
four, and its backoff rounded up, since the rounds differ only in their delay; a
receive may outlast both periods (`InstanceHasSlowReceive`), so the watchdog also
fires in the middle of one. `heartbeat_slow_call` has the deployed 15 and 60
seconds. With them a call that outlasts `join` (16 seconds) leaves no room for one
that fails, as two intervals and two such calls exceed 60; so in `parts` the
heartbeat beats every 5 seconds, where a call of 20 outlasts the `join` of 10
(`InstanceGivesUp`) and there still is room for a failure (`InstanceHasSlack`).
The proofs have both as parameters.

In `api_replica` requests interact through the pool and the settings only. One
thread makes a job request and a probe wait for each other. The limit is not a
multiple of the chunk, and there are files at the limit, one byte beyond it and
empty, with framing at the margin and beyond it (`InstanceMeetsTheLimit`). Two
changes let a setting or a dependency go and come back during one request.

In the load generator two threads and two uploads make a thread that gets both and
one that gets none, a thread lost before, between and after the other's uploads,
and a poller for whom a second job waits. Two polls of a job fit in before its
deadline, and a request and a sleep can both run up to or beyond it.

For the rules the tokens, depths, lengths and lists lie at the limits and one
beyond; the lengths and item counts of redaction and EXIF are small constants in
place of 32, 512, 256 and 16, as the rules compare with them and nothing else.
Numbers are rounded to one digit (`Scale` 10) instead of six, and doubles lie
sixteenths apart (`Fine` 16); there are fractions that are whole, that round to a
whole number and that round to neither. A tag that is dropped unread has one
usable and one unusable value, as nothing looks at it.

The workers are symmetric and the symmetry is used in safety runs only.
Deadlock is not checked: with all messages deleted or parked, and every request
over, the pipeline rests; a worker process ends; the heartbeat models one job;
every request to the replica is made once; the load generator returns; a rule is
applied once.

### Fairness

`pipeline_live`: a running handler makes its next call (threads are scheduled,
calls have timeouts, Pillow returns), some worker keeps polling and is given a
message that stays available (pods are restarted by Kubernetes), and SQS expires
and redrives in finite time. Nothing is assumed of failures: a call may fail
every time and a worker may crash on every delivery. The receive count is what
ends it. `parts`, the heartbeat: time passes, both threads run, a call returns or
raises; the render may last for ever. `api_replica`: weak fairness of each
request's steps. The event loop runs what is ready, delays and AWS calls end
(botocore's timeouts, a bounded retry ladder), the body has been received by
then, and anyio gives a free thread to who waits for one. Requests need not come.
`parts`, the load generator: each thread runs, time passes, and a request ends, one
way or the other: a service that sends a byte now and then could hold one for ever,
since the timeout is per socket operation, and then `run_load` would not return.
Nothing else is assumed of the service, which may answer no request and leave every
job as it is.

### Mutants

Each property of each passing run has a mutant: an operator with a plausible
bug (a dropped guard, an unrecorded failure, one attempt too many, a late
watchdog) that is put in the place of a mapped definition and makes TLC violate
the property. They stand before the definition they replace, named `Mutant...`.

## Proofs

`PipelineProofs`, for all sets of jobs, workers and sizes,
and every receive and attempt limit, from `SizesAssumption`,
`MaxReceiveAssumption`, `AttemptsAssumption` and `NoReceiptAssumption`:

* `TypeCorrect`: the type invariant, with `HoldsReceipt` (a worker past its poll holds
  a receipt), which it needs to type the message in a worker's hand.
* `InvariantHolds`: `PipelineInv`. The three safety properties do not carry
  themselves. That a message has a record behind it needs how far its request
  has come (`RequestOrder`). That a stale worker's unconditional updates do not
  invent an item needs that it saw one and that items do not disappear
  (`WorkerKnows`). That COMPLETE is true needs that what a worker counts as
  rendered is stored and stays stored, and that it counts all sizes before it
  writes (`RenderProgress`). That only settled jobs are deleted needs that a
  worker about to delete has seen or written a terminal status, or a malformed
  body, which no request of the API sends (`RequestOrder`, `WorkerKnows`). One
  lemma per action, one step per conjunct.
* `QueuedIsBackedAlways`, `RecordTellsTheTruthAlways`,
  `NeverDroppedUnsettledAlways`: its consequences.
* `AcceptedIsTracked`: an accepted job has a message on the queue or in the
  dead-letter queue until it has been terminal, the safety half of
  `AcceptedSettles`. Beyond the invariant it needs that a message that was sent
  is never unsent again (`SentInv`, `NothingUnsent`). It speaks of the job having
  *been* terminal; that it still is, is what `no_lost_job` refutes.
* `NoRestartNoUpsertHolds`: the action property, from the same invariant.
* `ImplementsLifecycle`: refinement of `JobLifecycle`, under the mapping of
  `tracked` to the jobs that some message of the API still stands for; each
  action is a step of the abstract specification or a stutter.
* `MessagesMoveForward`: a message that was deleted or parked stays so, and every
  move of one on the queue lowers `MovesLeft`, two for each delivery that remains
  and one for the timeout of the current one. It is the ranking argument behind
  `QueueDrains`: all that liveness adds is that moves happen. It needs that a
  send never lands on a message that is already there (`SendIsFresh`).
* `CompleteIsUndoneOnlyByFailure`: a result is not final (`overwrite_is_safe`),
  and this is all that can undo it: the item turns FAILED, by the request's
  `_mark_unqueueable` or by a worker in `_fail_job`, the two writes without a
  condition.

`ExclusiveProofs`, from the same assumptions and `Exclusive`, which only the step of
the visibility timeout uses: `OneResult`, that an accepted job that was sent once
is completed by a single delivery. The invariant `ExclusiveInv` says that a held message
is out of the queue's reach, in one hand only and with its latest receipt
(`HeldAlone`); that a request's messages appear in the order of its attempts, so
a job is not finished before it is sent (`SendOrder`, `FinishedWasSent`); and
that once a delivery has completed the job the record still says so and any
other worker at it has yet to look or is on its way out (`SingleResult`). It
holds for any number of receives, where `worker_local` has two.

`WorkerLocalProofs`, from the same assumptions, with and without `Exclusive`.
`LocalImplementsPipeline` shows that the local state restricts nothing, so all
the theorems above hold of `LocalSpec` too. `BooksInOrder` is the inductive
invariant `LocalInv`, and `GaugeInRange`, `NothingIsLeft`, `OutcomesAreTrue` and
`CompletionsAreTraced` are read off it: the four properties of `WorkerLocal`.
None of them is inductive, for they speak of handlers that have ended.

* `Shape`: where a worker is determines which blocks it is inside, and these
  what it has bound, counted and created. That the gauge never leaves 0 and 1 is
  part of this: `_process` is entered once per message.
* `Ledger`: while a message is in hand its delivery is open and has counted
  nothing but what the verdict about to be returned stands for.
* `OneHolder` and `Fresh`: a delivery is in one hand at most, and one not yet made
  has left no trace. Otherwise two workers could close the same books, or a new
  delivery open on used ones.
* `Truthful` and `Traced`: the properties themselves, for one delivery.

What the operators `Enter`, `Leave` and `Return` do is stated once (`EnterEffect`
and its siblings); each action then has a lemma that cites them.

`HeartbeatProofs`: `TypeCorrect`, `DeadlineAhead` and `HeldIfRoom`. If the queue's
timeout and the extension each exceed two intervals and two calls (and the time
before the render), the message stays invisible through the render and the join,
with one failed call in a row. The invariant `DeadlineInv` compares the time left
with the time until the next extension in the worst case. The hypothesis
`RoomForOneFailure` is what `heartbeat_slow_call` violates with the configured
timeouts.

`WorkerProcessProofs`, from `ProcessAssumption`, which allows a grace period of 0
as `config.py` does: `ProcessInvariant` (types, and how far a stop has come),
`ClockBehind` and `WatchdogInTime` (if the termination period exceeds grace plus
the longest C call, `RoomForWatchdog`, SIGKILL comes only after a dropped signal;
invariant `ClockInv`, the kubelet's clock is behind the watchdog's), `OneLateJob`,
and `ShortJobsFinish`: a job shorter than the grace period is cut only if it came
with the receive in flight when the stop was requested. It assumes nothing of how
long a receive takes. Its invariant `CutInv` says that the watchdog has run no
longer than the job it may interrupt, unless that job was received after the stop.

`ApiReplicaProofs`, for any number of requests and threads and any limit, margin
and chunk, from `ReplicaAssumption`: `ReplicaInvariant`, and from it
`OneBucketAlways` and `SizeLimitAlways`. The invariant says what has been
counted (`BookedSoFar`) and read (`ReadSoFar`) at each point of a request. It is
proved per request (`ReqInv`, with `ByRequest`): an action of one leaves the
others untouched. `SeenInvariant` is a second invariant, for what is not a
request's own: settings and dependencies that others change while it waits.
A request under way has seen the present ones, and the ones it acted on
(`JobSeen`, `ProbeSeen`); the dependencies asked so far have an answer that was
true when it was given. From it `InjectionAlwaysHasCause`,
`ReadinessAlwaysHonest` and `ReplicaTypeCorrect`.

`LoadGenProofs`, for any number of threads, pollers and uploads and every rate,
timeout and interval, from `LoadAssumption`: `TypeCorrect`, and the four safety
properties of the load generator. `AttemptsAreAccounted` needs that a thread returns only behind
the last upload and that `run_load` goes on only when all have ended (`CountInv`).
`FollowsAreAccounted` needs that an upload is in one place at a time, with a
thread, in the backlog, with a poller or recorded (`PlaceInv`): otherwise two
entries could fall together and a count be short. `FollowsBounded` needs the clock
at each point of the poll loop (`PaceInv`): every poll begun is followed by a sleep
before the next, and the first begins no earlier than the follow. It bounds how
often a job is asked for, not when its follow ends, which is a matter of how long
a request takes. `ReportsAreCurrent` needs that what the service read for a request
is among the statuses since it was sent (`ReportInv`).

`RulesProofs`, for every environment, every directory of tags, every percentile
of every series and all limits, from `EdgeAssumption` (the default sizes are
within the bound), `ExifAssumption` and `InputsAssumption`. The invariant of each
theorem is that a result is the rule applied to its input; the work is in the
lemmas about the operators.

* `ConfigAlwaysExact`: what `load_config` accepts is what the other modules assume
  (`SizesAssumption`, a grace period that may be 0, a positive limit), and what it
  refuses it refuses for a reason it names. One lemma per parser (`SizesParsed`,
  `IntParsed`, `BoolParsed`, `LevelParsed`) says that it returns a sound value or
  the text is malformed. That the sizes come out ascending, each once and none
  missing is `SortedSorts`: the rank of an element is injective into `1..n`, and
  so onto.
* `ExifAlwaysExact`: no location is kept, nothing usable is lost, the items of a
  tuple keep their order although some are dropped between them (`TupleExact`,
  again by ranks), and a number that went through rounding, `Decimal` and back is
  read as an integer exactly if it is whole and is within half a unit of the last
  digit (`FloatIsNear`), a ratio within half the spacing of doubles more, as it is
  rounded twice (`TwoRoundings`, `RatioIsNear`). The write is refused as a whole only
  for a tag that has a float without a number in it.
* `PercentilesAlwaysNearest`, from `PercentileTakesNearest`: rounding half to even,
  the step from rank to index and the two clamps fit together.

Only model-checked:

* liveness (`AcceptedSettles`, `QueueDrains`, `ThreadEnds`, `EveryRequestEnds`,
  `RunReturns`), which with fairness and ENABLED is out of the prover's reach;
* `RedactionIsExact`: a log value may be nested to any depth, the rule descends by
  a RECURSIVE operator, and what that computes for every value needs induction
  over data. `MCRules` reaches this operator, so it holds no theorem.

## Not modelled

Decoding, orientation, colour conversion and scaling of images (Pillow), the
contents of objects, timestamps; the HTTP request counters of the middleware and
all histograms, which no code reads back; tracing, which calls OpenTelemetry and
keeps no state that anything here depends on; the printed report of the load
generator; delays between retries; message retention; requests that take effect
after their caller has given up; partial outages are just failing calls.
Floats of an EXIF tag from 2^33 up to 10^126, whose doubles are coarser than six
digits and which `round()` leaves alone, are left out.
`terraform/`, `k8s/` and `.github/` are declarative. Tests and fixtures are used
as evidence for what the code is meant to do.

## Status

Modelled: store, submission, workers with their local state, composition, life
cycle, heartbeat, worker process, API replica, load generator, the pure rules.
Proved: every safety property of the passing runs but `RedactionIsExact`, each
for all values of the constants its assumptions admit. What could be added:
decoding limits of `shared/images.py`, and requests that take effect after their
caller has given up.
