------------------------------ MODULE LoadGen ------------------------------
(***************************************************************************)
(* The load generator (loadgen/generate.py): uploader threads that take    *)
(* scheduled send times from a queue, a pool of pollers that follow the    *)
(* accepted jobs, and run_load, which joins the one and then drains the    *)
(* other.  The service it drives is the life cycle of a job, JobLifecycle, *)
(* which Pipeline implements; upload i, when accepted, creates job i.      *)
(*                                                                         *)
(* Time is a clock of whole ticks.  A sleep ends and a runnable thread     *)
(* runs before the next tick.  How long a request takes is open: --timeout *)
(* bounds each operation on its socket, not the request.  It ends, one way *)
(* or the other, and RequestMax bounds it in the model only.               *)
(***************************************************************************)
EXTENDS Naturals, Sequences, FiniteSets

CONSTANTS
    Uploaders,     \* upload threads, --concurrency of them
    Pollers,       \* threads of the follow pool, none without --poll
    Total,         \* uploads to make, rate * duration
    Period,        \* ticks between two scheduled uploads, 1 / rate
    RequestMax,    \* bound of the model on the length of a request
    PollTimeout,   \* --poll-timeout, of one followed job
    PollInterval   \* _POLL_INTERVAL_SECONDS

(* main refuses a rate, a duration or a concurrency that is not positive,  *)
(* and run_load makes at least one upload.                                 *)
ASSUME LoadAssumption ==
    /\ IsFiniteSet(Uploaders) /\ Uploaders # {} /\ IsFiniteSet(Pollers)
    /\ Total \in Nat \ {0} /\ PollInterval \in Nat \ {0}
    /\ {Period, RequestMax, PollTimeout} \subseteq Nat

VARIABLES
    now,         \* time.monotonic(), from origin
    taken,       \* items taken off task_queue so far
    upc, task,   \* uploader -> where it is, and the upload it is at
    since,       \* uploader -> when its request started
    counts,      \* Results: "202", any other status, OSErrors, by number
    died,        \* uploaders ended by any other exception
    backlog,     \* follows submitted and not yet picked up
    ppc, job,    \* poller -> where it is, and the job it follows
    deadline,    \* poller -> when it gives the job up
    mark,        \* poller -> start of its request, or end of its sleep
    polls,       \* poller -> requests it has made for this job
    seen,        \* poller -> the status the service read for its request
    during,      \* history: poller -> statuses of its job in this request
    finals,      \* terminal_counts: job -> what its follow came to
    mpc,         \* run_load
    status,      \* the service's records
    settled      \* jobs that have ever been terminal

clientVars  == <<taken, upc, task, since, counts, died>>
followVars  == <<ppc, job, deadline, mark, polls, seen, during, finals>>
pollVars    == <<backlog, followVars>>
serviceVars == <<status, settled>>
loadVars    == <<now, clientVars, pollVars, mpc, serviceVars>>

Tasks    == 1..Total
Terminal == {"COMPLETE", "FAILED"}
Statuses == {"ABSENT", "PENDING", "PROCESSING"} \cup Terminal
Finals   == Terminal \cup {"HTTP_ERROR", "TIMEOUT"}
Never    == Total + 1    \* no task, no job

Service == INSTANCE JobLifecycle WITH Jobs <- Tasks, tracked <- {}

(* Every variable stays in its domain.                                     *)
LoadTypeOK ==
    /\ now \in Nat
    /\ taken \in 0..(Total + Cardinality(Uploaders))
    /\ upc \in [Uploaders -> {"get", "wait", "post", "returned", "raised"}]
    /\ task \in [Uploaders -> 1..Never]
    /\ since \in [Uploaders -> Nat]
    /\ counts \in [{"202", "other", "error"} -> Nat]
    /\ died \in SUBSET Uploaders
    /\ backlog \in Seq(Tasks)
    /\ ppc \in [Pollers -> {"idle", "check", "request", "sleep"}]
    /\ job \in [Pollers -> 1..Never]
    /\ deadline \in [Pollers -> Nat]
    /\ mark \in [Pollers -> Nat]
    /\ polls \in [Pollers -> Nat]
    /\ seen \in [Pollers -> Statuses \cup {"none"}]
    /\ during \in [Pollers -> SUBSET Statuses]
    /\ finals \in [Tasks -> Finals \cup {"NONE", "BROKEN"}]
    /\ mpc \in {"join", "drain", "returned"}
    /\ status \in [Tasks -> Statuses]
    /\ settled \in SUBSET Tasks

LoadInit ==
    /\ now = 0
    /\ taken = 0
    /\ upc = [u \in Uploaders |-> "get"]
    /\ task = [u \in Uploaders |-> Never]
    /\ since = [u \in Uploaders |-> 0]
    /\ counts = [c \in {"202", "other", "error"} |-> 0]
    /\ died = {}
    /\ backlog = <<>>
    /\ ppc = [p \in Pollers |-> "idle"]
    /\ job = [p \in Pollers |-> Never]
    /\ deadline = [p \in Pollers |-> 0]
    /\ mark = [p \in Pollers |-> 0]
    /\ polls = [p \in Pollers |-> 0]
    /\ seen = [p \in Pollers |-> "none"]
    /\ during = [p \in Pollers |-> {}]
    /\ finals = [i \in Tasks |-> "NONE"]
    /\ mpc = "join"
    /\ Service!Init

-----------------------------------------------------------------------------
(* Mutant: a single None for all threads.                                  *)
MutantOneSentinel == Total + 1

(* run_load puts the Total send times and then one None per thread.        *)
QueueLength == Total + Cardinality(Uploaders)
SendTime(i) == (i - 1) * Period

(* Mutant: a get that does not block on an empty queue.                    *)
MutantGetPastEnd(u) ==
    /\ upc[u] = "get"
    /\ taken' = taken + 1
    /\ IF taken < Total
         THEN /\ upc' = [upc EXCEPT ![u] = "wait"]
              /\ task' = [task EXCEPT ![u] = taken + 1]
         ELSE UNCHANGED <<upc, task>>
    /\ UNCHANGED <<now, since, counts, died, pollVars, mpc, serviceVars>>

(* task_queue.get(), which blocks on an empty queue; None ends the thread. *)
GetTask(u) ==
    /\ upc[u] = "get"
    /\ taken < QueueLength
    /\ taken' = taken + 1
    /\ IF taken < Total
         THEN /\ upc' = [upc EXCEPT ![u] = "wait"]
              /\ task' = [task EXCEPT ![u] = taken + 1]
         ELSE upc' = [upc EXCEPT ![u] = "returned"] /\ UNCHANGED task
    /\ UNCHANGED <<now, since, counts, died, pollVars, mpc, serviceVars>>

(* The sleep until the send time, and the start of _post_upload.           *)
Send(u) ==
    /\ upc[u] = "wait"
    /\ now >= SendTime(task[u])
    /\ upc' = [upc EXCEPT ![u] = "post"]
    /\ since' = [since EXCEPT ![u] = now]
    /\ UNCHANGED <<now, taken, task, counts, died, pollVars, mpc, serviceVars>>

(* The thread is through with its upload.                                  *)
EndUpload(u, pc) ==
    /\ upc' = [upc EXCEPT ![u] = pc]
    /\ task' = [task EXCEPT ![u] = Never]
    /\ since' = [since EXCEPT ![u] = 0]
    /\ UNCHANGED <<now, taken, mpc>>

Tally(c) == counts' = [counts EXCEPT ![c] = @ + 1]

(* 202 with a job id: counted, and handed to the pool if there is one.     *)
PostAccepted(u) ==
    /\ upc[u] = "post"
    /\ Service!Submit(task[u])
    /\ Tally("202")
    /\ backlog' = IF Pollers # {} THEN Append(backlog, task[u]) ELSE backlog
    /\ EndUpload(u, "get")
    /\ UNCHANGED <<died, followVars>>

(* Any other status: HTTPError is an answer, counted under its code.       *)
PostRefused(u) ==
    /\ upc[u] = "post"
    /\ Tally("other")
    /\ EndUpload(u, "get")
    /\ UNCHANGED <<died, pollVars, status, settled>>

(* Mutant: a failed connection is skipped and not counted.                 *)
MutantErrorNotCounted(u) ==
    /\ upc[u] = "post"
    /\ Service!Submit(task[u]) \/ UNCHANGED <<status, settled>>
    /\ EndUpload(u, "get")
    /\ UNCHANGED <<counts, died, pollVars>>

(* An OSError, such as a timeout: the service may have made the job.       *)
PostFailed(u) ==
    /\ upc[u] = "post"
    /\ Service!Submit(task[u]) \/ UNCHANGED <<status, settled>>
    /\ Tally("error")
    /\ EndUpload(u, "get")
    /\ UNCHANGED <<died, pollVars>>

(* Anything else (a body that is no JSON, a truncated response) is caught  *)
(* nowhere: the thread is gone, and its upload is in no counter.           *)
PostRaised(u) ==
    /\ upc[u] = "post"
    /\ Service!Submit(task[u]) \/ UNCHANGED <<status, settled>>
    /\ died' = died \cup {u}
    /\ EndUpload(u, "raised")
    /\ UNCHANGED <<counts, pollVars>>

Upload(u) ==
    \/ GetTask(u) \/ Send(u)
    \/ PostAccepted(u) \/ PostRefused(u) \/ PostFailed(u) \/ PostRaised(u)

-----------------------------------------------------------------------------
PollUnchanged == UNCHANGED <<now, clientVars, mpc, serviceVars>>

(* A thread of the pool picks up a follow; only now does the clock of      *)
(* poll_timeout start.                                                     *)
Follow(p) ==
    /\ ppc[p] = "idle"
    /\ backlog # <<>>
    /\ backlog' = Tail(backlog)
    /\ ppc' = [ppc EXCEPT ![p] = "check"]
    /\ job' = [job EXCEPT ![p] = Head(backlog)]
    /\ deadline' = [deadline EXCEPT ![p] = now + PollTimeout]
    /\ UNCHANGED <<mark, polls, seen, during, finals>> /\ PollUnchanged

(* _follow_job records what the poll loop returned and is done.            *)
EndFollow(p, f) ==
    /\ finals' = [finals EXCEPT ![job[p]] = f]
    /\ ppc' = [ppc EXCEPT ![p] = "idle"]
    /\ job' = [job EXCEPT ![p] = Never]
    /\ deadline' = [deadline EXCEPT ![p] = 0]
    /\ mark' = [mark EXCEPT ![p] = 0]
    /\ polls' = [polls EXCEPT ![p] = 0]
    /\ seen' = [seen EXCEPT ![p] = "none"]
    /\ during' = [during EXCEPT ![p] = {}]
    /\ UNCHANGED backlog

(* The request goes out.                                                   *)
Ask(p) ==
    /\ ppc' = [ppc EXCEPT ![p] = "request"]
    /\ mark' = [mark EXCEPT ![p] = now]
    /\ polls' = [polls EXCEPT ![p] = @ + 1]
    /\ during' = [during EXCEPT ![p] = {status[job[p]]}]
    /\ UNCHANGED <<backlog, job, deadline, seen, finals>>

(* Mutant: no look at the deadline.                                        *)
MutantNoDeadline(p) == ppc[p] = "check" /\ Ask(p) /\ PollUnchanged

(* while time.monotonic() < deadline: send the request, or give up.        *)
Check(p) ==
    /\ ppc[p] = "check"
    /\ \/ now < deadline[p] /\ Ask(p)
       \/ now >= deadline[p] /\ EndFollow(p, "TIMEOUT")
    /\ PollUnchanged

(* Mutant: the answer to an abandoned request is left for the next one.    *)
MutantOldAnswer(p) ==
    /\ ppc' = [ppc EXCEPT ![p] = "sleep"]
    /\ mark' = [mark EXCEPT ![p] = now + PollInterval]
    /\ during' = [during EXCEPT ![p] = {}]
    /\ UNCHANGED <<backlog, job, deadline, polls, seen, finals>>

Sleep(p) ==
    /\ ppc' = [ppc EXCEPT ![p] = "sleep"]
    /\ mark' = [mark EXCEPT ![p] = now + PollInterval]
    /\ seen' = [seen EXCEPT ![p] = "none"]
    /\ during' = [during EXCEPT ![p] = {}]
    /\ UNCHANGED <<backlog, job, deadline, polls, finals>>

(* The request has an end: a terminal status that the service read for it  *)
(* ends the follow, however old it is by now; another one, a 404 or an     *)
(* OSError is slept over, any other HTTP error ends it under its code, and *)
(* any other exception is swallowed by the future, unrecorded.             *)
Answer(p) ==
    /\ ppc[p] = "request"
    /\ \/ seen[p] \in Terminal /\ EndFollow(p, seen[p])
       \/ Sleep(p)
       \/ EndFollow(p, "HTTP_ERROR")
       \/ EndFollow(p, "BROKEN")
    /\ PollUnchanged

Wake(p) ==
    /\ ppc[p] = "sleep"
    /\ now >= mark[p]
    /\ ppc' = [ppc EXCEPT ![p] = "check"]
    /\ mark' = [mark EXCEPT ![p] = 0]
    /\ UNCHANGED <<backlog, job, deadline, polls, seen, during, finals>> /\ PollUnchanged

Poll(p) == Follow(p) \/ Check(p) \/ Answer(p) \/ Wake(p)

-----------------------------------------------------------------------------
(* run_load: join every upload thread, take finished_at, then              *)
(* pollers.shutdown(wait=True), which runs what is still submitted.        *)
Join ==
    /\ mpc = "join"
    /\ \A u \in Uploaders : upc[u] \in {"returned", "raised"}
    /\ mpc' = IF Pollers # {} THEN "drain" ELSE "returned"
    /\ UNCHANGED <<now, clientVars, pollVars, serviceVars>>

(* Mutant: shutdown(wait=False).                                           *)
MutantNoWait ==
    /\ mpc = "drain"
    /\ mpc' = "returned"
    /\ UNCHANGED <<now, clientVars, pollVars, serviceVars>>

Drain ==
    /\ mpc = "drain"
    /\ backlog = <<>> /\ \A p \in Pollers : ppc[p] = "idle"
    /\ mpc' = "returned"
    /\ UNCHANGED <<now, clientVars, pollVars, serviceVars>>

(* The service reads the record for a request, some time after it was sent *)
(* and some time before the answer is there.                               *)
Respond(p) ==
    /\ ppc[p] = "request" /\ seen[p] = "none"
    /\ seen' = [seen EXCEPT ![p] = status[job[p]]]
    /\ UNCHANGED <<now, clientVars, backlog, ppc, job, deadline, mark, polls, during, finals,
                   mpc, serviceVars>>

(* It moves the jobs it has on, at its own pace.                           *)
Serve(i) ==
    /\ mpc # "returned"
    /\ \/ Service!Start(i)
       \/ \E s \in Terminal : Service!Settle(i, s)
    /\ during' = [p \in Pollers |->
                     IF ppc[p] = "request" /\ job[p] = i THEN during[p] \cup {status'[i]}
                                                        ELSE during[p]]
    /\ UNCHANGED <<now, clientVars, backlog, ppc, job, deadline, mark, polls, seen, finals, mpc>>

(* A tick, when nobody has anything left to do at this moment.             *)
Runnable(u) ==
    \/ upc[u] = "get" /\ taken < QueueLength
    \/ upc[u] = "wait" /\ now >= SendTime(task[u])
    \/ upc[u] = "post" /\ now >= since[u] + RequestMax

PollRunnable(p) ==
    \/ ppc[p] = "idle" /\ backlog # <<>>
    \/ ppc[p] = "check"
    \/ ppc[p] = "request" /\ now >= mark[p] + RequestMax
    \/ ppc[p] = "sleep" /\ now >= mark[p]

LoadTick ==
    /\ mpc # "returned"
    /\ \/ \E u \in Uploaders : upc[u] \in {"wait", "post"}
       \/ \E p \in Pollers : ppc[p] # "idle"
    /\ \A u \in Uploaders : ~Runnable(u)
    /\ \A p \in Pollers : ~PollRunnable(p)
    /\ now' = now + 1
    /\ UNCHANGED <<clientVars, pollVars, mpc, serviceVars>>

LoadNext ==
    \/ \E u \in Uploaders : Upload(u)
    \/ \E p \in Pollers : Poll(p) \/ Respond(p)
    \/ Join \/ Drain \/ LoadTick
    \/ \E i \in Tasks : Serve(i)

LoadSpec == LoadInit /\ [][LoadNext]_loadVars

(* Threads run, requests end and time passes; nothing is assumed of the    *)
(* service, which may answer none and leave every job where it is.         *)
LoadFairness ==
    /\ \A u \in Uploaders : WF_loadVars(Upload(u))
    /\ \A p \in Pollers : WF_loadVars(Poll(p))
    /\ WF_loadVars(Join) /\ WF_loadVars(Drain) /\ WF_loadVars(LoadTick)

LoadLiveSpec == LoadSpec /\ LoadFairness

-----------------------------------------------------------------------------
Busy      == {u \in Uploaders : upc[u] \in {"wait", "post"}}
Following == {p \in Pollers : ppc[p] # "idle"}
Recorded  == {i \in Tasks : finals[i] # "NONE"}

(* Results.total_requests                                                  *)
TotalRequests == counts["202"] + counts["other"] + counts["error"]

Attempted == IF taken < Total THEN taken ELSE Total

(* However the threads share the queue, no upload is made twice or passed  *)
(* over: each one taken is under way, in one counter, or went with its     *)
(* thread; and none is left when run_load goes on, unless no thread is.    *)
AttemptsAccounted ==
    /\ TotalRequests + Cardinality(died) + Cardinality(Busy) = Attempted
    /\ mpc # "join" /\ died # Uploaders => Attempted = Total

(* "follows each job to a terminal state" (generate.py 4-5): each accepted *)
(* job waits for a poller, has one, or its one follow is over, with a      *)
(* final entry or a swallowed exception; when run_load returns all of them *)
(* are over (227-231, 289-291).                                            *)
FollowsAccounted ==
    Pollers # {} =>
        /\ counts["202"] = Cardinality(Recorded) + Len(backlog) + Cardinality(Following)
        /\ \A p \in Following : job[p] \notin Recorded
        /\ mpc = "returned" => counts["202"] = Cardinality(Recorded)

(* "The final status seen" (generate.py 169-170): a job is reported        *)
(* COMPLETE or FAILED only if its record said so at some time during the   *)
(* request that ended the follow.  By the time the answer is there it may  *)
(* say something else, and an earlier answer may have been lost.           *)
ReportedWasCurrent ==
    [][\A p \in Pollers :
          ppc[p] = "request" /\ ppc'[p] = "idle" /\ finals'[job[p]] \in Terminal =>
              finals'[job[p]] \in during[p]]_loadVars

(* --poll-timeout, "Give up on a single job after this many seconds"       *)
(* (generate.py 378), as far as it goes, whatever a request takes: none is *)
(* begun at or after the deadline, and as each is followed by a sleep, a   *)
(* job is asked for no more often than the two together allow.             *)
FollowIsBounded ==
    \A p \in Following :
        /\ ppc[p] = "request" => mark[p] < deadline[p]
        /\ polls[p] * PollInterval < PollTimeout + PollInterval

(* A load run that has begun returns, although threads may die, requests   *)
(* may all fail and the service may never finish a job.                    *)
RunReturns == taken > 0 ~> mpc = "returned"

-----------------------------------------------------------------------------
(* Statements of the repository that the code does not keep.               *)

(* "Total upload attempts, including failures" (generate.py 83).           *)
TotalIsAttempts == mpc # "join" => TotalRequests = Attempted
=============================================================================
