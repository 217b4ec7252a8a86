--------------------------- MODULE WorkerProcess ---------------------------
(***************************************************************************)
(* The life of one worker process (worker/main.py run, build_worker,       *)
(* install_signal_handlers, _force_exit; Worker.run, run_once,             *)
(* request_stop; shared/aws.py wait_for_dependencies), under the orders of *)
(* Kubernetes: SIGTERM once, SIGKILL when terminationGracePeriodSeconds    *)
(* are over.  Discrete time.                                               *)
(*                                                                         *)
(* The process is PID 1 of its container, where a signal without a handler *)
(* is dropped; Python runs a handler in the main thread, once the C call   *)
(* that thread is in (an image decode, say) is over.                       *)
(***************************************************************************)
EXTENDS Integers

CONSTANTS
    Grace,        \* SHUTDOWN_GRACE_SECONDS, the watchdog's delay
    KillAfter,    \* terminationGracePeriodSeconds
    ReceiveMax,   \* longest receive: the long poll, its retries and backoff
    JobMax,       \* longest handling of one message
    HandlerDelay, \* longest C call of the main thread
    ProbeMax,     \* longest round of dependency probes
    Rounds,       \* attempts of wait_for_dependencies
    BaseDelay, MaxDelay   \* its backoff

ASSUME ProcessAssumption ==
    /\ Grace \in Nat /\ KillAfter \in Nat /\ ReceiveMax \in Nat
    /\ JobMax \in Nat /\ HandlerDelay \in Nat /\ ProbeMax \in Nat
    /\ Rounds \in Nat \ {0} /\ BaseDelay \in Nat /\ MaxDelay \in Nat

VARIABLES
    pc,        \* "probing", "backoff", "polling", "handling", "exited"
    timer,     \* time in the current activity
    round,     \* round of wait_for_dependencies
    signal,    \* SIGTERM: "none", "pending", "dropped", "handled"
    pendingFor, \* time the signal has waited for the main thread
    stopping,  \* Worker._stopping
    watchdog,  \* time until _force_exit, Off when the timer is not running
    kill,      \* time until SIGKILL, Off before SIGTERM
    lateJobs,  \* history: messages received after the stop was requested
    exit,      \* why the process is gone
    endedIn    \* history: what it was in when it went

stopVars == <<signal, pendingFor, stopping, watchdog, kill>>
exitVars == <<exit, endedIn>>
vars == <<pc, timer, round, stopVars, lateJobs, exitVars>>

Off == -1
Started == pc \in {"polling", "handling"}

(* delay = min(max_delay, base_delay * 2 ** (attempt - 1)).                *)
Backoff(k) == LET d == BaseDelay * 2^(k - 1) IN IF d < MaxDelay THEN d ELSE MaxDelay

Activities == {"probing", "backoff", "polling", "handling"}

TypeOK ==
    /\ pc \in Activities \cup {"exited"}
    /\ timer \in Nat /\ round \in 1..Rounds
    /\ signal \in {"none", "pending", "dropped", "handled"}
    /\ pendingFor \in 0..HandlerDelay
    /\ stopping \in BOOLEAN
    /\ watchdog \in Off..Grace /\ kill \in Off..KillAfter
    /\ lateJobs \in Nat
    /\ exit \in {"running", "stopped", "grace_exceeded", "no_dependencies", "sigkill"}
    /\ endedIn \in Activities \cup {"none"}

Init ==
    /\ pc = "probing" /\ timer = 0 /\ round = 1
    /\ signal = "none" /\ pendingFor = 0
    /\ stopping = FALSE /\ watchdog = Off /\ kill = Off
    /\ lateJobs = 0 /\ exit = "running" /\ endedIn = "none"

Exit(why) ==
    /\ pc' = "exited" /\ exit' = why /\ endedIn' = pc
    /\ UNCHANGED <<timer, round, stopVars, lateJobs>>

Goto(where) == pc' = where /\ timer' = 0

-----------------------------------------------------------------------------
(* wait_for_dependencies: a round of ReadinessProbe.run.  When it finds    *)
(* everything reachable the handlers are installed and the loop starts;    *)
(* after the last failing round run() returns.                             *)
ProbeReady ==
    /\ pc = "probing"
    /\ Goto("polling")
    /\ UNCHANGED <<round, stopVars, lateJobs, exitVars>>

(* Mutant: one round too many.                                             *)
MutantOneMoreRound ==
    /\ pc = "probing"
    /\ \/ round <= Rounds /\ Goto("backoff")
          /\ UNCHANGED <<round, stopVars, lateJobs, exitVars>>
       \/ round > Rounds /\ Exit("no_dependencies")

ProbeFails ==
    /\ pc = "probing"
    /\ \/ round < Rounds /\ Goto("backoff")
          /\ UNCHANGED <<round, stopVars, lateJobs, exitVars>>
       \/ round = Rounds /\ Exit("no_dependencies")

BackoffOver ==
    /\ pc = "backoff" /\ timer >= Backoff(round)
    /\ Goto("probing") /\ round' = round + 1
    /\ UNCHANGED <<stopVars, lateJobs, exitVars>>

(* run_once: queue.receive returns a message, at the first attempt or a    *)
(* later one of call_with_retry, and it is handled whatever the flag says  *)
(* by now ...                                                              *)
PollReturnsMessage ==
    /\ pc = "polling"
    /\ Goto("handling")
    /\ lateJobs' = IF stopping THEN lateJobs + 1 ELSE lateJobs
    /\ UNCHANGED <<round, stopVars, exitVars>>

(* Mutant: the loop looks at the flag only after an empty poll.            *)
MutantLoopIgnoresStop ==
    /\ pc = "handling"
    /\ Goto("polling")
    /\ UNCHANGED <<round, stopVars, lateJobs, exitVars>>

(* ... or none, or raises, which is slept over.  Then, and after a         *)
(* message, the loop looks at the flag.                                    *)
LoopAgain ==
    /\ \/ stopping /\ Exit("stopped")
       \/ /\ ~stopping
          /\ Goto("polling")
          /\ UNCHANGED <<round, stopVars, lateJobs, exitVars>>

PollReturnsNothing == pc = "polling" /\ LoopAgain
JobDone            == pc = "handling" /\ LoopAgain

-----------------------------------------------------------------------------
(* Kubernetes terminates the pod.  Before the handlers are installed the   *)
(* signal is dropped, and nothing remembers it.                            *)
Sigterm ==
    /\ signal = "none" /\ pc # "exited"
    /\ signal' = IF Started THEN "pending" ELSE "dropped"
    /\ kill' = KillAfter
    /\ UNCHANGED <<pc, timer, round, pendingFor, stopping, watchdog, lateJobs, exitVars>>

(* handle(): request_stop and the watchdog timer.                          *)
Handle(delay) ==
    /\ signal = "pending" /\ Started
    /\ signal' = "handled" /\ stopping' = TRUE
    /\ watchdog' = delay
    /\ UNCHANGED <<pc, timer, round, pendingFor, kill, lateJobs, exitVars>>

(* Mutants: the watchdog is only started for an idle worker; it allows for *)
(* a receive on top of the grace period; it allows for less than that.     *)
MutantNoWatchdog    == Handle(IF pc = "handling" THEN Off ELSE Grace)
MutantLongWatchdog  == Handle(Grace + ReceiveMax)
MutantShortWatchdog == Handle(Grace - 1)

HandleSignal == Handle(Grace)

(* _force_exit, in the timer's thread.                                     *)
WatchdogFires == pc # "exited" /\ watchdog = 0 /\ Exit("grace_exceeded")

Sigkill == pc # "exited" /\ kill = 0 /\ Exit("sigkill")

Count(t) == IF t = Off THEN Off ELSE t - 1

(* Time passes until something is due.  A receive with all its attempts    *)
(* ends within ReceiveMax, a job within JobMax.                            *)
Tick ==
    /\ pc # "exited" /\ watchdog # 0 /\ kill # 0
    /\ pc = "probing" => timer < ProbeMax
    /\ pc = "backoff" => timer < Backoff(round)
    /\ pc = "polling" => timer < ReceiveMax
    /\ pc = "handling" => timer < JobMax
    /\ signal = "pending" => pendingFor < HandlerDelay
    /\ timer' = timer + 1
    /\ watchdog' = Count(watchdog) /\ kill' = Count(kill)
    /\ pendingFor' = IF signal = "pending" THEN pendingFor + 1 ELSE pendingFor
    /\ UNCHANGED <<pc, round, signal, stopping, lateJobs, exitVars>>

Next ==
    \/ ProbeReady \/ ProbeFails \/ BackoffOver
    \/ PollReturnsMessage \/ PollReturnsNothing \/ JobDone
    \/ Sigterm \/ HandleSignal \/ WatchdogFires \/ Sigkill \/ Tick

Spec == Init /\ [][Next]_vars

-----------------------------------------------------------------------------
(* "A watchdog forces exit once SHUTDOWN_GRACE_SECONDS has elapsed, so the *)
(* pod never has to be SIGKILLed" (README 496-497), where it holds: for a  *)
(* SIGTERM that finds the handlers installed, if terminationGracePeriod    *)
(* leaves the grace period and the longest C call to the process.          *)
KilledOnlyIfDropped == exit = "sigkill" => signal = "dropped"

RoomForWatchdog == KillAfter > HandlerDelay + Grace

(* What carries it: the kubelet's clock is behind the watchdog's.          *)
ClockInv ==
    /\ signal = "none"    => kill = Off /\ pendingFor = 0
    /\ signal = "pending" => kill = KillAfter - pendingFor
    /\ signal = "handled" => 0 <= watchdog /\ watchdog < kill
    /\ signal # "handled" => watchdog = Off

(* request_stop lets the loop finish what it has: of the messages received *)
(* after it there is at most one, the answer of the poll in flight.        *)
AtMostOneLateJob == lateJobs <= 1

(* A job shorter than the grace period is finished, not cut by the         *)
(* watchdog, if the worker had it when it was asked to stop: a job that is *)
(* cut came with the receive in flight, however long that one took.        *)
OnlyLateJobsAreCut ==
    JobMax < Grace =>
        (exit = "grace_exceeded" /\ endedIn = "handling" => lateJobs = 1)

(* README 496-497, as it stands.                                           *)
NeverSigkilled == exit # "sigkill"
=============================================================================
