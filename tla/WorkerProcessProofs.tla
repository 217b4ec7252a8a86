------------------------ MODULE WorkerProcessProofs ------------------------
(***************************************************************************)
(* The shutdown of a worker for every grace period, receive, job length    *)
(* and backoff.                                                            *)
(***************************************************************************)
EXTENDS WorkerProcess, TLAPS

RoundInv == pc = "backoff" => round < Rounds

(* A signal is pending or handled only in a process that has come past its *)
(* dependency wait, and the flag is set exactly by the handler; a worker   *)
(* that polls has received nothing since; a process has a reason to be     *)
(* gone only once it is gone.                                              *)
StopInv ==
    /\ exit # "running" => pc = "exited"
    /\ signal \in {"pending", "handled"} => Started \/ pc = "exited"
    /\ stopping => signal = "handled"
    /\ pc = "polling" => lateJobs = 0
    /\ pc \in {"probing", "backoff"} => lateJobs = 0
    /\ pc = "handling" /\ ~stopping => lateJobs = 0
    /\ lateJobs <= 1

Inv == TypeOK /\ RoundInv /\ StopInv

(* The state of the process is well formed at every moment of its life,    *)
(* whatever order probes, polls, jobs and signals come in.                 *)
THEOREM ProcessInvariant == Spec => [](TypeOK /\ RoundInv /\ StopInv)
<1> USE ProcessAssumption DEF Inv, TypeOK, RoundInv, StopInv, Off, Started, Activities, stopVars, exitVars
<1>1. Init => Inv
  <2> SUFFICES ASSUME Init PROVE Inv
    OBVIOUS
  <2>1. /\ watchdog \in Off..Grace /\ kill \in Off..KillAfter
        /\ pendingFor \in 0..HandlerDelay /\ timer \in Nat /\ round \in 1..Rounds
        /\ lateJobs \in Nat /\ lateJobs <= 1
    BY DEF Init
  <2> QED BY <2>1 DEF Init
<1>2. Inv /\ [Next]_vars => Inv'
  <2> SUFFICES ASSUME Inv, [Next]_vars PROVE Inv'
    OBVIOUS
  <2> USE DEF Goto, Exit, LoopAgain
  <2>1. CASE ProbeReady          BY <2>1 DEF ProbeReady
  <2>2. CASE ProbeFails          BY <2>2 DEF ProbeFails
  <2>3. CASE BackoffOver         BY <2>3 DEF BackoffOver
  <2>4. CASE PollReturnsMessage  BY <2>4 DEF PollReturnsMessage
  <2>5. CASE PollReturnsNothing  BY <2>5 DEF PollReturnsNothing
  <2>6. CASE JobDone             BY <2>6 DEF JobDone
  <2>7. CASE Sigterm             BY <2>7 DEF Sigterm
  <2>8. CASE HandleSignal        BY <2>8 DEF HandleSignal, Handle
  <2>9. CASE WatchdogFires       BY <2>9 DEF WatchdogFires
  <2>10. CASE Sigkill            BY <2>10 DEF Sigkill
  <2>11. CASE Tick               BY <2>11 DEF Tick, Count
  <2>12. CASE UNCHANGED vars     BY <2>12 DEF vars
  <2> QED BY <2>1, <2>2, <2>3, <2>4, <2>5, <2>6, <2>7, <2>8, <2>9, <2>10, <2>11, <2>12
          DEF Next
<1> QED BY <1>1, <1>2, PTL DEF Spec

(* After the stop is requested at most one more message is taken on.       *)
THEOREM OneLateJob == Spec => []AtMostOneLateJob
<1>1. StopInv => AtMostOneLateJob
  BY DEF StopInv, AtMostOneLateJob
<1> QED BY <1>1, ProcessInvariant, PTL

(* One step keeps the kubelet's clock behind the watchdog's.               *)
LEMMA ClockStep ==
    ASSUME RoomForWatchdog, TypeOK, StopInv, ClockInv, [Next]_vars
    PROVE  ClockInv'
<1> USE ProcessAssumption DEF TypeOK, StopInv, ClockInv, Off, Started, Goto, Exit, LoopAgain,
        Activities, stopVars, exitVars
<1>1. CASE \/ ProbeReady \/ ProbeFails \/ BackoffOver
           \/ PollReturnsMessage \/ PollReturnsNothing \/ JobDone
           \/ WatchdogFires \/ Sigkill
  BY <1>1 DEF ProbeReady, ProbeFails, BackoffOver, PollReturnsMessage,
     PollReturnsNothing, JobDone, WatchdogFires, Sigkill
<1>2. CASE Sigterm
  BY <1>2 DEF Sigterm
<1>3. CASE HandleSignal
  BY <1>3 DEF HandleSignal, Handle, RoomForWatchdog
<1>4. CASE Tick
  BY <1>4 DEF Tick, Count, RoomForWatchdog
<1>5. CASE UNCHANGED vars
  BY <1>5 DEF vars
<1> QED BY <1>1, <1>2, <1>3, <1>4, <1>5 DEF Next

(* The kubelet's clock is behind the watchdog's for as long as it runs.    *)
THEOREM ClockBehind ==
    ASSUME RoomForWatchdog
    PROVE  Spec => []ClockInv
<1>1. Init => ClockInv
  BY DEF Init, ClockInv
<1>2. TypeOK /\ StopInv /\ ClockInv /\ [Next]_vars => ClockInv'
  BY ClockStep
<1> QED BY <1>1, <1>2, ProcessInvariant, PTL DEF Spec

(* A SIGTERM that finds the handlers installed never ends in SIGKILL, when *)
(* the pod's termination period exceeds the grace period by more than the  *)
(* longest time the main thread cannot run a handler.                      *)
THEOREM WatchdogInTime ==
    ASSUME RoomForWatchdog
    PROVE  Spec => []KilledOnlyIfDropped
<1>1. Init => KilledOnlyIfDropped
  BY DEF Init, KilledOnlyIfDropped
<1>2. TypeOK /\ ClockInv /\ KilledOnlyIfDropped /\ [Next]_vars => KilledOnlyIfDropped'
  <2> SUFFICES ASSUME TypeOK, ClockInv, KilledOnlyIfDropped, [Next]_vars
               PROVE  KilledOnlyIfDropped'
    OBVIOUS
  <2>1. CASE Sigkill
    <3>1. signal = "dropped"
      BY <2>1, ProcessAssumption DEF Sigkill, ClockInv, TypeOK, Off, RoomForWatchdog
    <3> QED BY <2>1, <3>1 DEF Sigkill, Exit, stopVars, KilledOnlyIfDropped
  <2>2. CASE ~Sigkill
    <3>1. exit' = "sigkill" =>
            exit = "sigkill" /\ (signal' = signal \/ signal \in {"none", "pending"})
      BY <2>2 DEF Next, vars, stopVars, exitVars, Goto, Exit, LoopAgain, ProbeReady,
         ProbeFails, BackoffOver, PollReturnsMessage, PollReturnsNothing, JobDone,
         Sigterm, HandleSignal, Handle, WatchdogFires, Tick
    <3> QED BY <3>1 DEF KilledOnlyIfDropped
  <2> QED BY <2>1, <2>2
<1> QED BY <1>1, <1>2, ClockBehind, ProcessInvariant, PTL DEF Spec

(* While a stop is under way and nothing was received since, the watchdog  *)
(* has run no longer than the job it interrupted; the exception is a job   *)
(* that arrives with the receive in flight, which starts afresh.           *)
CutInv ==
    /\ pc = "handling" => timer <= JobMax
    /\ watchdog # Off => stopping
    /\ pc = "handling" /\ stopping /\ lateJobs = 0 => watchdog >= Grace - timer

(* A step keeps the watchdog behind the job it interrupted.                *)
LEMMA CutStep ==
    ASSUME TypeOK, StopInv, CutInv, [Next]_vars
    PROVE  CutInv'
<1> USE ProcessAssumption DEF TypeOK, StopInv, CutInv, Off, Started, Goto, Exit, LoopAgain,
        Activities, stopVars, exitVars
<1>1. CASE ProbeReady \/ ProbeFails \/ BackoffOver \/ WatchdogFires \/ Sigkill
  BY <1>1 DEF ProbeReady, ProbeFails, BackoffOver, WatchdogFires, Sigkill
<1>2. CASE PollReturnsMessage
  BY <1>2 DEF PollReturnsMessage
<1>3. CASE PollReturnsNothing \/ JobDone
  BY <1>3 DEF PollReturnsNothing, JobDone
<1>4. CASE Sigterm
  BY <1>4 DEF Sigterm
<1>5. CASE HandleSignal
  BY <1>5 DEF HandleSignal, Handle
<1>6. CASE Tick
  BY <1>6 DEF Tick, Count
<1>7. CASE UNCHANGED vars
  BY <1>7 DEF vars
<1> QED BY <1>1, <1>2, <1>3, <1>4, <1>5, <1>6, <1>7 DEF Next

(* A job shorter than the grace period is never cut by the watchdog unless *)
(* it arrived after the stop was requested, whatever a receive takes.      *)
THEOREM ShortJobsFinish == Spec => []OnlyLateJobsAreCut
<1> DEFINE Safe == CutInv /\ OnlyLateJobsAreCut
<1>1. Init => Safe
  BY ProcessAssumption DEF Init, CutInv, OnlyLateJobsAreCut, Started, Off
<1>2. TypeOK /\ StopInv /\ Safe /\ [Next]_vars => Safe'
  <2> SUFFICES ASSUME TypeOK, StopInv, Safe, [Next]_vars PROVE Safe'
    OBVIOUS
  <2>1. CutInv'
    BY CutStep
  <2>2. CASE WatchdogFires
    <3>1. JobMax < Grace /\ pc = "handling" => lateJobs = 1
      BY <2>2, ProcessAssumption DEF WatchdogFires, CutInv, TypeOK, StopInv, Started, Off
    <3> QED BY <2>1, <2>2, <3>1 DEF WatchdogFires, Exit, OnlyLateJobsAreCut
  <2>3. CASE ~WatchdogFires
    <3>1. exit' = "grace_exceeded" =>
            /\ exit = "grace_exceeded"
            /\ (lateJobs' = lateJobs /\ endedIn' = endedIn) \/ pc # "exited"
      BY <2>3 DEF Next, vars, stopVars, exitVars, Goto, Exit, LoopAgain, ProbeReady,
         ProbeFails, BackoffOver, PollReturnsMessage, PollReturnsNothing, JobDone,
         Sigterm, HandleSignal, Handle, Sigkill, Tick
    <3> QED BY <2>1, <3>1 DEF OnlyLateJobsAreCut, StopInv
  <2> QED BY <2>2, <2>3
<1> QED BY <1>1, <1>2, ProcessInvariant, PTL DEF Spec
=============================================================================
