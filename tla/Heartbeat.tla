----------------------------- MODULE Heartbeat -----------------------------
(***************************************************************************)
(* VisibilityHeartbeat (worker/heartbeat.py): the thread that pushes out   *)
(* the visibility deadline of the message whose job is being rendered.     *)
(* Discrete time; two threads, the handler and the heartbeat, and the      *)
(* message's clock in SQS.                                                 *)
(*                                                                         *)
(* The heartbeat covers the render only.  The calls before it (get_job,    *)
(* mark_processing) live on what is left of the queue's own timeout.       *)
(***************************************************************************)
EXTENDS Integers

CONSTANTS
    Visibility,        \* the queue's VisibilityTimeout
    interval_seconds,  \* as passed to the constructor
    extension_seconds,
    CallMax,           \* longest change_visibility call, retries included
    BeforeMax,         \* longest time from the receive to the start
    MaxFailures        \* failed calls in a row

ASSUME TimesAssumption ==
    /\ Visibility \in Nat /\ interval_seconds \in Nat /\ extension_seconds \in Nat
    /\ CallMax \in Nat /\ BeforeMax \in Nat /\ MaxFailures \in {0, 1}

Max2(a, b) == IF a >= b THEN a ELSE b

(* __init__ normalises what it is given.                                   *)
Interval  == Max2(1, interval_seconds)
Extension == Max2(2 * Interval, extension_seconds)

VARIABLES
    phase,      \* the handler: "before", "rendering", "joining", "after"
    left,       \* time until SQS shows the message again, 0: it is visible
    thread,     \* the heartbeat: "off", "waiting", "calling"
    clock,      \* waiting: time to the next call; calling: time in the call
    failures,   \* calls that failed in a row
    joined      \* time the handler has waited in join

heartbeatVars == <<phase, left, thread, clock, failures, joined>>

HeartbeatTypeOK ==
    /\ phase \in {"before", "rendering", "joining", "after"}
    /\ left \in 0..Max2(Visibility, Extension)
    /\ thread \in {"off", "waiting", "calling"}
    /\ clock \in 0..Max2(Max2(Interval, CallMax), BeforeMax)
    /\ failures \in 0..MaxFailures
    /\ joined \in 0..(Interval + 1)

(* The message has just been received; clock counts the time before start. *)
HeartbeatInit ==
    /\ phase = "before" /\ left = Visibility
    /\ thread = "off" /\ clock = 0
    /\ failures = 0 /\ joined = 0

(* The stop event is set as long as the handler is past the render.        *)
Stopped == phase \in {"joining", "after"}

-----------------------------------------------------------------------------
(* __enter__ and start.                                                    *)
Start ==
    /\ phase = "before"
    /\ phase' = "rendering"
    /\ thread' = "waiting" /\ clock' = Interval
    /\ UNCHANGED <<left, failures, joined>>

(* _loop: stop.wait(interval) times out and the extension is requested;    *)
(* when the event is set it returns and the thread ends.                   *)
BeginCall ==
    /\ thread = "waiting" /\ clock = 0 /\ ~Stopped
    /\ thread' = "calling" /\ clock' = 0
    /\ UNCHANGED <<phase, left, failures, joined>>

(* Mutant: the loop never looks at the event.                              *)
MutantLoopGoesOn ==
    /\ FALSE
    /\ UNCHANGED heartbeatVars

LoopEnds ==
    /\ thread = "waiting" /\ Stopped
    /\ thread' = "off" /\ clock' = 0
    /\ UNCHANGED <<phase, left, failures, joined>>

(* Mutant: the extension is taken to be added to what is left.             *)
MutantExtendAdds ==
    /\ thread = "calling" /\ left > 0
    /\ left' = left + Extension
    /\ thread' = "waiting" /\ clock' = Interval
    /\ failures' = 0
    /\ UNCHANGED <<phase, joined>>

(* Mutant: the deadline is moved by the interval, not by the extension.    *)
MutantExtendByInterval ==
    /\ thread = "calling" /\ left > 0
    /\ left' = Interval
    /\ thread' = "waiting" /\ clock' = Interval
    /\ failures' = 0
    /\ UNCHANGED <<phase, joined>>

(* change_visibility returns.  SQS refuses it for a message that is        *)
(* visible again, so an extension is only ever granted in time.            *)
CallSucceeds ==
    /\ thread = "calling" /\ left > 0
    /\ left' = Extension
    /\ thread' = "waiting" /\ clock' = Interval
    /\ failures' = 0
    /\ UNCHANGED <<phase, joined>>

(* Mutant: the exception ends the loop.                                    *)
MutantFailureEndsLoop ==
    /\ thread = "calling" /\ failures < MaxFailures
    /\ thread' = "off" /\ clock' = 0
    /\ failures' = failures + 1
    /\ UNCHANGED <<phase, left, joined>>

(* It raises, applied or not; the loop logs it and goes on.                *)
CallFails ==
    /\ thread = "calling" /\ failures < MaxFailures
    /\ left' \in {left} \cup (IF left > 0 THEN {Extension} ELSE {})
    /\ thread' = "waiting" /\ clock' = Interval
    /\ failures' = failures + 1
    /\ UNCHANGED <<phase, joined>>

(* __exit__ and stop: set the event, join for at most interval + 1.        *)
RenderEnds ==
    /\ phase = "rendering"
    /\ phase' = "joining" /\ joined' = 0
    /\ UNCHANGED <<left, thread, clock, failures>>

JoinReturns ==
    /\ phase = "joining"
    /\ thread = "off" \/ joined = Interval + 1
    /\ phase' = "after"
    /\ UNCHANGED <<left, thread, clock, failures, joined>>

(* Time passes until the next thing is due.                                *)
HeartbeatTick ==
    /\ phase = "before"  => clock < BeforeMax
    /\ thread = "waiting" => clock > 0 /\ ~Stopped
    /\ thread = "calling" => clock < CallMax
    /\ phase = "joining" => thread # "off" /\ joined <= Interval
    /\ phase = "after"   => thread # "off"
    /\ left' = Max2(left - 1, 0)
    /\ clock' = CASE thread = "waiting" -> clock - 1
                  [] thread = "calling" \/ phase = "before" -> clock + 1
                  [] OTHER -> clock
    /\ joined' = IF phase = "joining" THEN joined + 1 ELSE joined
    /\ UNCHANGED <<phase, thread, failures>>

HeartbeatNext ==
    \/ Start \/ BeginCall \/ LoopEnds \/ CallSucceeds \/ CallFails
    \/ RenderEnds \/ JoinReturns \/ HeartbeatTick

HeartbeatSpec == HeartbeatInit /\ [][HeartbeatNext]_heartbeatVars

(* Time passes and both threads are scheduled.  The render may take for    *)
(* ever, but a call ends one way or the other.                             *)
HeartbeatFairness ==
    /\ WF_heartbeatVars(HeartbeatTick) /\ WF_heartbeatVars(BeginCall)
    /\ WF_heartbeatVars(LoopEnds) /\ WF_heartbeatVars(JoinReturns)
    /\ WF_heartbeatVars(CallSucceeds \/ CallFails)

HeartbeatLiveSpec == HeartbeatSpec /\ HeartbeatFairness

-----------------------------------------------------------------------------
(* "Comfortably more than the interval so one failed call does not lose    *)
(* the message" (heartbeat.py 30-31): nobody else is given the message     *)
(* while its job is being rendered and until stop() has returned.          *)
HeldWhileRendering == phase \in {"rendering", "joining"} => left > 0

(* What that needs: both the queue's timeout and the extension leave room  *)
(* for two intervals and two calls.                                        *)
RoomForOneFailure ==
    /\ Visibility > BeforeMax + 2 * (Interval + CallMax)
    /\ Extension > 2 * (Interval + CallMax)

(* The time until the next granted extension, if the calls to come are as  *)
(* slow as they may be and as many of them fail as may fail.               *)
Due == (IF thread = "waiting" THEN clock + CallMax ELSE CallMax - clock)
       + (IF failures = 0 THEN Interval + CallMax ELSE 0)

(* The inductive form: during the render the message has more time left    *)
(* than that, and in join it outlives the call in flight.                  *)
DeadlineInv ==
    /\ phase = "before" => thread = "off" /\ failures = 0 /\ left >= Visibility - clock
    /\ phase = "rendering" => thread # "off" /\ left > Due
    /\ phase = "joining" => left > (IF thread = "calling" THEN CallMax - clock ELSE 0)

(* stop() gives the thread up after interval + 1, but the thread does not  *)
(* outlive the call it is in: it ends, and no job leaks a heartbeat.       *)
ThreadEnds == phase = "joining" ~> thread = "off"
=============================================================================
