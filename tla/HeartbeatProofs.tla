-------------------------- MODULE HeartbeatProofs --------------------------
(***************************************************************************)
(* For every interval, extension, call length and queue timeout that leave *)
(* room for one failed call, the message stays invisible while its job is  *)
(* rendered.                                                               *)
(***************************************************************************)
EXTENDS Heartbeat, TLAPS

(* The constructor's normalisation: a positive interval, and an extension  *)
(* of at least two of them.                                                *)
LEMMA Normalised ==
    Interval \in Nat /\ Interval >= 1 /\ Extension \in Nat /\ Extension >= 2 * Interval
BY TimesAssumption DEF Interval, Extension, Max2

LEMMA BoundsAreNat ==
    /\ Max2(Visibility, Extension) \in Nat
    /\ Max2(Visibility, Extension) >= Visibility
    /\ Max2(Visibility, Extension) >= Extension
    /\ Max2(Max2(Interval, CallMax), BeforeMax) \in Nat
    /\ Max2(Max2(Interval, CallMax), BeforeMax) >= Interval
    /\ Max2(Max2(Interval, CallMax), BeforeMax) >= CallMax
    /\ Max2(Max2(Interval, CallMax), BeforeMax) >= BeforeMax
BY TimesAssumption, Normalised DEF Max2

(* While the handler is before the render the thread is off, and the clock *)
(* of each thread state has its own bound: what keeps it in its domain.    *)
TimerInv ==
    /\ phase = "before" => thread = "off" /\ clock <= BeforeMax
    /\ thread = "waiting" => clock <= Interval
    /\ thread = "calling" => clock <= CallMax

(* The timers of the heartbeat never run past what is waited for, and the  *)
(* message never has more time left than a receive or an extension gives.  *)
THEOREM TypeCorrect == HeartbeatSpec => [](HeartbeatTypeOK /\ TimerInv)
<1> USE TimesAssumption, Normalised, BoundsAreNat DEF HeartbeatTypeOK, TimerInv
<1>1. HeartbeatInit => HeartbeatTypeOK /\ TimerInv
  BY DEF HeartbeatInit
<1>2. HeartbeatTypeOK /\ TimerInv /\ [HeartbeatNext]_heartbeatVars => (HeartbeatTypeOK /\ TimerInv)'
  <2> SUFFICES ASSUME HeartbeatTypeOK, TimerInv, [HeartbeatNext]_heartbeatVars
               PROVE  (HeartbeatTypeOK /\ TimerInv)'
    OBVIOUS
  <2>1. CASE Start        BY <2>1 DEF Start
  <2>2. CASE BeginCall    BY <2>2 DEF BeginCall
  <2>3. CASE LoopEnds     BY <2>3 DEF LoopEnds
  <2>4. CASE CallSucceeds BY <2>4 DEF CallSucceeds
  <2>5. CASE CallFails    BY <2>5 DEF CallFails
  <2>6. CASE RenderEnds   BY <2>6 DEF RenderEnds
  <2>7. CASE JoinReturns  BY <2>7 DEF JoinReturns
  <2>8. CASE HeartbeatTick
    <3>1. left' \in 0..Max2(Visibility, Extension)
      <4>1. Max2(left - 1, 0) \in 0..left
        BY DEF Max2
      <4> QED BY <2>8, <4>1 DEF HeartbeatTick
    <3>2. clock' \in 0..Max2(Max2(Interval, CallMax), BeforeMax) /\ TimerInv'
      BY <2>8 DEF HeartbeatTick
    <3>3. joined' \in 0..(Interval + 1)
      BY <2>8 DEF HeartbeatTick
    <3> QED BY <2>8, <3>1, <3>2, <3>3 DEF HeartbeatTick
  <2>9. CASE UNCHANGED heartbeatVars BY <2>9 DEF heartbeatVars
  <2> QED BY <2>1, <2>2, <2>3, <2>4, <2>5, <2>6, <2>7, <2>8, <2>9 DEF HeartbeatNext
<1> QED BY <1>1, <1>2, PTL DEF HeartbeatSpec

(* One step keeps the deadline ahead of the next extension.                *)
LEMMA DeadlineStep ==
    ASSUME RoomForOneFailure, HeartbeatTypeOK, TimerInv, DeadlineInv, [HeartbeatNext]_heartbeatVars
    PROVE  DeadlineInv'
<1> USE TimesAssumption, Normalised DEF HeartbeatTypeOK, TimerInv, DeadlineInv, Due
<1>1. CASE Start
  BY <1>1 DEF Start, RoomForOneFailure
<1>2. CASE BeginCall
  BY <1>2 DEF BeginCall, Stopped
<1>3. CASE LoopEnds
  BY <1>3 DEF LoopEnds, Stopped
<1>4. CASE CallSucceeds
  BY <1>4 DEF CallSucceeds, RoomForOneFailure
<1>5. CASE CallFails
  BY <1>5 DEF CallFails, RoomForOneFailure
<1>6. CASE RenderEnds
  BY <1>6 DEF RenderEnds
<1>7. CASE JoinReturns
  BY <1>7 DEF JoinReturns
<1>8. CASE HeartbeatTick
  BY <1>8 DEF HeartbeatTick, Stopped, Max2
<1>9. CASE UNCHANGED heartbeatVars
  BY <1>9 DEF heartbeatVars
<1> QED BY <1>1, <1>2, <1>3, <1>4, <1>5, <1>6, <1>7, <1>8, <1>9 DEF HeartbeatNext

(* With room for one failed call the deadline stays ahead of the moment    *)
(* the next extension is due, whichever of the calls fail and however long *)
(* they take.                                                              *)
THEOREM DeadlineAhead ==
    ASSUME RoomForOneFailure
    PROVE  HeartbeatSpec => []DeadlineInv
<1>1. HeartbeatInit => DeadlineInv
  BY TimesAssumption DEF HeartbeatInit, DeadlineInv
<1>2. HeartbeatTypeOK /\ TimerInv /\ DeadlineInv /\ [HeartbeatNext]_heartbeatVars => DeadlineInv'
  BY DeadlineStep
<1> QED BY <1>1, <1>2, TypeCorrect, PTL DEF HeartbeatSpec

(* The message is not handed to anyone else while its job is rendered, one *)
(* failed extension in a row included, provided the calls are short enough *)
(* for the timeouts that are configured.                                   *)
THEOREM HeldIfRoom ==
    ASSUME RoomForOneFailure
    PROVE  HeartbeatSpec => []HeldWhileRendering
<1>1. HeartbeatTypeOK /\ TimerInv /\ DeadlineInv => HeldWhileRendering
  BY TimesAssumption, Normalised DEF HeartbeatTypeOK, TimerInv, DeadlineInv, Due, HeldWhileRendering
<1> QED BY <1>1, DeadlineAhead, TypeCorrect, PTL
=============================================================================
