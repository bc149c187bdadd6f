-------------------------- MODULE TacticalHistory --------------------------
(***************************************************************************)
(* TacticalCore with a history variable, to state what its comments and    *)
(* the README say about Fallback: how fast the vehicle slows down.         *)
(***************************************************************************)
EXTENDS TacticalCore

CONSTANT MaxCoast      \* bound on the time spent in one Fallback

VARIABLE coast_age     \* time since Fallback was entered

historyVars == <<coreVars, coast_age>>

ASSUME HistoryAssumption == MaxCoast \in Nat

HInit == Init /\ coast_age = 0

\* Fallback that goes on keeps its age, anything else resets it.
KeepCoasting ==
  coast_age' = IF state = "Fallback" /\ state' = "Fallback" THEN coast_age ELSE 0

HCall ==
  /\ \/ FrameHeard
     \/ ArmCall
     \/ \E o \in Orders : MoveCall(o)
     \/ StopFrame
     \/ LocalStop
     \/ \E code \in FaultCodes : FaultCall(code)
     \/ \E fixed \in BOOLEAN : ClearCall(fixed)
     \/ TickCall
  /\ KeepCoasting

HElapse(d) ==
  /\ Elapse(d)
  /\ coast_age + d <= MaxCoast
  /\ coast_age' = IF state = "Fallback" THEN coast_age + d ELSE 0

HNext == HCall \/ \E d \in Elapses : HElapse(d)

HSpec == HInit /\ [][HNext]_historyVars

\* As FairSpec: the main loop never blocks for ever and the clock never stops.
FairHSpec == /\ HSpec
             /\ WF_historyVars(TickCall /\ KeepCoasting)
             /\ WF_historyVars(\E d \in Elapses : HElapse(d))

-----------------------------------------------------------------------------
Magnitude(v) == IF v < 0 THEN -v ELSE v

\* The speed a wheel has lost since Fallback began.
Shed(w) == Magnitude(cmd[w]) - Magnitude(ramp[w])

\* The deceleration of Fallback is bounded: over any time, on any wheel, and
\* however that time is cut into ticks, no more speed is shed than
\* FALLBACK_DECEL allows (tactical.h:12, ramp_toward_zero, README).
RampNeverTooSteep ==
  state = "Fallback" =>
    \A w \in Wheels : Shed(w) * SECOND <= FALLBACK_DECEL * coast_age

\* The strengthening that makes RampNeverTooSteep inductive: the time since
\* the last tick has not been spent by the ramp yet.
UnspentTime ==
  state = "Fallback" =>
    /\ tick_age <= coast_age
    /\ \A w \in Wheels :
         Shed(w) * SECOND <= FALLBACK_DECEL * (coast_age - tick_age)
=============================================================================
