---------------------------- MODULE HistoryProofs ----------------------------
(***************************************************************************)
(* The theorem about the deceleration of Fallback, for every timeout,      *)
(* deceleration, clock resolution and loop time that CoreAssumption and    *)
(* HistoryAssumption admit.                                                *)
(***************************************************************************)
EXTENDS TacticalHistory, TacticalProofs

-----------------------------------------------------------------------------
\* The bound on the deceleration

\* decay() takes no more than the step off a wheel's speed.
LEMMA DecayLoses ==
  ASSUME NEW v \in Int16, NEW step \in Nat
  PROVE  Magnitude(v) - Magnitude(Decay(v, step)) <= step
<1>1. CASE v > step
  BY <1>1, Bounds DEF Decay, Int16, Magnitude
<1>2. CASE -v > step
  BY <1>2, Bounds DEF Decay, Int16, Magnitude
<1>3. CASE ~(v > step) /\ ~(-v > step)
  BY <1>3, Bounds DEF Decay, Int16, Magnitude
<1> QED
  BY <1>1, <1>2, <1>3, Bounds DEF Int16

\* Arithmetic that the bound on the deceleration needs.
LEMMA Distribute ==
  ASSUME NEW a \in Int, NEW b \in Int, NEW c \in Int
  PROVE  (a + b) * c = a * c + b * c /\ c * (a - b) + c * b = c * a
  OBVIOUS

\* Multiplying by a natural number keeps the order.
LEMMA Monotone ==
  ASSUME NEW a \in Int, NEW b \in Int, NEW c \in Nat, a <= b
  PROVE  a * c <= b * c
  OBVIOUS

\* One tick spends at most the time since the last one.
LEMMA SpendTick ==
  ASSUME NEW shed \in Int, NEW more \in Int, NEW step \in Nat, more <= shed + step,
         NEW decel \in Nat, NEW second \in Nat, NEW age \in Nat, NEW dt \in Nat,
         shed * second <= decel * (age - dt), step * second <= decel * dt
  PROVE  more * second <= decel * age
<1>1. more * second <= (shed + step) * second
  BY Monotone
<1>2. (shed + step) * second = shed * second + step * second
  BY Distribute
<1>3. decel * (age - dt) + decel * dt = decel * age
  BY Distribute
<1>4. /\ more * second \in Int /\ shed * second \in Int /\ step * second \in Int
      /\ decel * (age - dt) \in Int /\ decel * dt \in Int /\ decel * age \in Int
  OBVIOUS
<1> QED
  BY <1>1, <1>2, <1>3, <1>4

\* The invariant of the history: the ramp has spent no time but the time
\* between the ticks.
HistInv == CoreInv /\ UnspentTime /\ coast_age \in Nat

\* Magnitudes are integers.
LEMMA MagnitudeInt ==
  ASSUME TypeOK
  PROVE  \A w \in Wheels : /\ Magnitude(cmd[w]) \in Int
                           /\ Magnitude(ramp[w]) \in Int
                           /\ Shed(w) \in Int
  BY Bounds DEF TypeOK, Int16, Magnitude, Shed

\* The calls recorded by the history are calls of the core.
LEMMA HistoryNext == HNext => Next
  BY DEF HNext, HCall, HElapse, Next

\* Every call, tick and passage of time keeps the invariant of the history.
LEMMA StepUnspent == HistInv /\ [HNext]_historyVars => HistInv'
<1> SUFFICES ASSUME HistInv, [HNext]_historyVars PROVE HistInv'
  OBVIOUS
<1> USE CoreAssumption
<1>a. TypeOK /\ CoreInv /\ UnspentTime /\ coast_age \in Nat /\ tick_age \in Nat
  BY DEF HistInv, CoreInv, TypeOK
<1>b. CoreInv' /\ TypeOK'
  <2>1. [Next]_coreVars
    BY HistoryNext DEF historyVars, coreVars
  <2> QED
    BY <1>a, <2>1, StepSafe DEF CoreInv
<1>c. ASSUME UNCHANGED <<state, orders, tick_age, coast_age>>
      PROVE  HistInv'
  BY <1>a, <1>b, <1>c DEF HistInv, UnspentTime, orders, Shed
<1>d. ASSUME state' # "Fallback", coast_age' = 0
      PROVE  HistInv'
  BY <1>b, <1>d DEF HistInv, UnspentTime
<1>1. CASE HNext /\ ~TickCall /\ ~\E d \in Elapses : HElapse(d)
  <2>1. KeepCoasting
    BY <1>1 DEF HNext, HCall
  <2>2. CASE state' = "Fallback"
    <3>1. UNCHANGED <<state, orders, tick_age>>
      BY <1>1, <2>2 DEF HNext, HCall, FrameHeard, ArmCall, CmdArm,
         MoveCall, CmdMove, StopFrame, LocalStop, CmdStop, FaultCall, RaiseFault,
         ClearCall, ClearFault, Enter, Gated
    <3> QED
      BY <1>c, <2>1, <2>2, <3>1 DEF KeepCoasting
  <2>3. CASE state' # "Fallback"
    BY <1>d, <2>1, <2>3 DEF KeepCoasting
  <2> QED
    BY <2>2, <2>3
<1>2. CASE HCall /\ TickCall
  <2>0. KeepCoasting
    BY <1>2 DEF HCall
  <2>1. CASE state = "Active" /\ CommanderLost
    <3>1. /\ state' = "Fallback" /\ cmd' = cmd /\ ramp' = cmd
          /\ tick_age' = 0 /\ coast_age' = 0
      BY <1>2, <2>0, <2>1 DEF TickCall, Tick, Enter, Gated, KeepCoasting
    <3>2. \A w \in Wheels : Shed(w)' = 0
      BY <3>1, <1>a, MagnitudeInt DEF Shed
    <3>3. 0 * SECOND <= FALLBACK_DECEL * (0 - 0)
      OBVIOUS
    <3> QED
      BY <1>b, <3>1, <3>2, <3>3 DEF HistInv, UnspentTime
  <2>2. CASE state = "Fallback"
    <3>1. /\ ramp' = [w \in Wheels |-> Decay(ramp[w], StepOf(tick_age))]
          /\ tick_age' = 0 /\ UNCHANGED <<state, cmd, coast_age>>
      BY <1>2, <2>0, <2>2 DEF TickCall, Tick, RampTowardZero, Gated, KeepCoasting
    <3>2. /\ StepOf(tick_age) \in Nat
          /\ StepOf(tick_age) * SECOND <= FALLBACK_DECEL * tick_age
      BY <1>a, StepBound
    <3>3. ASSUME NEW w \in Wheels
          PROVE  Shed(w)' * SECOND <= FALLBACK_DECEL * coast_age
      <4>1. ramp[w] \in Int16
        BY <1>a DEF TypeOK
      <4>2. Magnitude(ramp[w]) - Magnitude(ramp'[w]) <= StepOf(tick_age)
        BY <3>1, <3>2, <4>1, DecayShrinks, DecayLoses
      <4>3. Shed(w) \in Int /\ Shed(w)' \in Int
        BY <1>a, <1>b, MagnitudeInt, Bounds DEF Shed, Magnitude, TypeOK, Int16
      <4>4. Shed(w)' <= Shed(w) + StepOf(tick_age)
        <5>1. /\ Magnitude(cmd[w]) \in Int /\ Magnitude(ramp[w]) \in Int
              /\ Magnitude(ramp'[w]) \in Int
          BY <1>a, <1>b, Bounds DEF TypeOK, Int16, Magnitude
        <5> QED
          BY <3>1, <3>2, <4>2, <5>1 DEF Shed
      <4>5. Shed(w) * SECOND <= FALLBACK_DECEL * (coast_age - tick_age)
        BY <1>a, <2>2 DEF UnspentTime
      <4> QED
        BY <1>a, <3>2, <4>3, <4>4, <4>5, SpendTick
    <3>4. coast_age - 0 = coast_age /\ 0 <= coast_age
      BY <1>a
    <3> QED
      BY <1>a, <1>b, <3>1, <3>3, <3>4 DEF HistInv, UnspentTime
  <2>3. CASE state \in Gated \/ (state = "Active" /\ ~CommanderLost)
    <3>1. state' # "Fallback" /\ coast_age' = 0
      BY <1>2, <2>0, <2>3 DEF TickCall, Tick, Gated, KeepCoasting
    <3> QED
      BY <1>d, <3>1
  <2> QED
    BY <1>a, <2>1, <2>2, <2>3 DEF TypeOK, TacticalState, Gated
<1>3. ASSUME NEW d \in Elapses, HElapse(d)
      PROVE  HistInv'
  <2>1. d \in Nat
    OBVIOUS
  <2>2. tick_age' = tick_age + d /\ UNCHANGED <<state, cmd, ramp>>
    BY <1>3 DEF HElapse, Elapse, orders
  <2>3. CASE state = "Fallback"
    <3>1. coast_age' = coast_age + d
      BY <1>3, <2>3 DEF HElapse
    <3>2. /\ coast_age' - tick_age' = coast_age - tick_age
          /\ tick_age <= coast_age => tick_age' <= coast_age'
          /\ coast_age' \in Nat
      BY <1>a, <2>1, <2>2, <3>1
    <3>3. \A w \in Wheels : Shed(w)' = Shed(w)
      BY <2>2 DEF Shed
    <3> QED
      BY <1>a, <1>b, <2>2, <2>3, <3>2, <3>3 DEF HistInv, UnspentTime
  <2>4. CASE state # "Fallback"
    BY <1>3, <1>d, <2>2, <2>4 DEF HElapse
  <2> QED
    BY <2>3, <2>4
<1>4. CASE UNCHANGED historyVars
  BY <1>c, <1>4 DEF historyVars, coreVars, orders
<1> QED
  BY <1>1, <1>2, <1>3, <1>4 DEF HNext

\* What has been spent by the last tick has been spent now.
LEMMA UnspentBound == HistInv => RampNeverTooSteep
<1> SUFFICES ASSUME HistInv, state = "Fallback", NEW w \in Wheels
             PROVE  Shed(w) * SECOND <= FALLBACK_DECEL * coast_age
  BY DEF RampNeverTooSteep
<1>1. /\ FALLBACK_DECEL \in Nat /\ SECOND \in Nat /\ coast_age \in Nat
      /\ tick_age \in Nat /\ tick_age <= coast_age
      /\ Shed(w) * SECOND <= FALLBACK_DECEL * (coast_age - tick_age)
  BY CoreAssumption DEF HistInv, CoreInv, TypeOK, UnspentTime
<1>2. Shed(w) \in Int
  BY MagnitudeInt DEF HistInv, CoreInv
<1>3. 0 * SECOND <= FALLBACK_DECEL * tick_age /\ Shed(w) <= Shed(w) + 0
  BY <1>1, <1>2
<1> QED
  BY <1>1, <1>2, <1>3, SpendTick

\* In Fallback no wheel sheds speed faster than FALLBACK_DECEL, however the
\* main loop cuts the time into ticks.
THEOREM DecelerationBounded == HSpec => []RampNeverTooSteep
<1>1. HInit => HistInv
  BY InitSafe DEF HInit, HistInv, UnspentTime, Init
<1> QED
  BY <1>1, StepUnspent, UnspentBound, PTL DEF HSpec

\* UnspentTime, the strengthening the run checks, holds as well.
THEOREM TimeUnspent == HSpec => []UnspentTime
<1>1. HInit => HistInv
  BY InitSafe DEF HInit, HistInv, UnspentTime, Init
<1>2. HistInv => UnspentTime
  BY DEF HistInv
<1> QED
  BY <1>1, <1>2, StepUnspent, PTL DEF HSpec
=============================================================================
