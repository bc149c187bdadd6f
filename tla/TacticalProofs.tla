--------------------------- MODULE TacticalProofs ---------------------------
(***************************************************************************)
(* Theorems about the vehicle state machine, for every timeout,            *)
(* deceleration, clock resolution, set of orders and loop time that        *)
(* CoreAssumption admits.                                                  *)
(***************************************************************************)
EXTENDS TacticalCore, TLAPS

-----------------------------------------------------------------------------
\* Lemmas about the pure parts

\* A ramp step is a natural number and takes no more than its share of the
\* deceleration (ramp_toward_zero(), the truncating division).
LEMMA StepBound ==
  ASSUME NEW dt \in Nat
  PROVE  /\ StepOf(dt) \in Nat
         /\ StepOf(dt) * SECOND <= FALLBACK_DECEL * dt
<1> DEFINE product == FALLBACK_DECEL * dt
<1>1. product \in Nat
  BY CoreAssumption
<1>2. \A n \in Nat, d \in Nat \ {0} : n \div d \in Nat /\ (n \div d) * d <= n
  OBVIOUS
<1>3. SECOND \in Nat \ {0}
  BY CoreAssumption
<1>4. /\ product \div SECOND \in Nat
      /\ (product \div SECOND) * SECOND <= product
  <2> HIDE DEF product
  <2> QED BY <1>1, <1>2, <1>3
<1> QED
  BY <1>4 DEF StepOf

\* The bounds of the integer types, which the proofs do not expand: the
\* provers would enumerate the interval between two literals.
LEMMA Bounds ==
  /\ INT16_MIN \in Int /\ INT16_MAX \in Int /\ UINT16_MAX \in Int
  /\ INT16_MIN < 0 /\ 0 < INT16_MAX /\ 0 < UINT16_MAX
  BY DEF INT16_MIN, INT16_MAX, UINT16_MAX

\* decay() moves a value towards zero and never past it.
LEMMA DecayShrinks ==
  ASSUME NEW v \in Int16, NEW step \in Nat
  PROVE  /\ Decay(v, step) \in Int16
         /\ v >= 0 => 0 <= Decay(v, step) /\ Decay(v, step) <= v
         /\ v <= 0 => v <= Decay(v, step) /\ Decay(v, step) <= 0
<1>1. CASE v > step
  BY <1>1, Bounds DEF Decay, Int16
<1>2. CASE -v > step
  BY <1>2, Bounds DEF Decay, Int16
<1>3. CASE ~(v > step) /\ ~(-v > step)
  BY <1>3, Bounds DEF Decay, Int16
<1> QED
  BY <1>1, <1>2, <1>3, Bounds DEF Int16

\* Standing still is an order like any other.
LEMMA HaltIsOrder == Halt \in [Wheels -> Int16]
  BY Bounds DEF Halt, Int16

\* A ramp step is a coasting step of the contract.
LEMMA ShrunkValue ==
  ASSUME NEW v \in Int16, NEW step \in Nat
  PROVE  Decay(v, step) \in Contract!Shrunk(v)
  BY DecayShrinks DEF Contract!Shrunk, Int16

-----------------------------------------------------------------------------
\* The safety of the state machine

\* Boot is safe: disarmed, no order, no fault.
LEMMA InitSafe == Init => CoreInv
<1> SUFFICES ASSUME Init PROVE CoreInv
  OBVIOUS
<1>1. PICK age \in BootAges : silence = Saturated(age) /\ tick_age = age
  BY DEF Init
<1>2. age \in Nat
  BY CoreAssumption
<1>3. silence \in 0 .. SilenceCap
  BY <1>1, <1>2, CoreAssumption DEF Saturated, SilenceCap
<1>4. TypeOK
  BY <1>1, <1>2, <1>3, HaltIsOrder, Bounds DEF Init, TypeOK, TacticalState, UInt16
<1> QED
  BY <1>4 DEF Init, CoreInv, DisarmedAtRest, RampWithinOrder,
              FaultCodeOnlyInFault, ActiveMeansHeard, Gated

\* What a stop, a fault and the clearing of one have in common.
LEMMA GatedSafe ==
  ASSUME TypeOK, state' \in Gated, cmd' = Halt, ramp' = Halt,
         fault_code' \in UInt16, fault_code' # 0 => state' = "Fault",
         silence' \in 0 .. SilenceCap, tick_age' \in Nat
  PROVE  CoreInv'
  BY HaltIsOrder DEF CoreInv, TypeOK, DisarmedAtRest, RampWithinOrder,
     FaultCodeOnlyInFault, ActiveMeansHeard, Gated, TacticalState

\* enter() with a gated state leaves nothing to drive by.
LEMMA EnterGated ==
  ASSUME CoreInv, NEW next \in Gated, Enter(next)
  PROVE  state' = next /\ cmd' = Halt /\ ramp' = Halt /\ tick_age' \in Nat
<1>1. CASE next = state
  BY <1>1 DEF CoreInv, TypeOK, DisarmedAtRest, Enter
<1>2. CASE next # state
  BY <1>2 DEF Enter, Gated
<1> QED
  BY <1>1, <1>2

\* One wheel, one ramp step: the ramp stays between zero and the order.
LEMMA RampStepWithin ==
  ASSUME NEW r \in Int16, NEW c \in Int16, NEW step \in Nat,
         \/ 0 <= r /\ r <= c
         \/ c <= r /\ r <= 0
  PROVE  \/ 0 <= Decay(r, step) /\ Decay(r, step) <= c
         \/ c <= Decay(r, step) /\ Decay(r, step) <= 0
<1>1. r \in Int /\ c \in Int /\ Decay(r, step) \in Int
  BY DecayShrinks, Bounds DEF Int16
<1>2. /\ r >= 0 => 0 <= Decay(r, step) /\ Decay(r, step) <= r
      /\ r <= 0 => r <= Decay(r, step) /\ Decay(r, step) <= 0
  BY DecayShrinks
<1> QED
  BY <1>1, <1>2

\* Every call keeps the state machine safe.
LEMMA StepSafe == CoreInv /\ [Next]_coreVars => CoreInv'
<1> SUFFICES ASSUME CoreInv, [Next]_coreVars PROVE CoreInv'
  OBVIOUS
<1> USE CoreAssumption DEF CoreInv
<1>a. 0 \in 0 .. SilenceCap /\ SilenceCap \in Nat
  BY DEF SilenceCap
<1>b. TypeOK
  OBVIOUS
<1>1. CASE FrameHeard
  BY <1>1, <1>a DEF FrameHeard, NoteCommanderAlive, orders, TypeOK,
     DisarmedAtRest, RampWithinOrder, FaultCodeOnlyInFault, ActiveMeansHeard
<1>2. CASE ArmCall
  <2>1. CASE state = "Safe"
    <3>1. /\ state' = "Active" /\ cmd' = cmd /\ ramp' = ramp
          /\ tick_age' = 0 /\ silence' = 0 /\ UNCHANGED fault_code
      BY <1>2, <2>1 DEF ArmCall, CmdArm, Enter, NoteCommanderAlive, Gated
    <3> QED
      BY <2>1, <3>1, <1>a DEF TypeOK, DisarmedAtRest, RampWithinOrder,
         FaultCodeOnlyInFault, ActiveMeansHeard, TacticalState, Gated
  <2>2. CASE state # "Safe"
    BY <1>2, <2>2, <1>a DEF ArmCall, CmdArm, NoteCommanderAlive, orders, TypeOK,
       DisarmedAtRest, RampWithinOrder, FaultCodeOnlyInFault, ActiveMeansHeard
  <2> QED
    BY <2>1, <2>2
<1>3. ASSUME NEW o \in Orders, MoveCall(o)
      PROVE  CoreInv'
  <2>0. o \in [Wheels -> Int16]
    OBVIOUS
  <2>1. CASE state = "Fallback"
    BY <1>3, <2>0, <2>1, <1>a DEF MoveCall, CmdMove, NoteCommanderAlive, Gated, TypeOK,
       DisarmedAtRest, RampWithinOrder, FaultCodeOnlyInFault, ActiveMeansHeard,
       TacticalState
  <2>2. CASE state = "Active"
    BY <1>3, <2>0, <2>2, <1>a DEF MoveCall, CmdMove, NoteCommanderAlive, Gated, TypeOK,
       DisarmedAtRest, RampWithinOrder, FaultCodeOnlyInFault, ActiveMeansHeard
  <2>3. CASE state \in Gated
    BY <1>3, <2>3, <1>a DEF MoveCall, CmdMove, NoteCommanderAlive, Gated, orders, TypeOK,
       DisarmedAtRest, RampWithinOrder, FaultCodeOnlyInFault, ActiveMeansHeard
  <2> QED
    BY <2>1, <2>2, <2>3 DEF TypeOK, TacticalState, Gated
<1>4. CASE CmdStop /\ silence' \in 0 .. SilenceCap
  <2>1. CASE state = "Fault"
    BY <1>4, <2>1 DEF CmdStop, orders, TypeOK, DisarmedAtRest, RampWithinOrder,
       FaultCodeOnlyInFault, ActiveMeansHeard
  <2>2. CASE state # "Fault"
    <3>1. Enter("Safe") /\ UNCHANGED fault_code
      BY <1>4, <2>2 DEF CmdStop
    <3>2. "Safe" \in Gated
      BY DEF Gated
    <3> QED
      BY <1>4, <2>2, <3>1, <3>2, EnterGated, GatedSafe DEF TypeOK, FaultCodeOnlyInFault
  <2> QED
    BY <2>1, <2>2
<1>5. ASSUME NEW code \in FaultCodes, FaultCall(code)
      PROVE  CoreInv'
  <2>1. Enter("Fault") /\ fault_code' = code /\ UNCHANGED silence
    BY <1>5 DEF FaultCall, RaiseFault
  <2>2. "Fault" \in Gated
    BY DEF Gated
  <2> QED
    BY <2>1, <2>2, EnterGated, GatedSafe DEF TypeOK
<1>6. ASSUME NEW fixed \in BOOLEAN, ClearCall(fixed)
      PROVE  CoreInv'
  <2>1. CASE state = "Fault" /\ fixed
    <3>1. Enter("Safe") /\ fault_code' = 0 /\ UNCHANGED silence
      BY <1>6, <2>1 DEF ClearCall, ClearFault
    <3>2. "Safe" \in Gated /\ 0 \in UInt16
      BY Bounds DEF Gated, UInt16
    <3> QED
      BY <3>1, <3>2, EnterGated, GatedSafe DEF TypeOK
  <2>2. CASE ~(state = "Fault" /\ fixed)
    BY <1>6, <2>2 DEF ClearCall, ClearFault, orders, TypeOK, DisarmedAtRest,
       RampWithinOrder, FaultCodeOnlyInFault, ActiveMeansHeard
  <2> QED
    BY <2>1, <2>2
<1>7. CASE TickCall
  <2>1. CASE state = "Active" /\ CommanderLost
    <3>1. /\ state' = "Fallback" /\ cmd' = cmd /\ ramp' = cmd
          /\ tick_age' = 0 /\ UNCHANGED <<fault_code, silence>>
      BY <1>7, <2>1 DEF TickCall, Tick, Enter, Gated
    <3>2. \A w \in Wheels : cmd[w] \in Int
      BY Bounds DEF TypeOK, Int16
    <3> QED
      BY <2>1, <3>1, <3>2 DEF TypeOK, DisarmedAtRest, RampWithinOrder,
         FaultCodeOnlyInFault, ActiveMeansHeard, TacticalState, Gated
  <2>2. CASE state = "Fallback"
    <3>1. /\ ramp' = [w \in Wheels |-> Decay(ramp[w], StepOf(tick_age))]
          /\ tick_age' = 0 /\ UNCHANGED <<state, cmd, fault_code, silence>>
      BY <1>7, <2>2 DEF TickCall, Tick, RampTowardZero, Gated
    <3>2. StepOf(tick_age) \in Nat
      BY StepBound DEF TypeOK
    <3>3. ramp' \in [Wheels -> Int16]
      BY <3>1, <3>2, DecayShrinks DEF TypeOK
    <3>4. RampWithinOrder'
      BY <2>2, <3>1, <3>2, RampStepWithin DEF RampWithinOrder, TypeOK
    <3> QED
      BY <2>2, <3>1, <3>3, <3>4 DEF TypeOK, DisarmedAtRest,
         FaultCodeOnlyInFault, ActiveMeansHeard, Gated
  <2>3. CASE state \in Gated \/ (state = "Active" /\ ~CommanderLost)
    <3>1. tick_age' = 0 /\ UNCHANGED <<state, orders, fault_code, silence>>
      BY <1>7, <2>3 DEF TickCall, Tick, Gated
    <3> QED
      BY <2>3, <3>1 DEF orders, CommanderLost, TypeOK, DisarmedAtRest, RampWithinOrder,
         FaultCodeOnlyInFault, ActiveMeansHeard, Gated, SilenceCap
  <2> QED
    BY <2>1, <2>2, <2>3 DEF TypeOK, TacticalState, Gated
<1>8. ASSUME NEW d \in Elapses, Elapse(d)
      PROVE  CoreInv'
  <2>1. d \in Nat /\ tick_age + d \in Nat /\ silence + d \in Nat
    BY <1>a DEF TypeOK
  <2>2. silence' \in 0 .. SilenceCap /\ silence' <= silence + d
    BY <1>8, <2>1, <1>a DEF Elapse, Saturated
  <2>3. tick_age' = tick_age + d /\ tick_age' <= MaxGap
    BY <1>8 DEF Elapse
  <2>4. UNCHANGED <<state, orders, fault_code>>
    BY <1>8 DEF Elapse
  <2> QED
    BY <2>1, <2>2, <2>3, <2>4 DEF orders, TypeOK, DisarmedAtRest, RampWithinOrder,
       FaultCodeOnlyInFault, ActiveMeansHeard
<1>9. CASE UNCHANGED coreVars
  BY <1>9 DEF coreVars, TypeOK, DisarmedAtRest, RampWithinOrder,
     FaultCodeOnlyInFault, ActiveMeansHeard
<1>10. StopFrame \/ LocalStop => CmdStop /\ silence' \in 0 .. SilenceCap
  BY <1>a DEF StopFrame, LocalStop, NoteCommanderAlive, TypeOK
<1> QED
  BY <1>1, <1>2, <1>3, <1>4, <1>5, <1>6, <1>7, <1>8, <1>9, <1>10 DEF Next

\* Whatever is called in whatever order, the invariants of TacticalCore hold.
THEOREM CoreSafe == Spec => []CoreInv
  BY InitSafe, StepSafe, PTL DEF Spec

\* Type correctness.
THEOREM TypeCorrect == Spec => []TypeOK
  BY CoreSafe, PTL DEF CoreInv

\* Nothing survives a stop or a fault: a later arm resumes no old order.
THEOREM StopForgetsOrders == Spec => []DisarmedAtRest
  BY CoreSafe, PTL DEF CoreInv

\* Fallback never overshoots zero and never accelerates, whatever the time
\* between two ticks.
THEOREM RampStaysWithinOrder == Spec => []RampWithinOrder
  BY CoreSafe, PTL DEF CoreInv

\* A fault code never outlives the fault it was raised for.
THEOREM FaultCodeLatched == Spec => []FaultCodeOnlyInFault
  BY CoreSafe, PTL DEF CoreInv

\* Active never outlives its commander by more than the timeout and a pass.
THEOREM ActiveWasHeard == Spec => []ActiveMeansHeard
  BY CoreSafe, PTL DEF CoreInv

-----------------------------------------------------------------------------
\* The outputs keep the promise of DriveContract

\* At boot the contract's vehicle is stopped with its wheels at rest.
LEMMA InitContract == Init => Contract!Init
  BY DEF Init, Contract!Init, Mode, Target, Contract!Halt, Halt, Contract!Wheels, Wheels

\* A call that leaves the state and the orders alone is a stutter of the contract.
LEMMA SameOutput ==
  ASSUME UNCHANGED <<state, orders>>
  PROVE  UNCHANGED <<Mode, Target>>
  BY DEF Mode, Target, orders

\* Going to rest in a gated state is a cut.
LEMMA GatedCuts ==
  ASSUME state' \in Gated
  PROVE  Contract!Cut
  BY DEF Contract!Cut, Mode, Target, Gated, Contract!Halt, Halt, Contract!Wheels, Wheels

\* Every call is a step or a stutter of the contract.
LEMMA StepContract ==
  CoreInv /\ [Next]_coreVars => [Contract!Next]_(Contract!contractVars)
<1> SUFFICES ASSUME CoreInv, [Next]_coreVars
             PROVE  Contract!Next \/ UNCHANGED <<Mode, Target>>
  BY DEF Contract!contractVars
<1>a. Contract!Halt = Halt /\ Contract!Wheels = Wheels
  BY DEF Contract!Halt, Halt, Contract!Wheels, Wheels
<1>1. CASE FrameHeard \/ (\E d \in Elapses : Elapse(d)) \/ UNCHANGED coreVars
  BY <1>1, SameOutput DEF FrameHeard, Elapse, coreVars, orders
<1>2. CASE ArmCall
  <2>1. CASE state = "Safe"
    <3>1. state' = "Active" /\ cmd' = cmd /\ cmd = Halt
      BY <1>2, <2>1 DEF ArmCall, CmdArm, Enter, Gated, CoreInv, DisarmedAtRest
    <3>2. Contract!Enable
      BY <2>1, <3>1, <1>a DEF Contract!Enable, Mode, Target
    <3> QED
      BY <3>2 DEF Contract!Next
  <2>2. CASE state # "Safe"
    BY <1>2, <2>2, SameOutput DEF ArmCall, CmdArm
  <2> QED
    BY <2>1, <2>2
<1>3. ASSUME NEW o \in Orders, MoveCall(o)
      PROVE  Contract!Next \/ UNCHANGED <<Mode, Target>>
  <2>1. CASE state \in {"Active", "Fallback"}
    <3>1. state' = "Active" /\ cmd' = o
      BY <1>3, <2>1 DEF MoveCall, CmdMove, Gated
    <3>2. Contract!Steer(o)
      BY <2>1, <3>1 DEF Contract!Steer, Mode, Target
    <3> QED
      BY <3>2 DEF Contract!Next
  <2>2. CASE state \in Gated
    BY <1>3, <2>2, SameOutput DEF MoveCall, CmdMove, Gated
  <2> QED
    BY <2>1, <2>2 DEF CoreInv, TypeOK, TacticalState, Gated
<1>4. CASE StopFrame \/ LocalStop
  <2>1. CASE state = "Fault"
    BY <1>4, <2>1, SameOutput DEF StopFrame, LocalStop, CmdStop
  <2>2. CASE state # "Fault"
    <3>1. state' \in Gated
      BY <1>4, <2>2 DEF StopFrame, LocalStop, CmdStop, Enter, Gated
    <3> QED
      BY <3>1, GatedCuts DEF Contract!Next
  <2> QED
    BY <2>1, <2>2
<1>5. ASSUME NEW code \in FaultCodes, FaultCall(code)
      PROVE  Contract!Next
  <2>1. state' \in Gated
    BY <1>5 DEF FaultCall, RaiseFault, Enter, Gated
  <2> QED
    BY <2>1, GatedCuts DEF Contract!Next
<1>6. ASSUME NEW fixed \in BOOLEAN, ClearCall(fixed)
      PROVE  Contract!Next \/ UNCHANGED <<Mode, Target>>
  <2>1. CASE state = "Fault" /\ fixed
    <3>1. state' \in Gated
      BY <1>6, <2>1 DEF ClearCall, ClearFault, Enter, Gated
    <3> QED
      BY <3>1, GatedCuts DEF Contract!Next
  <2>2. CASE ~(state = "Fault" /\ fixed)
    BY <1>6, <2>2, SameOutput DEF ClearCall, ClearFault
  <2> QED
    BY <2>1, <2>2
<1>7. CASE TickCall
  <2>1. CASE state = "Active" /\ CommanderLost
    <3>1. state' = "Fallback" /\ ramp' = cmd
      BY <1>7, <2>1 DEF TickCall, Tick, Enter, Gated
    <3>2. Contract!Lose
      BY <2>1, <3>1 DEF Contract!Lose, Mode, Target
    <3> QED
      BY <3>2 DEF Contract!Next
  <2>2. CASE state = "Fallback"
    <3>1. /\ ramp' = [w \in Wheels |-> Decay(ramp[w], StepOf(tick_age))]
          /\ UNCHANGED state
      BY <1>7, <2>2 DEF TickCall, Tick, RampTowardZero, Gated
    <3>2. StepOf(tick_age) \in Nat /\ ramp \in [Wheels -> Int16]
      BY StepBound DEF CoreInv, TypeOK
    <3>3. \A w \in Wheels : Decay(ramp[w], StepOf(tick_age)) \in Contract!Shrunk(ramp[w])
      BY <3>2, ShrunkValue
    <3>4. Target = ramp /\ Target' = ramp' /\ Mode = "coasting" /\ UNCHANGED Mode
      BY <2>2, <3>1 DEF Target, Mode
    <3>5. Contract!Coast
      BY <3>1, <3>3, <3>4, <1>a DEF Contract!Coast
    <3> QED
      BY <3>5 DEF Contract!Next
  <2>3. CASE state \in Gated \/ (state = "Active" /\ ~CommanderLost)
    BY <1>7, <2>3, SameOutput DEF TickCall, Tick, Gated
  <2> QED
    BY <2>1, <2>2, <2>3 DEF CoreInv, TypeOK, TacticalState, Gated
<1> QED
  BY <1>1, <1>2, <1>3, <1>4, <1>5, <1>6, <1>7 DEF Next

\* Whatever is called in whatever order, the wheel targets behave as
\* DriveContract promises.
THEOREM CoreImplementsContract == Spec => ImplementsContract
  BY InitContract, StepContract, CoreSafe, PTL
  DEF Spec, ImplementsContract, Contract!Spec
=============================================================================
