---------------------------- MODULE TacticalCore ----------------------------
(***************************************************************************)
(* The Wanderer's vehicle state machine: class TacticalCore of             *)
(* src/Pico2_V2_RF/src/tactical.h.  The radio layer and the local console  *)
(* feed it commands, the main loop calls tick() on every pass, and the     *)
(* motors read its two targets.                                            *)
(*                                                                         *)
(* The code keeps two time stamps and only ever subtracts them from "now", *)
(* so the model keeps the differences: silence = now - last_seen_ and      *)
(* tick_age = now - last_tick_.  Time is in units of which SECOND make one *)
(* second.  silence saturates at SilenceCap, past every test the code      *)
(* makes on it.                                                            *)
(***************************************************************************)
EXTENDS Integers

CONSTANTS
  LIVENESS_TIMEOUT,  \* LIVENESS_TIMEOUT_MS in time units
  FALLBACK_DECEL,    \* FALLBACK_DECEL_MM_S2
  SECOND,            \* time units in a second (1000000 in the code)
  Orders,            \* the velocity orders that commands carry
  FaultCodes,        \* the codes raise_fault() is called with
  Elapses,           \* how far the clock may advance in one step
  MaxGap,            \* longest time from one tick() to the next
  BootAges           \* time from power-up to the first pass of the main loop

VARIABLES
  state,             \* state_
  cmd,               \* cmd_left_, cmd_right_: the standing order
  ramp,              \* ramp_left_, ramp_right_: the Fallback output
  fault_code,        \* fault_code_
  silence,           \* now - last_seen_
  tick_age           \* now - last_tick_

orders   == <<cmd, ramp>>
clocks   == <<silence, tick_age>>
coreVars == <<state, cmd, ramp, fault_code, silence, tick_age>>

INT16_MIN  == -32768
INT16_MAX  == 32767
UINT16_MAX == 65535
Int16  == INT16_MIN .. INT16_MAX
UInt16 == 0 .. UINT16_MAX
Wheels == {"left", "right"}
Halt   == [w \in Wheels |-> 0]

TacticalState == {"Safe", "Active", "Fallback", "Fault"}
Gated         == {"Safe", "Fault"}      \* motors_enabled() is false

SilenceCap == LIVENESS_TIMEOUT + MaxGap + 1

StepRoundedUp(dt) ==                          \* mutant: rounds up
  (FALLBACK_DECEL * dt + SECOND - 1) \div SECOND

StepOfWholeSeconds(dt) ==                     \* mutant: divides first
  FALLBACK_DECEL * (dt \div SECOND)

\* static_cast<int32_t>(FALLBACK_DECEL_MM_S2 * dt_us / 1000000): the division
\* truncates.
StepOf(dt) == (FALLBACK_DECEL * dt) \div SECOND

ASSUME CoreAssumption ==
  /\ LIVENESS_TIMEOUT \in Nat
  /\ FALLBACK_DECEL \in Nat
  /\ SECOND \in Nat \ {0}
  /\ MaxGap \in Nat
  /\ Orders \subseteq [Wheels -> Int16]
  /\ FaultCodes \subseteq UInt16
  /\ Elapses \subseteq Nat \ {0}
  /\ BootAges \subseteq Nat

\* The step of one ramp fits the int32_t it is cast to.
ASSUME StepFitsInt32 == StepOf(MaxGap) <= 2147483647

-----------------------------------------------------------------------------
\* Pure parts

Saturated(age) == IF age > SilenceCap THEN SilenceCap ELSE age

DecayUnclamped(v, step) ==                    \* mutant: no clamp at zero
  IF v > 0 THEN v - step ELSE IF v < 0 THEN v + step ELSE 0

\* decay(): one ramp step of one wheel.  Negation is done in int, so -v is
\* exact for -32768 too.
Decay(v, step) ==
  IF v > step THEN v - step ELSE IF -v > step THEN v + step ELSE 0

MotorsEnabled == state \notin Gated

\* output(): what target_left() and target_right() return.
Target == CASE state = "Active"   -> cmd
            [] state = "Fallback" -> ramp
            [] OTHER              -> Halt

CommanderAlive == silence < LIVENESS_TIMEOUT
CommanderLost  == silence > LIVENESS_TIMEOUT

-----------------------------------------------------------------------------
\* Operations of the class.  Each leaves silence to the caller, who decides
\* with NoteCommanderAlive or UNCHANGED whether the call was also a sign of life.

NoteCommanderAlive == silence' = 0

EnterKeepingOrders(next) ==                   \* mutant: no zeroing on a stop
  /\ state' = next
  /\ IF next = state
       THEN UNCHANGED <<cmd, ramp, tick_age>>
       ELSE /\ ramp' = IF next = "Fallback" THEN cmd ELSE ramp
            /\ cmd' = cmd
            /\ tick_age' = 0

EnterSeedingOnce(next) ==                     \* mutant: an old ramp is taken up again
  /\ state' = next
  /\ IF next = state
       THEN UNCHANGED <<cmd, ramp, tick_age>>
       ELSE /\ ramp' = CASE next = "Fallback" /\ ramp = Halt -> cmd
                         [] next \in Gated -> Halt
                         [] OTHER          -> ramp
            /\ cmd' = IF next \in Gated THEN Halt ELSE cmd
            /\ tick_age' = 0

\* enter(): seeds the ramp from the standing order on the way into Fallback,
\* forgets every order on the way into a gated state, restarts last_tick_.
Enter(next) ==
  /\ state' = next
  /\ IF next = state
       THEN UNCHANGED <<cmd, ramp, tick_age>>
       ELSE /\ ramp' = CASE next = "Fallback" -> cmd
                         [] next \in Gated    -> Halt
                         [] OTHER             -> ramp
            /\ cmd' = IF next \in Gated THEN Halt ELSE cmd
            /\ tick_age' = 0

CmdArm ==
  /\ UNCHANGED fault_code
  /\ \/ state = "Safe" /\ Enter("Active")
     \/ state # "Safe" /\ UNCHANGED <<state, orders, tick_age>>

CmdStop ==
  /\ UNCHANGED fault_code
  /\ \/ state # "Fault" /\ Enter("Safe")
     \/ state = "Fault" /\ UNCHANGED <<state, orders, tick_age>>

CmdMoveUngated(o) ==                          \* mutant: Safe obeys a move
  /\ UNCHANGED fault_code
  /\ \/ /\ state # "Fault"
        /\ state' = "Active"
        /\ tick_age' = 0
        /\ cmd' = o
        /\ UNCHANGED ramp
     \/ state = "Fault" /\ UNCHANGED <<state, orders, tick_age>>

CmdMove(o) ==
  /\ UNCHANGED fault_code
  /\ \/ /\ state = "Fallback"                 \* enter(Active), then the order
        /\ state' = "Active"
        /\ tick_age' = 0
        /\ cmd' = o
        /\ UNCHANGED ramp
     \/ /\ state = "Active"
        /\ cmd' = o
        /\ UNCHANGED <<state, ramp, tick_age>>
     \/ state \in Gated /\ UNCHANGED <<state, orders, tick_age>>

RaiseFault(code) == fault_code' = code /\ Enter("Fault")

ClearFault(condition_cleared) ==
  \/ /\ state = "Fault" /\ condition_cleared
     /\ fault_code' = 0
     /\ Enter("Safe")
  \/ /\ state # "Fault" \/ ~condition_cleared
     /\ UNCHANGED <<state, orders, tick_age, fault_code>>

RampTowardZero == ramp' = [w \in Wheels |-> Decay(ramp[w], StepOf(tick_age))]

TickWithoutTimeout ==                         \* mutant: the timeout is not tested
  /\ UNCHANGED <<fault_code, cmd, state>>
  /\ IF state = "Fallback" THEN RampTowardZero ELSE UNCHANGED ramp
  /\ tick_age' = 0

\* tick(): falls back on silence, else ramps; the pass that falls back does
\* not ramp yet.
Tick ==
  /\ UNCHANGED fault_code
  /\ \/ state = "Active" /\ CommanderLost /\ Enter("Fallback")
     \/ state = "Fallback" /\ RampTowardZero /\ UNCHANGED <<state, cmd>>
     \/ /\ state \in Gated \/ (state = "Active" /\ ~CommanderLost)
        /\ UNCHANGED <<state, orders>>
  /\ tick_age' = 0

-----------------------------------------------------------------------------
\* The calls its users make

\* A frame that carries no vehicle command: a NOP, a query, a malformed one.
FrameHeard == NoteCommanderAlive /\ UNCHANGED <<state, orders, fault_code, tick_age>>

ArmCall       == NoteCommanderAlive /\ CmdArm
MoveCall(o)   == NoteCommanderAlive /\ CmdMove(o)
StopFrame     == NoteCommanderAlive /\ CmdStop
LocalStop     == UNCHANGED silence /\ CmdStop      \* console stop: no sign of life

FaultCall(code)  == RaiseFault(code) /\ UNCHANGED silence
ClearCall(fixed) == ClearFault(fixed) /\ UNCHANGED silence
TickCall         == Tick /\ UNCHANGED silence

\* Time passes.  The main loop reaches tick() at least every MaxGap.
Elapse(d) ==
  /\ tick_age + d <= MaxGap
  /\ tick_age' = tick_age + d
  /\ silence' = Saturated(silence + d)
  /\ UNCHANGED <<state, orders, fault_code>>

-----------------------------------------------------------------------------
\* last_seen_ and last_tick_ start at the epoch, that is at power-up.
Init ==
  /\ state = "Safe"
  /\ cmd = Halt /\ ramp = Halt
  /\ fault_code = 0
  /\ \E age \in BootAges : silence = Saturated(age) /\ tick_age = age

Next ==
  \/ FrameHeard
  \/ ArmCall
  \/ \E o \in Orders : MoveCall(o)
  \/ StopFrame
  \/ LocalStop
  \/ \E code \in FaultCodes : FaultCall(code)
  \/ \E fixed \in BOOLEAN : ClearCall(fixed)
  \/ TickCall
  \/ \E d \in Elapses : Elapse(d)

Spec == Init /\ [][Next]_coreVars

\* The main loop never blocks for ever and the clock never stops.
FairSpec == /\ Spec
            /\ WF_coreVars(TickCall)
            /\ WF_coreVars(\E d \in Elapses : Elapse(d))

-----------------------------------------------------------------------------
\* Properties

TypeOK ==
  /\ state \in TacticalState
  /\ cmd \in [Wheels -> Int16]
  /\ ramp \in [Wheels -> Int16]
  /\ fault_code \in UInt16
  /\ silence \in 0 .. SilenceCap
  /\ tick_age \in Nat

\* Nothing survives a stop or a fault: with the motors gated off both the
\* standing order and the ramp are zero, so that a later arm cannot resume an
\* old order (enter(), tactical.h:93-95).
DisarmedAtRest == state \in Gated => cmd = Halt /\ ramp = Halt

\* The ramp of a lost vehicle stays between zero and the order it was obeying:
\* no overshoot through zero, no acceleration, whatever the gap between two
\* ticks (decay(), tactical.h:114-118, with the seeding of enter()).
RampWithinOrder ==
  state = "Fallback" =>
    \A w \in Wheels : \/ 0 <= ramp[w] /\ ramp[w] <= cmd[w]
                      \/ cmd[w] <= ramp[w] /\ ramp[w] <= 0

\* A fault code is only ever standing while the fault is latched.
FaultCodeOnlyInFault == fault_code # 0 => state = "Fault"

\* An armed vehicle has heard a commander within the liveness window, give or
\* take the time since the last tick: no sequence of arms, stops and resumes
\* (each restarts last_tick_) lets Active outlive its commander.
ActiveMeansHeard ==
  state = "Active" => /\ silence <= LIVENESS_TIMEOUT + tick_age
                      /\ tick_age <= MaxGap

\* The inductive invariant behind all of the above.
CoreInv ==
  /\ TypeOK
  /\ DisarmedAtRest
  /\ RampWithinOrder
  /\ FaultCodeOnlyInFault
  /\ ActiveMeansHeard

\* The outputs keep the promise of DriveContract.
Mode == CASE state = "Active"   -> "driving"
          [] state = "Fallback" -> "coasting"
          [] OTHER              -> "stopped"

Contract == INSTANCE DriveContract WITH mode <- Mode, out <- Target

ImplementsContract == Contract!Spec

\* A vehicle without a commander comes to rest, or somebody takes it over or
\* stops it ("Fallback ramps both targets to zero", README.md).
FallbackReachesRest ==
  state = "Fallback" ~> (state # "Fallback" \/ Target = Halt)
=============================================================================
