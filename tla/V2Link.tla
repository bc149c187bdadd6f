------------------------------- MODULE V2Link -------------------------------
(***************************************************************************)
(* The base board, the air and a Wanderer: class BaseState and the base's  *)
(* side of main() in src/Pico2_V2_RF/src/main.cpp, composed with the       *)
(* Wanderer.  Every command and every poll is one blocking radio.write();  *)
(* while it lasts the radio retransmits, the Wanderer goes on with its     *)
(* loop, and any acknowledgement may be lost.  Replies come back on the    *)
(* acknowledgements of later frames.                                       *)
(***************************************************************************)
EXTENDS Wanderer

CONSTANTS
  Commands,       \* the frames the base's console sends
  MaxCommands     \* bound on how many of them, and of rf reports, are sent

VARIABLES
  base_pc,        \* "console", "poll" or "rf"
  phase,          \* of transmit_frame(): see Phase
  flight,         \* the frame being sent
  accepted,       \* the Wanderer's radio has accepted it
  got,            \* the head of tx, having ridden, has reached the base
  base_rx,        \* the base radio's receive FIFO
  link_up,        \* link_up_
  have_state,     \* have_state_
  last_state,     \* last_state_
  taken,          \* the downlink frame dispatched last
  commands        \* commands sent so far

baseVars == <<base_pc, phase, flight, accepted, base_rx, link_up,
              have_state, last_state, taken, commands>>
linkVars == <<wandererVars, baseVars, got>>

Phase == {"idle", "on_air", "acked", "failed", "drain"}
NoFrame == [kind |-> "none"]
Nop     == [kind |-> "nop"]
GetPa   == [kind |-> "getpa"]

ASSUME LinkAssumption == MaxCommands \in Nat

-----------------------------------------------------------------------------
\* The base's loop

\* radio.write() begins.
Send(f) == phase' = "on_air" /\ flight' = f /\ accepted' = FALSE

\* A console line that sends a frame (tx_arm_cmd() and its siblings).
BaseCommand(f) ==
  /\ base_pc = "console" /\ phase = "idle"
  /\ commands < MaxCommands
  /\ commands' = commands + 1
  /\ Send(f)
  /\ UNCHANGED <<base_pc, base_rx, link_up, have_state, last_state, taken>>

BaseConsoleDone ==
  /\ base_pc = "console" /\ phase = "idle"
  /\ base_pc' = "poll"
  /\ UNCHANGED <<phase, flight, accepted, base_rx, link_up, have_state,
                 last_state, taken, commands>>

\* poll_wanderer(): a poll, when one is due.
Poll ==
  /\ base_pc = "poll" /\ phase = "idle"
  /\ base_pc' = "rf"
  /\ Send(Nop)
  /\ UNCHANGED <<base_rx, link_up, have_state, last_state, taken, commands>>

NoPollDue ==
  /\ base_pc = "poll" /\ phase = "idle"
  /\ base_pc' = "rf"
  /\ UNCHANGED <<phase, flight, accepted, base_rx, link_up, have_state,
                 last_state, taken, commands>>

\* report_rf_stats(), when due, asks for the Wanderer's PA level.
RfReport ==
  /\ base_pc = "rf" /\ phase = "idle"
  /\ commands < MaxCommands
  /\ commands' = commands + 1
  /\ base_pc' = "console"
  /\ Send(GetPa)
  /\ UNCHANGED <<base_rx, link_up, have_state, last_state, taken>>

NoRfReport ==
  /\ base_pc = "rf" /\ phase = "idle"
  /\ base_pc' = "console"
  /\ UNCHANGED <<phase, flight, accepted, base_rx, link_up, have_state,
                 last_state, taken, commands>>

UpdateLinkDrainingLate ==                       \* mutant: nothing drained on the way up
  /\ phase \in {"acked", "failed"}
  /\ link_up' = (phase = "acked")
  /\ phase' = IF phase = "acked" /\ link_up THEN "drain" ELSE "idle"
  /\ UNCHANGED <<base_pc, flight, accepted, base_rx, have_state, last_state,
                 taken, commands>>

\* update_link().
UpdateLink ==
  /\ phase \in {"acked", "failed"}
  /\ link_up' = (phase = "acked")
  /\ phase' = IF phase = "acked" THEN "drain" ELSE "idle"
  /\ UNCHANGED <<base_pc, flight, accepted, base_rx, have_state, last_state,
                 taken, commands>>

ObserveFirstOnly(p) ==                          \* mutant: only the baseline is kept
  IF p.kind = "telemetry" /\ ~have_state
    THEN have_state' = TRUE /\ last_state' = p.state
    ELSE UNCHANGED <<have_state, last_state>>

\* observe_telemetry_state().
Observe(p) ==
  IF p.kind = "telemetry"
    THEN have_state' = TRUE /\ last_state' = p.state
    ELSE UNCHANGED <<have_state, last_state>>

DispatchWithoutRead ==                          \* mutant: FIFO not advanced
  /\ phase = "drain" /\ base_rx # <<>>
  /\ taken' = Head(base_rx)
  /\ Observe(Head(base_rx)[1])
  /\ phase' = "idle"
  /\ UNCHANGED <<base_pc, flight, accepted, base_rx, link_up, commands>>

\* drain_downlink(): read one payload and dispatch it by its type.
Dispatch ==
  /\ phase = "drain" /\ base_rx # <<>>
  /\ base_rx' = Tail(base_rx)
  /\ taken' = Head(base_rx)
  /\ Observe(Head(base_rx)[1])
  /\ UNCHANGED <<base_pc, phase, flight, accepted, link_up, commands>>

Drained ==
  /\ phase = "drain" /\ base_rx = <<>>
  /\ phase' = "idle"
  /\ UNCHANGED <<base_pc, flight, accepted, base_rx, link_up, have_state,
                 last_state, taken, commands>>

\* getDynamicPayloadSize() read a corrupt width and flushed the FIFO.
CorruptDrain ==
  /\ CorruptReads
  /\ phase = "drain" /\ base_rx # <<>>
  /\ base_rx' = <<>>
  /\ phase' = "idle"
  /\ UNCHANGED <<base_pc, flight, accepted, link_up, have_state, last_state,
                 taken, commands>>

BaseStep ==
  /\ \/ BaseConsoleDone \/ Poll \/ NoPollDue \/ RfReport \/ NoRfReport
     \/ UpdateLink \/ Dispatch \/ Drained
  /\ UNCHANGED <<wandererVars, got>>

-----------------------------------------------------------------------------
\* The air (external).  A frame or an acknowledgement may be lost; the base
\* radio retransmits until it hears one, or gives up.

\* The base hears the acknowledgement and the payload p that rode it.
Hear(p) == /\ phase' = "acked"
           /\ base_rx' = IF Len(base_rx) < RX_DEPTH THEN base_rx \o p ELSE base_rx

HeadOf(fifo) == IF fifo = <<>> THEN <<>> ELSE <<Head(fifo)>>

\* First reception of the frame, its acknowledgement heard or lost.
Deliver(heard) ==
  /\ phase = "on_air" /\ ~accepted
  /\ HwAccept(flight)
  /\ accepted' = TRUE
  /\ IF heard THEN Hear(HeadOf(Waiting)) ELSE UNCHANGED <<phase, base_rx>>
  /\ got' = (heard /\ Waiting # <<>>)
  /\ UNCHANGED <<base_pc, flight, link_up, have_state, last_state, taken, commands>>

\* A retransmission of an accepted frame, its acknowledgement heard or lost.
DeliverRepeat(heard) ==
  /\ phase = "on_air" /\ accepted
  /\ HwRepeat
  /\ IF heard THEN Hear(HeadOf(tx)) ELSE UNCHANGED <<phase, base_rx>>
  /\ got' = (tx # <<>> /\ (heard \/ (held /\ got)))
  /\ UNCHANGED <<base_pc, flight, accepted, link_up, have_state, last_state,
                 taken, commands>>

\* All retransmissions are spent: radio.write() returns false.
GiveUp ==
  /\ phase = "on_air"
  /\ phase' = "failed"
  /\ UNCHANGED <<wandererVars, base_pc, flight, accepted, base_rx, link_up,
                 have_state, last_state, taken, commands, got>>

AckWithPayload ==
  \/ Deliver(TRUE) /\ Waiting # <<>>
  \/ DeliverRepeat(TRUE) /\ tx # <<>>

-----------------------------------------------------------------------------
LInit ==
  /\ WInit
  /\ base_pc = "console"
  /\ phase = "idle" /\ flight = NoFrame /\ accepted = FALSE
  /\ got = FALSE
  /\ base_rx = <<>>
  /\ link_up = FALSE
  /\ have_state = FALSE /\ last_state = "Safe"
  /\ taken = <<NoFrame, 0>>
  /\ commands = 0

\* A step of the Wanderer's board; restaging forgets what rode before.
WandererStep ==
  /\ \/ LoopStep \/ ConsoleLine \/ CorruptRead
     \/ \E d \in Elapses : Wait(d)
  /\ got' = (got /\ held')
  /\ UNCHANGED baseVars

LNext ==
  \/ WandererStep
  \/ BaseStep
  \/ (\E f \in Commands : BaseCommand(f)) /\ UNCHANGED <<wandererVars, got>>
  \/ CorruptDrain /\ UNCHANGED <<wandererVars, got>>
  \/ \E heard \in BOOLEAN : Deliver(heard) \/ DeliverRepeat(heard)
  \/ GiveUp

LSpec == LInit /\ [][LNext]_linkVars

\* Both loops run, polls become due again and again, and a write comes to an
\* end.  Of the air: infinitely many frames get through, and of the
\* acknowledgements that could bring a payload to the base infinitely many do.
FairLSpec ==
  /\ LSpec
  /\ WF_linkVars(LoopStep /\ got' = (got /\ held') /\ UNCHANGED baseVars)
  /\ WF_linkVars(BaseStep)
  /\ SF_linkVars(Poll /\ UNCHANGED <<wandererVars, got>>)
  /\ WF_linkVars(GiveUp)
  /\ SF_linkVars(\E heard \in BOOLEAN : Deliver(heard))
  /\ SF_linkVars(AckWithPayload)

-----------------------------------------------------------------------------
\* Properties

\* A payload cannot be left over in the base's FIFO: every acknowledgement is
\* drained before the next frame is sent, so its reply is never taken for the
\* answer to a later frame (transmit_frame(), main.cpp:640-647).
DrainedBeforeNextFrame == phase \in {"idle", "on_air", "failed"} => base_rx = <<>>

\* What the base dispatches is a stream that may lose frames and never
\* repeats, reorders or invents one, through lost acknowledgements,
\* retransmissions, bursts, flushes and corrupt reads at both ends.
Downlink == INSTANCE DownlinkStream WITH
              pipe <- base_rx \o (IF held /\ got THEN Tail(tx) ELSE tx)

StreamInOrder == Downlink!Spec

\* Once the vehicle's state changes no more, the base ends up showing it.
BaseEventuallyLearns ==
  <>[][UNCHANGED state]_state => <>[](have_state /\ last_state = state)
=============================================================================
