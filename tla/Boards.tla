------------------------------- MODULE Boards -------------------------------
(***************************************************************************)
(* A whole board of src/Pico2_V2_RF/src/main.cpp around its radio: the     *)
(* main loop of either role composed with the radio health of RadioHealth. *)
(* On the base the work of a pass is console lines, the poll and the       *)
(* report, which keep the state of BaseStation; on the Wanderer it is      *)
(* console lines and received frames, of which only the sign of life and   *)
(* the two outputs that depend on the radio, the link LED and the PA       *)
(* level, are kept here (the rest is module Wanderer).                     *)
(*                                                                         *)
(* The other board is external: peer says whether it is there, that is     *)
(* whether a frame sent to it is acknowledged and frames come from it.     *)
(***************************************************************************)
EXTENDS RadioHealth, BaseStation

VARIABLES
  work,        \* where the base is in its work: "console", "poll" or "rf"
  peer,        \* the other board is on, in range and listening
  pa,          \* the PA level register of the radio
  alive,       \* commander_alive() on a Wanderer
  led          \* GP2 is lit

wandererVars == <<alive, led>>
boardVars    == <<vars, stationVars, work, peer, pa, wandererVars>>

Pa_Min     == 0
Pa_Default == 3              \* of a chip that was just powered

\* What the work of a pass leaves to the rest of the board.
RadioUntouched == UNCHANGED <<role, chip, radio_ready, radio_connected,
                              health_due, settled, blinked>>

-----------------------------------------------------------------------------
\* The base's pass

AtBase(w) == role = "Base" /\ pc = "work" /\ work = w

\* radio.write(): without a configured chip it gives up.
Delivered == chip = "configured" /\ peer

\* A line that sends a frame.  The console is not gated on radio_ready.
SendLine ==
  /\ AtBase("console")
  /\ Transmit(Delivered)
  /\ UNCHANGED <<pc, work, peer, pa, wandererVars>>
  /\ RadioUntouched

\* rf, rf on|off and tlm.
RfLine ==
  /\ AtBase("console")
  /\ Report(Delivered)
  /\ UNCHANGED <<pc, work, peer, pa, wandererVars>>
  /\ RadioUntouched

SettingLine ==
  /\ AtBase("console")
  /\ \/ \E on \in BOOLEAN : SetAuto(on)
     \/ \E t \in TelemetrySettings : SetTelemetry(t)
  /\ UNCHANGED <<pc, work, peer, pa, wandererVars>>
  /\ RadioUntouched

\* setbpa on the base, setpa on the Wanderer: radio.setPALevel() reaches a
\* chip that is powered.
PaLine(level) ==
  /\ pc = "work" /\ work = "console"
  /\ pa' = IF IsChipConnected THEN level ELSE pa
  /\ UNCHANGED <<stationVars, pc, work, peer, wandererVars>>
  /\ RadioUntouched

\* The end of the base's lines.  Nothing below is reached without radio_ready.
BaseLinesDone ==
  /\ AtBase("console")
  /\ IF radio_ready THEN work' = "poll" /\ UNCHANGED pc
                    ELSE pc' = "health" /\ UNCHANGED work
  /\ UNCHANGED <<stationVars, peer, pa, wandererVars>>
  /\ RadioUntouched

\* poll_wanderer(), when the poll is due and when it is not.
PollWanderer ==
  /\ AtBase("poll")
  /\ Transmit(Delivered)
  /\ work' = "rf"
  /\ UNCHANGED <<pc, peer, pa, wandererVars>>
  /\ RadioUntouched

PollNotDue ==
  /\ AtBase("poll")
  /\ work' = "rf"
  /\ UNCHANGED <<stationVars, pc, peer, pa, wandererVars>>
  /\ RadioUntouched

\* rf_report_due(), true and false.
AutoReport ==
  /\ AtBase("rf") /\ rf_auto
  /\ Report(Delivered)
  /\ work' = "console" /\ pc' = "health"
  /\ UNCHANGED <<peer, pa, wandererVars>>
  /\ RadioUntouched

ReportNotDue ==
  /\ AtBase("rf")
  /\ work' = "console" /\ pc' = "health"
  /\ UNCHANGED <<stationVars, peer, pa, wandererVars>>
  /\ RadioUntouched

-----------------------------------------------------------------------------
\* The Wanderer's pass

\* A console order is a sign of life, whatever the radio does.
OrderLine ==
  /\ role = "Wanderer" /\ pc = "work"
  /\ alive' = TRUE
  /\ UNCHANGED <<stationVars, pc, work, peer, pa, led>>
  /\ RadioUntouched

\* process_wanderer_radio(), gated on radio_ready, then tick(): frames are
\* there to be read or not, and one of them may set the PA level.
ReceiveAndTick ==
  /\ role = "Wanderer" /\ pc = "work"
  /\ \/ /\ radio_ready /\ chip = "listening" /\ peer
        /\ alive' = TRUE
        /\ \/ \E level \in {Pa_Min, Pa_Default} : pa' = level
           \/ UNCHANGED pa
     \/ UNCHANGED <<alive, pa>>
  /\ pc' = "health"
  /\ UNCHANGED <<stationVars, work, peer, led>>
  /\ RadioUntouched

Silence ==
  /\ role = "Wanderer" /\ alive
  /\ alive' = FALSE
  /\ UNCHANGED <<vars, stationVars, work, peer, pa, led>>

-----------------------------------------------------------------------------
\* The end of a pass, both roles

LinkLedWhileReady ==                          \* mutant: not run without the radio
  /\ pc = "leds"
  /\ pc' = "work"
  /\ \/ role = "Wanderer" /\ radio_ready /\ ~alive /\ led' = FALSE
     \/ role = "Wanderer" /\ radio_ready /\ alive /\ led' \in BOOLEAN
     \/ (role = "Base" \/ ~radio_ready) /\ UNCHANGED led
  /\ UNCHANGED <<stationVars, work, peer, pa, alive>>
  /\ RadioUntouched

\* The link LED: dark without a radio in use or a live commander, else it
\* toggles when its time has come.
LinkLed ==
  /\ pc = "leds"
  /\ pc' = "work"
  /\ \/ role = "Wanderer" /\ ~(radio_ready /\ alive) /\ led' = FALSE
     \/ role = "Wanderer" /\ radio_ready /\ alive /\ led' \in BOOLEAN
     \/ role = "Base" /\ UNCHANGED led
  /\ UNCHANGED <<stationVars, work, peer, pa, alive>>
  /\ RadioUntouched

-----------------------------------------------------------------------------
\* The radio's health, and the environment

PaAfterKept == UNCHANGED pa               \* mutant: the level is not set

\* configure_radio() starts from the lowest level.
PaAfter ==
  /\ pa' = IF pc \in {"boot_configure", "configure"} /\ IsChipConnected THEN Pa_Min ELSE pa

Health ==
  /\ HealthStep
  /\ PaAfter
  /\ UNCHANGED <<blinked, stationVars, work, peer, wandererVars>>

HealthDue == HealthTimer /\ UNCHANGED <<stationVars, work, peer, pa, wandererVars>>

Power ==
  /\ \/ PowerOff /\ UNCHANGED pa
     \/ PowerOn /\ pa' = Pa_Default
  /\ UNCHANGED <<stationVars, work, peer, wandererVars>>

PeerChange == peer' = ~peer /\ UNCHANGED <<vars, stationVars, work, pa, wandererVars>>

TimePasses == Pass /\ UNCHANGED <<vars, work, peer, pa, wandererVars>>

-----------------------------------------------------------------------------
BoardInit ==
  /\ Init /\ StationInit
  /\ work = "console"
  /\ peer \in BOOLEAN
  /\ pa = Pa_Default
  /\ alive = (role = "Wanderer") /\ led = FALSE

\* The passes of the loop that no input and no timer adds to.
PassStep ==
  \/ BaseLinesDone \/ PollNotDue \/ ReportNotDue \/ ReceiveAndTick
  \/ LinkLed \/ Health

BoardNext ==
  \/ PassStep \/ PollWanderer \/ AutoReport
  \/ SendLine \/ RfLine \/ SettingLine \/ OrderLine
  \/ \E level \in {Pa_Min, Pa_Default} : PaLine(level)
  \/ HealthDue \/ Power \/ PeerChange \/ TimePasses \/ Silence

\* The loop goes on and its timers fire: a poll that is reached again and
\* again is due again and again.  Nothing is owed by power or by the peer.
BoardSpec ==
  /\ BoardInit /\ [][BoardNext]_boardVars
  /\ WF_boardVars(PassStep) /\ WF_boardVars(HealthDue) /\ SF_boardVars(PollWanderer)

-----------------------------------------------------------------------------
\* Properties

\* The console is not gated on the radio, but a frame that it sends while the
\* radio is out of use is never taken for delivered: whatever the power does, a
\* chip that can send is one the loop has in use (main.cpp:1034-1045).
UnreadyIsSilent == [][ tx_ok' # tx_ok => radio_ready ]_boardVars

\* A board comes on the air at the lowest level, and louder only because it was
\* told to: power cycles, which reset the chip to its highest level, never make
\* it so (configure_radio(), main.cpp:216-240).
NeverLouder ==
  [][ Operational' =>
        \/ Operational /\ (pa' <= pa \/ pc = "work")
        \/ pa' = Pa_Min ]_boardVars

\* A radio out of use leaves the link LED dark when the pass is over ("a
\* dropped radio forces the LED dark instead of freezing it mid-blink",
\* main.cpp:1093-1094).
DeadRadioDark == led /\ pc # "leds" => radio_ready

\* The base ends up telling the truth about the link, if its radio keeps its
\* power from some time on and a health check ran between any two changes of
\* it: up while the Wanderer answers, down while it does not.
LinkTold ==
  /\ <>[](role = "Base" /\ chip # "off" /\ ~blinked /\ peer) => <>[]link_up
  /\ <>[](role = "Base" /\ chip # "off" /\ ~blinked /\ ~peer) => <>[]~link_up
=============================================================================
