---------------------------- MODULE RadioHealth ----------------------------
(***************************************************************************)
(* The radio module across power cycles: radio_ready and radio_connected   *)
(* in main() of src/Pico2_V2_RF/src/main.cpp, the once-a-second health     *)
(* check, and begin() followed by configure_radio().  Both roles run this  *)
(* code.  Power may come and go between any two SPI exchanges.             *)
(*                                                                         *)
(* The nRF24 itself is external.  isChipConnected() compares one register  *)
(* with a value that is also its power-on default, so a chip that lost its *)
(* settings still answers "connected"; an unpowered one does not.          *)
(***************************************************************************)
VARIABLES
  role,             \* which board this is, read once from PIN_ROLE
  pc,               \* where main() is
  chip,             \* what the nRF24 is: see ChipState
  radio_ready,
  radio_connected,
  health_due,       \* time_reached(next_radio_health)
  settled,          \* history: a health check has run since power last changed
  blinked           \* history: power has changed twice with no check between

vars == <<role, pc, chip, radio_ready, radio_connected, health_due, settled, blinked>>

\* "default": powered but at reset values; "begun": after begin();
\* "configured": after configure_radio(); "listening": PRX mode.
ChipState == {"off", "default", "begun", "configured", "listening"}

Boot   == {"boot_begin", "boot_configure", "boot_stage"}
Loop   == {"work", "health", "leds"}
Rerun  == {"begin", "configure", "stage"}

IsChipConnected == chip # "off"

\* What the chip must be for frames to flow.
Operational == chip = IF role = "Base" THEN "configured" ELSE "listening"

-----------------------------------------------------------------------------
\* The chip's reaction to the library's calls

\* radio.begin(): soft-resets and powers up a chip that is there.
Begin == chip' = IF IsChipConnected THEN "begun" ELSE chip

\* The register writes of configure_radio(); without a begin() before them
\* they leave the chip powered down.
Configure == chip' = IF chip = "begun" THEN "configured" ELSE chip

\* Preload one ACK payload, startListening().
Listen == chip' = IF chip = "configured" THEN "listening" ELSE chip

-----------------------------------------------------------------------------
\* Boot: radio_ready = begin() && configure_radio(role), then the preload.

BootBegin ==
  /\ pc = "boot_begin"
  /\ Begin
  /\ pc' = IF IsChipConnected THEN "boot_configure" ELSE "boot_stage"
  /\ UNCHANGED <<role, radio_ready, radio_connected, health_due, settled>>

BootConfigure ==
  /\ pc = "boot_configure"
  /\ Configure
  /\ radio_ready' = IsChipConnected
  /\ pc' = "boot_stage"
  /\ UNCHANGED <<role, radio_connected, health_due, settled>>

BootStage ==
  /\ pc = "boot_stage"
  /\ IF radio_ready /\ role = "Wanderer" THEN Listen ELSE UNCHANGED chip
  /\ radio_connected' = radio_ready
  /\ pc' = "work"
  /\ UNCHANGED <<role, radio_ready, health_due, settled>>

-----------------------------------------------------------------------------
\* One pass of the main loop

\* Console lines, polls and received frames leave these variables alone.
Work ==
  /\ pc = "work"
  /\ pc' = "health"
  /\ UNCHANGED <<role, chip, radio_ready, radio_connected, health_due, settled>>

NotDue ==
  /\ pc = "health" /\ ~health_due
  /\ pc' = "leds"
  /\ UNCHANGED <<role, chip, radio_ready, radio_connected, health_due, settled>>

\* The end of the health block rearms the timer.
Rearm == health_due' = FALSE /\ settled' = TRUE

\* The block is skipped unless the answer differs from the remembered one.
CheckSame ==
  /\ pc = "health" /\ health_due
  /\ IsChipConnected = radio_connected
  /\ pc' = "leds"
  /\ Rearm
  /\ UNCHANGED <<role, chip, radio_ready, radio_connected>>

CheckLostKeepsReady ==                      \* mutant: readiness not withdrawn
  /\ pc = "health" /\ health_due
  /\ ~IsChipConnected /\ radio_connected
  /\ radio_connected' = FALSE
  /\ pc' = "leds"
  /\ Rearm
  /\ UNCHANGED <<role, chip, radio_ready>>

CheckLost ==
  /\ pc = "health" /\ health_due
  /\ ~IsChipConnected /\ radio_connected
  /\ radio_connected' = FALSE
  /\ radio_ready' = FALSE
  /\ pc' = "leds"
  /\ Rearm
  /\ UNCHANGED <<role, chip>>

CheckBack ==
  /\ pc = "health" /\ health_due
  /\ IsChipConnected /\ ~radio_connected
  /\ radio_connected' = TRUE
  /\ pc' = "begin"
  /\ UNCHANGED <<role, chip, radio_ready, health_due, settled>>

\* radio_ready = connected && begin() && configure_radio(): a begin() that
\* fails leaves radio_connected TRUE.
RerunBegin ==
  /\ pc = "begin"
  /\ Begin
  /\ \/ IsChipConnected /\ pc' = "configure" /\ UNCHANGED <<radio_ready, health_due, settled>>
     \/ ~IsChipConnected /\ radio_ready' = FALSE /\ pc' = "leds" /\ Rearm
  /\ UNCHANGED <<role, radio_connected>>

RerunConfigureUnlistened ==                 \* mutant: listening not restarted
  /\ pc = "configure"
  /\ Configure
  /\ radio_ready' = IsChipConnected
  /\ pc' = "leds" /\ Rearm
  /\ UNCHANGED <<role, radio_connected>>

RerunConfigureForgotten ==                  \* mutant: readiness not given back
  /\ pc = "configure"
  /\ Configure
  /\ \/ IsChipConnected /\ role = "Wanderer" /\ pc' = "stage" /\ UNCHANGED <<health_due, settled>>
     \/ (~IsChipConnected \/ role = "Base") /\ pc' = "leds" /\ Rearm
  /\ UNCHANGED <<role, radio_ready, radio_connected>>

RerunConfigure ==
  /\ pc = "configure"
  /\ Configure
  /\ radio_ready' = IsChipConnected
  /\ \/ IsChipConnected /\ role = "Wanderer" /\ pc' = "stage" /\ UNCHANGED <<health_due, settled>>
     \/ (~IsChipConnected \/ role = "Base") /\ pc' = "leds" /\ Rearm
  /\ UNCHANGED <<role, radio_connected>>

RerunStage ==
  /\ pc = "stage"
  /\ Listen
  /\ pc' = "leds"
  /\ Rearm
  /\ UNCHANGED <<role, radio_ready, radio_connected>>

\* The end of a pass: the two LEDs.
Leds ==
  /\ pc = "leds"
  /\ pc' = "work"
  /\ UNCHANGED <<role, chip, radio_ready, radio_connected, health_due, settled>>

-----------------------------------------------------------------------------
\* The environment

HealthTimer ==
  /\ ~health_due
  /\ health_due' = TRUE
  /\ UNCHANGED <<role, pc, chip, radio_ready, radio_connected, settled, blinked>>

\* The history of a power change.
PowerChange == settled' = FALSE /\ blinked' = (blinked \/ ~settled)

PowerOff ==
  /\ chip # "off"
  /\ chip' = "off"
  /\ PowerChange
  /\ UNCHANGED <<role, pc, radio_ready, radio_connected, health_due>>

PowerOn ==
  /\ chip = "off"
  /\ chip' = "default"
  /\ PowerChange
  /\ UNCHANGED <<role, pc, radio_ready, radio_connected, health_due>>

-----------------------------------------------------------------------------
Init ==
  /\ role \in {"Base", "Wanderer"}
  /\ pc = "boot_begin"
  /\ chip \in {"off", "default"}
  /\ radio_ready = FALSE /\ radio_connected = FALSE
  /\ health_due = FALSE
  /\ settled = TRUE /\ blinked = FALSE

\* What the board does about its radio: everything but Work and Leds.
HealthStep ==
  \/ BootBegin \/ BootConfigure \/ BootStage
  \/ NotDue \/ CheckSame \/ CheckLost \/ CheckBack
  \/ RerunBegin \/ RerunConfigure \/ RerunStage

LoopStep ==
  /\ HealthStep \/ Work \/ Leds
  /\ UNCHANGED blinked

Next == LoopStep \/ HealthTimer \/ PowerOff \/ PowerOn

\* The loop never blocks and the timer keeps firing; power owes nothing.
Spec == Init /\ [][Next]_vars /\ WF_vars(LoopStep) /\ WF_vars(HealthTimer)

-----------------------------------------------------------------------------
\* Properties

\* A radio that stays unpowered is eventually taken out of use, whatever the
\* power did before (main.cpp:1067-1083).
DeadRadioNoticed == (chip = "off") ~> (chip # "off" \/ ~radio_ready)

\* Once power stays on, the board eventually has its radio in use again and
\* for good, if a health check ran between any two changes of power ("This
\* lets the RF link resume after the radio is repowered without rebooting the
\* base", main.cpp:1073-1074).
LinkResumes ==
  <>[](chip # "off" /\ ~blinked) => <>[](radio_ready /\ Operational)

\* The part of that promise about noticing: with power on for good the board
\* does not leave its radio out of use.
ReadyAgain == <>[](chip # "off") => <>radio_ready
=============================================================================
