---------------------------- MODULE BoardsProofs ----------------------------
(***************************************************************************)
(* Theorems about a board around its radio, for every width of the         *)
(* counters, every resolution of the clock and every telemetry rate, with  *)
(* the power coming and going between any two steps.                       *)
(***************************************************************************)
EXTENDS Boards, TLAPS

\* A chip that is set up is one the loop has in use, although the two are
\* changed by different things.
SetUpIsReady == chip \in {"configured", "listening"} => radio_ready

\* A Wanderer whose chip is set up and not yet listening is about to make it
\* listen, still at the lowest level.
StartsQuiet ==
  role = "Wanderer" /\ chip = "configured" => pc \in {"boot_stage", "stage"} /\ pa = Pa_Min

\* The LED has not been lit before the first pass, and is a Wanderer's.
LedAfterBoot == led => pc \notin Boot /\ role = "Wanderer"

BoardInv ==
  /\ SetUpIsReady /\ StartsQuiet
  /\ LedAfterBoot /\ DeadRadioDark
  /\ role \in {"Base", "Wanderer"} /\ pa \in Int

LEMMA BoardStart == BoardInit => BoardInv
  BY DEF BoardInit, Init, BoardInv, SetUpIsReady, StartsQuiet, LedAfterBoot,
     DeadRadioDark, Pa_Default

-----------------------------------------------------------------------------
\* What the steps of the health check and of boot do

LEMMA HealthKeeps ==
  ASSUME BoardInv, Health
  PROVE  BoardInv'
<1> USE DEF BoardInv, Health, PaAfter, SetUpIsReady, StartsQuiet, LedAfterBoot,
            DeadRadioDark, IsChipConnected, wandererVars, Boot, Pa_Min
<1>1. CASE BootBegin
  BY <1>1 DEF BootBegin, Begin
<1>2. CASE BootConfigure
  <2>1. radio_ready' <=> chip # "off"
    BY <1>2 DEF BootConfigure
  <2>2. CASE chip = "begun"
    BY <1>2, <2>1, <2>2 DEF BootConfigure, Configure
  <2>3. CASE chip # "begun"
    BY <1>2, <2>1, <2>3 DEF BootConfigure, Configure
  <2> QED
    BY <2>2, <2>3
<1>3. CASE BootStage
  BY <1>3 DEF BootStage, Listen
<1>4. CASE NotDue \/ CheckSame
  BY <1>4 DEF NotDue, CheckSame
<1>5. CASE CheckLost
  BY <1>5 DEF CheckLost
<1>6. CASE CheckBack
  BY <1>6 DEF CheckBack
<1>7. CASE RerunBegin
  BY <1>7 DEF RerunBegin, Begin
<1>8. CASE RerunConfigure
  <2>1. radio_ready' <=> chip # "off"
    BY <1>8 DEF RerunConfigure
  <2>2. CASE chip = "begun"
    BY <1>8, <2>1, <2>2 DEF RerunConfigure, Configure
  <2>3. CASE chip # "begun"
    BY <1>8, <2>1, <2>3 DEF RerunConfigure, Configure
  <2> QED
    BY <2>2, <2>3
<1>9. CASE RerunStage
  BY <1>9 DEF RerunStage, Listen
<1> QED
  BY <1>1, <1>2, <1>3, <1>4, <1>5, <1>6, <1>7, <1>8, <1>9 DEF HealthStep

\* The steps of a pass leave the radio and the LED to others.
LEMMA PassKeeps ==
  ASSUME BoardInv, RadioUntouched, UNCHANGED led,
         pc = "work", pc' \in {"work", "health"},
         UNCHANGED pa \/ pa' \in {Pa_Min, Pa_Default}
  PROVE  BoardInv'
  BY DEF BoardInv, RadioUntouched, SetUpIsReady, StartsQuiet, LedAfterBoot,
     DeadRadioDark, Boot, Pa_Min, Pa_Default

LEMMA BoardStep ==
  ASSUME BoardInv, [BoardNext]_boardVars
  PROVE  BoardInv'
<1>1. CASE SendLine \/ RfLine \/ SettingLine
  BY <1>1, PassKeeps DEF SendLine, RfLine, SettingLine, AtBase, wandererVars
<1>2. CASE BaseLinesDone \/ PollWanderer \/ PollNotDue
  BY <1>2, PassKeeps DEF BaseLinesDone, PollWanderer, PollNotDue, AtBase, wandererVars
<1>3. CASE AutoReport \/ ReportNotDue
  BY <1>3, PassKeeps DEF AutoReport, ReportNotDue, AtBase, wandererVars
<1>4. ASSUME NEW level \in {Pa_Min, Pa_Default}, PaLine(level)
      PROVE  BoardInv'
  BY <1>4, PassKeeps DEF PaLine, wandererVars
<1>5. CASE OrderLine \/ ReceiveAndTick
  BY <1>5, PassKeeps DEF OrderLine, ReceiveAndTick
<1>6. CASE LinkLed
  BY <1>6 DEF LinkLed, RadioUntouched, BoardInv, SetUpIsReady, StartsQuiet,
     LedAfterBoot, DeadRadioDark, Boot
<1>7. CASE Health
  BY <1>7, HealthKeeps
<1>8. CASE HealthDue \/ PeerChange \/ TimePasses \/ Silence \/ UNCHANGED boardVars
  BY <1>8 DEF HealthDue, HealthTimer, PeerChange, TimePasses, Silence, boardVars,
     vars, wandererVars, BoardInv, SetUpIsReady, StartsQuiet, LedAfterBoot, DeadRadioDark
<1>9. CASE Power
  BY <1>9 DEF Power, PowerOff, PowerOn, wandererVars, BoardInv, SetUpIsReady,
     StartsQuiet, LedAfterBoot, DeadRadioDark, Pa_Default
<1> QED
  BY <1>1, <1>2, <1>3, <1>4, <1>5, <1>6, <1>7, <1>8, <1>9 DEF BoardNext, PassStep

THEOREM BoardSafe == BoardSpec => []BoardInv
<1>1. BoardInv /\ [BoardNext]_boardVars => BoardInv'
  BY BoardStep
<1> QED
  BY BoardStart, <1>1, PTL DEF BoardSpec

-----------------------------------------------------------------------------
\* The results

\* A pass that ends without a radio in use ends with the link LED dark
\* (main.cpp:1093-1094).
THEOREM LedTellsNoLies == BoardSpec => []DeadRadioDark
<1>1. BoardInv => DeadRadioDark
  BY DEF BoardInv
<1> QED
  BY BoardSafe, <1>1, PTL

\* Nothing that is sent while the radio is out of use is counted as delivered,
\* not even from the console, which is not gated (main.cpp:1034-1045).
THEOREM UnreadyCountsNothing == BoardSpec => UnreadyIsSilent
<1>1. ASSUME BoardInv, [BoardNext]_boardVars
      PROVE  tx_ok' # tx_ok => radio_ready
  <2>1. Delivered => radio_ready
    BY <1>1 DEF BoardInv, SetUpIsReady, Delivered
  <2>2. ASSUME Transmit(Delivered) \/ Report(Delivered)
        PROVE  tx_ok' # tx_ok => radio_ready
    BY <2>1, <2>2 DEF Transmit, UpdateLink, Report
  <2>3. CASE SendLine \/ RfLine \/ PollWanderer \/ AutoReport
    BY <2>2, <2>3 DEF SendLine, RfLine, PollWanderer, AutoReport
  <2>4. CASE SettingLine
    BY <2>4 DEF SettingLine, SetAuto, SetTelemetry, linkVars
  <2>5. CASE PassStep
    BY <2>5 DEF PassStep, BaseLinesDone, PollNotDue, ReportNotDue, ReceiveAndTick,
       LinkLed, Health, stationVars, linkVars
  <2>6. CASE OrderLine \/ (\E level \in {Pa_Min, Pa_Default} : PaLine(level))
    BY <2>6 DEF OrderLine, PaLine, stationVars, linkVars
  <2>7. CASE HealthDue \/ Power \/ PeerChange \/ TimePasses \/ Silence
             \/ UNCHANGED boardVars
    BY <2>7 DEF HealthDue, Power, PeerChange, TimePasses, Pass, Silence, boardVars,
       stationVars, linkVars
  <2> QED
    BY <1>1, <2>3, <2>4, <2>5, <2>6, <2>7 DEF BoardNext
<1> QED
  BY BoardSafe, <1>1, PTL DEF BoardSpec, UnreadyIsSilent

\* Power cycles, which reset the chip to its highest level, never make a board
\* louder than it was told to be (configure_radio(), main.cpp:216-240).
THEOREM PowerNeverRaisesLevel == BoardSpec => NeverLouder
<1> DEFINE Quiet == Operational' =>
                      \/ Operational /\ (pa' <= pa \/ pc = "work")
                      \/ pa' = Pa_Min
<1>1. ASSUME BoardInv, [BoardNext]_boardVars
      PROVE  Quiet
  <2>1. CASE UNCHANGED <<role, chip, pa>>
    BY <1>1, <2>1 DEF Operational, BoardInv
  <2>2. CASE pc = "work" /\ RadioUntouched
    BY <2>2 DEF Operational, RadioUntouched
  <2>3. CASE Health
    <3> USE <1>1, <2>3 DEF Health, PaAfter, Operational, BoardInv, StartsQuiet,
                      IsChipConnected
    <3>1. CASE BootBegin \/ RerunBegin
      BY <3>1 DEF BootBegin, RerunBegin, Begin
    <3>2. CASE BootConfigure \/ RerunConfigure
      BY <3>2 DEF BootConfigure, RerunConfigure, Configure
    <3>3. CASE BootStage \/ RerunStage
      <4>1. pa' = pa /\ role' = role
        BY <3>3 DEF BootStage, RerunStage
      <4>2. CASE UNCHANGED chip
        BY <4>1, <4>2
      <4>3. CASE chip = "configured" /\ chip' = "listening"
        BY <4>1, <4>3
      <4> QED
        BY <3>3, <4>2, <4>3 DEF BootStage, RerunStage, Listen
    <3>4. CASE NotDue \/ CheckSame \/ CheckLost \/ CheckBack
      BY <3>4 DEF NotDue, CheckSame, CheckLost, CheckBack
    <3> QED
      BY <3>1, <3>2, <3>3, <3>4 DEF HealthStep
  <2>4. CASE Power
    BY <2>4 DEF Power, PowerOff, PowerOn, Operational
  <2>5. CASE SendLine \/ RfLine \/ SettingLine \/ OrderLine \/ PollWanderer \/ AutoReport
    BY <2>2, <2>5 DEF SendLine, RfLine, SettingLine, OrderLine, PollWanderer,
       AutoReport, AtBase
  <2>6. CASE BaseLinesDone \/ PollNotDue \/ ReportNotDue \/ ReceiveAndTick
             \/ (\E level \in {Pa_Min, Pa_Default} : PaLine(level))
    BY <2>2, <2>6 DEF BaseLinesDone, PollNotDue, ReportNotDue, ReceiveAndTick, PaLine, AtBase
  <2>7. CASE LinkLed \/ HealthDue \/ PeerChange \/ TimePasses \/ Silence
             \/ UNCHANGED boardVars
    BY <2>1, <2>7 DEF LinkLed, RadioUntouched, HealthDue, HealthTimer, PeerChange,
       TimePasses, Silence, boardVars, vars
  <2> QED
    BY <1>1, <2>3, <2>4, <2>5, <2>6, <2>7 DEF BoardNext, PassStep
<1> QED
  BY BoardSafe, <1>1, PTL DEF BoardSpec, NeverLouder

-----------------------------------------------------------------------------
\* What the base keeps about its link

\* The steps of a board, as far as the state of BaseStation goes.
StationStep ==
  \/ Transmit(Delivered) \/ Report(Delivered)
  \/ \E on \in BOOLEAN : SetAuto(on)
  \/ \E t \in TelemetrySettings : SetTelemetry(t)
  \/ Pass
  \/ UNCHANGED stationVars

LEMMA BoardMovesStation == [BoardNext]_boardVars => StationStep
<1> SUFFICES ASSUME [BoardNext]_boardVars PROVE StationStep
  OBVIOUS
<1>1. CASE SendLine \/ RfLine \/ PollWanderer \/ AutoReport \/ SettingLine
  BY <1>1 DEF SendLine, RfLine, PollWanderer, AutoReport, SettingLine, StationStep
<1>2. CASE PassStep
  BY <1>2 DEF PassStep, BaseLinesDone, PollNotDue, ReportNotDue, ReceiveAndTick,
     LinkLed, Health, StationStep
<1>3. CASE OrderLine \/ (\E level \in {Pa_Min, Pa_Default} : PaLine(level)) \/ TimePasses
  BY <1>3 DEF OrderLine, PaLine, TimePasses, StationStep
<1>4. CASE HealthDue \/ Power \/ PeerChange \/ Silence \/ UNCHANGED boardVars
  BY <1>4 DEF HealthDue, Power, PeerChange, Silence, boardVars, StationStep
<1> QED
  BY <1>1, <1>2, <1>3, <1>4 DEF BoardNext

\* The distance of two counters that have wrapped at most once.
Counter == 0 .. COUNT_MOD - 1

LEMMA CounterDistance ==
  ASSUME NEW a \in Counter, NEW b \in Counter
  PROVE  /\ More(a) \in Counter /\ Less(a, b) \in Counter
         /\ Less(a, b) + 1 < COUNT_MOD => Less(More(a), b) = Less(a, b) + 1
         /\ 1 < COUNT_MOD => Less(More(a), a) = 1
         /\ Less(a, a) = 0
<1> USE StationAssumption DEF Counter
<1>1. More(a) = IF a = COUNT_MOD - 1 THEN 0 ELSE a + 1
  BY DEF More
<1>2. \A x, y \in Counter : Less(x, y) = IF x >= y THEN x - y ELSE (x - y) + COUNT_MOD
  BY DEF Less
<1>3. More(a) \in Counter
  BY <1>1
<1>4. Less(More(a), b) = IF More(a) >= b THEN More(a) - b ELSE (More(a) - b) + COUNT_MOD
  BY <1>2, <1>3
<1>5. Less(More(a), a) = IF More(a) >= a THEN More(a) - a ELSE (More(a) - a) + COUNT_MOD
  BY <1>2, <1>3
<1>6. Less(a, b) = IF a >= b THEN a - b ELSE (a - b) + COUNT_MOD
  BY <1>2
<1>7. Less(a, b) + 1 < COUNT_MOD => Less(More(a), b) = Less(a, b) + 1
  BY <1>1, <1>4, <1>6
<1>8. 1 < COUNT_MOD => Less(More(a), a) = 1
  BY <1>1, <1>5
<1>9. Less(a, b) \in Counter
  BY <1>6
<1>10. Less(a, a) = 0
  BY <1>2
<1> QED
  BY <1>3, <1>7, <1>8, <1>9, <1>10

\* The counters since the last report agree with the history, and no more
\* frames were acknowledged than sent.
WindowInv ==
  /\ tx_total \in Counter /\ tx_ok \in Counter
  /\ at_report \in [total : Counter, ok : Counter]
  /\ window \in [sent : 0 .. COUNT_MOD, acked : 0 .. COUNT_MOD]
  /\ window.acked <= window.sent
  /\ ReportTellsWindow

LEMMA WindowInitially == StationInit => WindowInv
<1>1. 0 \in Counter
  BY StationAssumption DEF Counter
<1> QED
  BY <1>1, CounterDistance, StationAssumption DEF StationInit, WindowInv, ReportTellsWindow

LEMMA WindowCounts ==
  ASSUME WindowInv, NEW delivered \in BOOLEAN, UpdateLink(delivered), UNCHANGED at_report
  PROVE  WindowInv'
<1>1. /\ tx_total \in Counter /\ tx_ok \in Counter
      /\ at_report.total \in Counter /\ at_report.ok \in Counter
  BY DEF WindowInv
<1>2. tx_total' \in Counter /\ tx_ok' \in Counter
  BY <1>1, CounterDistance DEF UpdateLink
<1>3. /\ window' \in [sent : 0 .. COUNT_MOD, acked : 0 .. COUNT_MOD]
      /\ window'.acked <= window'.sent
      /\ window'.sent < COUNT_MOD => window.sent + 1 < COUNT_MOD
      /\ window'.sent < COUNT_MOD => window'.sent = window.sent + 1
      /\ window'.sent < COUNT_MOD => window'.acked = IF delivered THEN window.acked + 1
                                                                  ELSE window.acked
  BY StationAssumption DEF WindowInv, UpdateLink, Counted
<1>4. ASSUME window'.sent < COUNT_MOD
      PROVE  /\ Less(tx_total', at_report.total) = window'.sent
             /\ Less(tx_ok', at_report.ok) = window'.acked
  <2>1. /\ Less(tx_total, at_report.total) = window.sent /\ window.sent + 1 < COUNT_MOD
        /\ Less(tx_ok, at_report.ok) = window.acked /\ window.acked + 1 < COUNT_MOD
    BY <1>3, <1>4, StationAssumption DEF WindowInv, ReportTellsWindow
  <2>2. Less(More(tx_total), at_report.total) = window.sent + 1
    BY <1>1, <2>1, CounterDistance
  <2>3. Less(More(tx_ok), at_report.ok) = window.acked + 1
    BY <1>1, <2>1, CounterDistance
  <2> QED
    BY <1>3, <1>4, <2>1, <2>2, <2>3 DEF UpdateLink
<1> QED
  BY <1>2, <1>3, <1>4 DEF WindowInv, ReportTellsWindow

\* The report closes the window before it sends its query.
LEMMA WindowCloses ==
  ASSUME WindowInv, NEW delivered \in BOOLEAN, Report(delivered)
  PROVE  WindowInv'
<1>1. tx_total \in Counter /\ tx_ok \in Counter
  BY DEF WindowInv
<1>2. /\ tx_total' \in Counter /\ tx_ok' \in Counter
      /\ at_report' \in [total : Counter, ok : Counter]
  BY <1>1, CounterDistance DEF Report
<1>3. /\ window' \in [sent : 0 .. COUNT_MOD, acked : 0 .. COUNT_MOD]
      /\ window'.acked <= window'.sent
  BY StationAssumption DEF Report
<1>4. 1 < COUNT_MOD => /\ Less(tx_total', at_report'.total) = window'.sent
                       /\ Less(tx_ok', at_report'.ok) = window'.acked
  BY <1>1, CounterDistance DEF Report
<1> QED
  BY <1>2, <1>3, <1>4 DEF WindowInv, ReportTellsWindow, Report

LEMMA WindowStep ==
  ASSUME WindowInv, StationStep
  PROVE  WindowInv'
<1>1. CASE Transmit(Delivered)
  <2>1. Delivered \in BOOLEAN
    BY DEF Delivered
  <2> QED
    BY <1>1, <2>1, WindowCounts DEF Transmit, reportVars
<1>2. CASE Report(Delivered)
  <2>1. Delivered \in BOOLEAN
    BY DEF Delivered
  <2> QED
    BY <1>2, <2>1, WindowCloses
<1>3. CASE UNCHANGED <<linkVars, at_report>>
  BY <1>3 DEF linkVars, WindowInv, ReportTellsWindow
<1> QED
  BY <1>1, <1>2, <1>3 DEF StationStep, SetAuto, SetTelemetry, Pass, stationVars, reportVars

\* A report tells what became of the frames since the one before, its own query
\* counted in one window only, however often the counters have wrapped
\* (main.cpp:133-134).
THEOREM ReportsTellWindows == BoardSpec => []ReportTellsWindow
<1>1. BoardInit => WindowInv
  BY WindowInitially DEF BoardInit
<1>2. WindowInv /\ [BoardNext]_boardVars => WindowInv'
  BY BoardMovesStation, WindowStep
<1>3. WindowInv => ReportTellsWindow
  BY DEF WindowInv
<1> QED
  BY <1>1, <1>2, <1>3, PTL DEF BoardSpec

-----------------------------------------------------------------------------
\* The telemetry rate

\* What is left until the next line and what has gone by since the last make
\* up an interval.
SpacingInv ==
  /\ tlm \in [on : BOOLEAN, hz : {0} \cup Rates, wait : Nat]
  /\ spacing \in [since : Nat, last : Nat]
  /\ spacing.since + tlm.wait >= Long(tlm.hz)
  /\ spacing.last >= Long(tlm.hz)

LEMMA Intervals ==
  /\ Rates \subseteq Nat \ {0}
  /\ \A h \in {0} \cup Rates : Long(h) \in Nat
  /\ \A h \in Rates : Long(h) = Interval(h) /\ h * (Interval(h) + 1) > PER_SECOND
<1>1. Rates \subseteq Nat \ {0}
  BY StationAssumption
<1>2. ASSUME NEW h \in Nat \ {0}
      PROVE  Interval(h) \in Nat /\ h * (Interval(h) + 1) > PER_SECOND
  BY StationAssumption DEF Interval
<1> QED
  BY <1>1, <1>2 DEF Long

LEMMA SpacingShown == SpacingInv => RateKept
<1> SUFFICES ASSUME SpacingInv, tlm.hz # 0
             PROVE  tlm.hz * (spacing.last + 1) > PER_SECOND
  BY DEF RateKept
<1>1. PICK h \in Rates : h = tlm.hz
  BY DEF SpacingInv
<1>2. PICK l \in Nat : l = spacing.last
  BY DEF SpacingInv
<1>3. h \in Nat /\ Interval(h) \in Nat /\ l >= Interval(h) /\ h * (Interval(h) + 1) > PER_SECOND
  BY <1>1, <1>2, Intervals DEF SpacingInv
<1>4. \A i \in Nat : l >= i => h * (l + 1) >= h * (i + 1)
  BY <1>3
<1>5. h * (l + 1) >= h * (Interval(h) + 1)
  BY <1>3, <1>4
<1>6. h * (l + 1) > PER_SECOND
  <2> DEFINE x == h * (l + 1)
             y == h * (Interval(h) + 1)
  <2>1. x \in Int /\ y \in Int
    BY <1>3
  <2>2. x >= y /\ y > PER_SECOND
    BY <1>3, <1>5
  <2> HIDE DEF x, y
  <2>3. x > PER_SECOND
    BY <2>1, <2>2, StationAssumption
  <2> QED
    BY <2>3 DEF x
<1> QED
  BY <1>1, <1>2, <1>6

LEMMA SettingSpaces ==
  ASSUME NEW t \in TelemetrySettings, SetTelemetry(t)
  PROVE  SpacingInv'
<1>1. t \in [on : BOOLEAN, hz : {0} \cup Rates, wait : Nat] /\ t.wait = 0
  <2>1. CASE t = TlmOff
    BY <2>1 DEF TlmOff
  <2>2. CASE t = TlmEvery
    BY <2>2 DEF TlmEvery
  <2>3. CASE \E h \in Rates : t = [on |-> TRUE, hz |-> h, wait |-> 0]
    BY <2>3
  <2> QED
    BY <2>1, <2>2, <2>3 DEF TelemetrySettings
<1>2. Long(t.hz) \in Nat
  BY <1>1, Intervals
<1> HIDE DEF TelemetrySettings
<1> QED
  BY <1>1, <1>2 DEF SetTelemetry, LongAgo, SpacingInv

LEMMA ForwardSpaces ==
  ASSUME SpacingInv, ForwardTelemetry
  PROVE  SpacingInv'
<1>1. CASE UNCHANGED forwardVars
  BY <1>1 DEF forwardVars, SpacingInv
<1>2. CASE tlm.wait = 0 /\ Forwarded
  <2>1. tlm.hz \in {0} \cup Rates /\ Long(tlm.hz) \in Nat
    BY Intervals DEF SpacingInv
  <2>2. tlm'.hz = tlm.hz /\ tlm'.on = tlm.on /\ tlm'.wait = Long(tlm.hz)
    BY <1>2, <2>1 DEF Forwarded, SpacingInv, Long
  <2>3. tlm' \in [on : BOOLEAN, hz : {0} \cup Rates, wait : Nat]
    BY <1>2, <2>1 DEF Forwarded, SpacingInv, Long
  <2>4. /\ spacing' \in [since : Nat, last : Nat]
        /\ spacing'.last >= Long(tlm.hz)
    BY <1>2, <2>1 DEF Forwarded, SpacingInv
  <2> QED
    BY <2>1, <2>2, <2>3, <2>4 DEF SpacingInv
<1> QED
  BY <1>1, <1>2 DEF ForwardTelemetry

LEMMA PassSpaces ==
  ASSUME SpacingInv, Pass
  PROVE  SpacingInv'
<1>1. Long(tlm.hz) \in Nat
  BY Intervals DEF SpacingInv
<1>2. /\ tlm' \in [on : BOOLEAN, hz : {0} \cup Rates, wait : Nat]
      /\ tlm'.hz = tlm.hz
      /\ tlm'.wait = IF tlm.wait = 0 THEN 0 ELSE tlm.wait - 1
  BY DEF Pass, SpacingInv
<1>3. /\ spacing' \in [since : Nat, last : Nat]
      /\ spacing'.last = spacing.last
      /\ spacing'.since = IF spacing.since < Long(tlm.hz) THEN spacing.since + 1
                                                          ELSE spacing.since
  BY DEF Pass, SpacingInv
<1> QED
  BY <1>1, <1>2, <1>3 DEF SpacingInv

LEMMA SpacingStep ==
  ASSUME SpacingInv, StationStep
  PROVE  SpacingInv'
<1>1. CASE UNCHANGED forwardVars
  BY <1>1 DEF forwardVars, SpacingInv
<1> QED
  BY <1>1, SettingSpaces, ForwardSpaces, PassSpaces
     DEF StationStep, Transmit, Report, SetAuto, stationVars

\* At a rate of hz no two # lines come closer than the truncated interval,
\* whatever frames arrive and whenever the rate is set (main.cpp:64-77).
THEOREM LinesKeepTheRate == BoardSpec => []RateKept
<1>1. BoardInit => SpacingInv
  BY DEF BoardInit, StationInit, TlmOff, LongAgo, Long, SpacingInv
<1>2. SpacingInv /\ [BoardNext]_boardVars => SpacingInv'
  BY BoardMovesStation, SpacingStep
<1> QED
  BY <1>1, <1>2, SpacingShown, PTL DEF BoardSpec
=============================================================================
