----------------------------- MODULE BaseStation -----------------------------
(***************************************************************************)
(* What the base board keeps about its link: class BaseState of            *)
(* src/Pico2_V2_RF/src/main.cpp without the frames themselves, which are   *)
(* V2Link's.  Every radio.write() ends in update_link(); an acknowledged   *)
(* one may have brought a downlink frame, and the lines written to the     *)
(* laptop depend on the settings kept here.                                *)
(*                                                                         *)
(* next_forward_ is kept as the time left until it, as silence is in       *)
(* TacticalCore; "elsewhere" stands for any frame that is not telemetry.   *)
(***************************************************************************)
EXTENDS Integers

CONSTANTS
  COUNT_MOD,         \* 2^32: the counters are uint32_t
  PER_SECOND,        \* time units in a second (1000 in the code)
  Rates              \* the <hz> of tlm lines

VARIABLES
  link_up,           \* link_up_
  tx_total, tx_ok,   \* tx_total_, tx_ok_
  at_report,         \* tx_total_at_report_, tx_ok_at_report_
  rf_auto,           \* rf_auto_
  tlm,               \* forward_on_, forward_interval_ms_, next_forward_
  window,            \* history: frames sent and acknowledged since the last >rf line
  spacing            \* history: time since the last # line, and what it was then

linkVars    == <<link_up, tx_total, tx_ok, window>>
reportVars  == <<at_report, rf_auto>>
forwardVars == <<tlm, spacing>>
stationVars == <<linkVars, reportVars, forwardVars>>

ASSUME StationAssumption ==
  /\ COUNT_MOD \in Nat \ {0}
  /\ PER_SECOND \in Nat \ {0}
  /\ Rates \subseteq 1 .. PER_SECOND

More(n)       == (n + 1) % COUNT_MOD
Less(a, b)    == (a - b) % COUNT_MOD

-----------------------------------------------------------------------------
\* Telemetry decimation

\* 1000u / hz truncates.
Interval(hz) == PER_SECOND \div hz

TlmOff   == [on |-> FALSE, hz |-> 0, wait |-> 0]
TlmEvery == [on |-> TRUE, hz |-> 0, wait |-> 0]

\* The history saturates at the interval in force.
Long(hz) == IF hz = 0 THEN 0 ELSE Interval(hz)
LongAgo(hz) == [since |-> Long(hz), last |-> Long(hz)]

\* telemetry_off(), telemetry_every_frame() and telemetry_rate(): a rate takes
\* effect at once, so its first line may come at any time.
SetTelemetry(setting) ==
  /\ tlm' = setting
  /\ spacing' = LongAgo(setting.hz)
  /\ UNCHANGED <<linkVars, reportVars>>

TelemetrySettings == {TlmOff, TlmEvery} \cup {[on |-> TRUE, hz |-> h, wait |-> 0] : h \in Rates}

ForwardedNotRearmed ==                        \* mutant: next_forward_ not moved
  /\ UNCHANGED tlm
  /\ spacing' = IF tlm.hz = 0 THEN spacing ELSE [since |-> 0, last |-> spacing.since]

\* A # line is written and the next one is due an interval from now.
Forwarded ==
  /\ tlm' = [tlm EXCEPT !.wait = IF tlm.hz = 0 THEN 0 ELSE Interval(tlm.hz)]
  /\ spacing' = IF tlm.hz = 0 THEN spacing ELSE [since |-> 0, last |-> spacing.since]

\* forward_telemetry_due() on the telemetry frame just received.
ForwardTelemetry ==
  IF tlm.on /\ tlm.wait = 0 THEN Forwarded ELSE UNCHANGED forwardVars

\* Time passes; it only matters here while a rate is set.
Pass ==
  /\ tlm.hz # 0
  /\ tlm.wait > 0 \/ spacing.since < Long(tlm.hz)
  /\ tlm' = [tlm EXCEPT !.wait = IF @ = 0 THEN 0 ELSE @ - 1]
  /\ spacing' = [spacing EXCEPT !.since = IF @ < Long(tlm.hz) THEN @ + 1 ELSE @]
  /\ UNCHANGED <<linkVars, reportVars>>

-----------------------------------------------------------------------------
\* Link tracking

Counted(delivered) ==
  window' = [sent  |-> IF window.sent < COUNT_MOD THEN window.sent + 1 ELSE COUNT_MOD,
             acked |-> IF delivered /\ window.acked < COUNT_MOD
                         THEN window.acked + 1 ELSE window.acked]

UpdateLinkUpOnly(delivered) ==                \* mutant: a loss is not reported
  /\ tx_total' = More(tx_total)
  /\ tx_ok' = IF delivered THEN More(tx_ok) ELSE tx_ok
  /\ link_up' = (link_up \/ delivered)
  /\ Counted(delivered)

\* update_link().
UpdateLink(delivered) ==
  /\ tx_total' = More(tx_total)
  /\ tx_ok' = IF delivered THEN More(tx_ok) ELSE tx_ok
  /\ link_up' = delivered
  /\ Counted(delivered)

\* transmit_frame(): an acknowledged frame may have brought one back.
Transmit(delivered) ==
  /\ UpdateLink(delivered)
  /\ \/ delivered /\ ForwardTelemetry
     \/ UNCHANGED forwardVars
  /\ UNCHANGED reportVars

ReportAfterQuery(delivered) ==                \* mutant: window closed after the query
  /\ tx_total' = More(tx_total)
  /\ tx_ok' = IF delivered THEN More(tx_ok) ELSE tx_ok
  /\ at_report' = [total |-> tx_total', ok |-> tx_ok']
  /\ link_up' = delivered
  /\ window' = [sent |-> 1, acked |-> IF delivered THEN 1 ELSE 0]
  /\ \/ delivered /\ ForwardTelemetry
     \/ UNCHANGED forwardVars
  /\ UNCHANGED rf_auto

\* report_rf_stats(): the window ends before the query for the Wanderer's PA
\* level is sent, so that frame is the first of the next window.
Report(delivered) ==
  /\ at_report' = [total |-> tx_total, ok |-> tx_ok]
  /\ tx_total' = More(tx_total)
  /\ tx_ok' = IF delivered THEN More(tx_ok) ELSE tx_ok
  /\ link_up' = delivered
  /\ window' = [sent |-> 1, acked |-> IF delivered THEN 1 ELSE 0]
  /\ \/ delivered /\ ForwardTelemetry
     \/ UNCHANGED forwardVars
  /\ UNCHANGED rf_auto

\* rf_auto_enable() and rf_auto_disable().
SetAuto(on) == rf_auto' = on /\ UNCHANGED <<linkVars, at_report, forwardVars>>

StationInit ==
  /\ link_up = FALSE
  /\ tx_total = 0 /\ tx_ok = 0
  /\ at_report = [total |-> 0, ok |-> 0]
  /\ rf_auto = FALSE
  /\ tlm = TlmOff
  /\ window = [sent |-> 0, acked |-> 0]
  /\ spacing = LongAgo(0)

-----------------------------------------------------------------------------
\* Properties

\* What the next >rf line would say is true of the frames sent since the last
\* one, across wraps of both counters and with the report's own query counted
\* in exactly one window, as long as fewer than 2^32 frames went by ("each
\* report covers only the interval since the previous", main.cpp:133-134).
ReportTellsWindow ==
  window.sent < COUNT_MOD =>
    /\ Less(tx_total, at_report.total) = window.sent
    /\ Less(tx_ok, at_report.ok) = window.acked

\* At a rate of hz two # lines are at least a second over hz apart, less the
\* unit that 1000u / hz truncates (main.cpp:64-77); the unit is why PROTOCOL's
\* "at most that many per second" is not what the code keeps.
RateKept == tlm.hz # 0 => tlm.hz * (spacing.last + 1) > PER_SECOND
=============================================================================
