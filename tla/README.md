# RF-Comms in TLA+

TLA+ models of the firmware in this repository, the TLC configurations that check
them, and machine-checked proofs about the vehicle, its link and the earlier ones.

The repository holds three generations of an nRF24L01+ link between a *base* and
one or several remotes. The latest, `Pico2_V2_RF`, drives a vehicle, the
*Wanderer*; it is the core of this project. `Pico2_V1_RF` is an earlier link with
commands and responses of its own; `Pico2_BasicRF` is a ping test.

## 1. Inventory

| Component | State | Operations | What makes it correct | Modules |
|---|---|---|---|---|
| V2 vehicle state machine, `tactical.h` | `state_`, standing order, ramp, fault code, two time stamps | `cmd_arm`, `cmd_stop`, `cmd_move`, `raise_fault`, `clear_fault`, `note_commander_alive`, `tick` | silence stops the wheels; a stop forgets every order; the ramp only shrinks, and no faster than its bound | TacticalCore, TacticalHistory, DriveContract |
| V2 Wanderer board, `main.cpp` 145-470, 860-935, 1017-1105 | radio FIFOs, reply queue, PA level, link LED | read a frame, answer a query, stage an ACK payload, console lines, tick | every poll finds a payload, or the repeat of the one before it did; no reply is refused by the queue; liveness end to end | Wanderer, Boards |
| V2 reply queue, class `rfQueue`, `main.cpp` 152-193 | four frames, `head_`, `count_` | `push`, `front`, `pop` | what is pushed comes out whole and in order, however often the ring has gone round | ReplyQueue, BoundedFifo |
| V2 base board, `main.cpp` 60-145, 480-800 | `link_up_`, derived state, rf counters, telemetry decimation | send a frame, drain and dispatch the payloads, poll, rf report | payloads in order and never twice; the console ends up showing the vehicle's state and the truth about the link; reports and rates say what they promise | V2Link, DownlinkStream, BaseStation, Boards |
| V2 radio health, `main.cpp` 216-240, 982-1090 | `radio_ready`, `radio_connected`, the chip | `begin`, `configure_radio`, periodic check | a lost radio is taken out of use, a returned one is used again | RadioHealth, Boards |
| V2 line reader and parsers, `main.cpp` 740-800, 936-967 | one line buffer | read characters, tokenize, parse numbers | a line does what its words say, or nothing | LineReader, CommandPath |
| V1 base, `main.c` | one context per remote, selection, periodic ping | send, match responses, time out, reset statistics, scan | one pending command per remote, always ended; an answer tells the present; statistics add up | V1Link, V1Exchange |
| V1 remote, `main.c` | last ping sequence, movement, power, LED | execute a command, answer it | base and remote agree on the ping sequence; a command is carried out at most once | V1Link, V1Exchange |
| V1 packet codec, `protocol.c` | none | encode, decode, CRC | decode inverts encode; damage is refused | PacketCodec, CommandPath |
| V1 and BasicRF nRF24 drivers | the chip's registers and FIFOs | initialise, listen, send, receive, set the power, measure a channel | success means arrival; nothing taken in is dropped; the station listens again after everything | Nrf24, Stations |
| BasicRF ping test, `main.c` | sequence | ping, reply loop, answer | every ping ends, and a reply belongs to its ping | Stations |
| Host client, build files | - | - | the client speaks a binary protocol the base no longer has; no behaviour | - |

How they interact: the V2 base calls `radio.write()` and blocks until its radio has
heard an acknowledgement or has given up. The Wanderer's radio accepts and
acknowledges a frame on its own, at any moment of the Wanderer's loop, and puts on
the acknowledgement whatever payload was staged *before*. The loop later reads the
frame, feeds the vehicle state machine and stages the next payload. The base reads
the payload after the write and dispatches it. The health check runs in both loops
and replaces the radio's configuration under them. In V1 and BasicRF the chip
acknowledges packets too (auto-acknowledgement with up to 15 retransmissions), but
the program only counts and prints that; what it acts on are responses, which are
packets of the same standing, matched by kind and argument.

What is hard here: the radio and the loop interleave; an acknowledgement is lost
after the frame was executed; payloads are always one or more polls old; bursts
fill FIFOs of three; a corrupt width read flushes a FIFO; power goes away between
two SPI exchanges; a V1 answer arrives just after its deadline; a station restarts
and the other does not; lowering CE cuts an acknowledgement short; a terminal
disconnects in the middle of a line; and the ramp does integer arithmetic on the
time between two passes. `PROJECT.json` lists each hazard at its line with the
properties that would catch it.

## 2. Modules

    DriveContract <--refines-- TacticalCore <--extends-- TacticalHistory <-- HistoryProofs
                                    ^
                                    | extends
                                 Wanderer <--extends-- V2Link --refines--> DownlinkStream
                                                          ^
                                                          +-- V2LinkProofs
    TacticalCore <-- TacticalProofs <-- V2LinkProofs, HistoryProofs
    ReplyQueue --refines--> BoundedFifo           ReplyQueue <-- ReplyQueueProofs
    RadioHealth <-- Boards --> BaseStation        Boards <-- BoardsProofs
    LineReader  <-- CommandPath --> PacketCodec   CommandPath <-- CommandPathProofs
    Nrf24       <-- Stations <-- StationsProofs
    V1Link --refines--> V1Exchange                V1Link <-- V1LinkProofs

Arrows without a label are EXTENDS. An MC module holds the values a .cfg cannot
write. An operator marked `mutant` is a plausible bug, never part of the
specification; each run's properties are shown to catch theirs. Definitions marked
external in `PROJECT.json` describe hardware from how the code uses it.

**TacticalCore** is class `TacticalCore`. The code keeps `last_seen_` and
`last_tick_` and only subtracts them from now, so the model keeps the differences
`silence` and `tick_age`. `cmd` and `ramp` are functions of the wheel. Every method
is an operator, and every call its users make is an action (`ArmCall` is
`note_commander_alive(); cmd_arm()`, `LocalStop` is a console stop, which is no sign
of life). `Elapse` advances the clock. The code's constants are CONSTANTS, so that
the proofs hold for all of them.

**DriveContract** is the abstract specification: an output per wheel and a mode
(stopped, driving, coasting). Outputs change only by an order while driving, may only
shrink while coasting, and are zero when stopped. `ImplementsContract` is the
refinement (`Mode` and `Target` are the mapping).

**TacticalHistory** adds `coast_age`, the time spent in this Fallback, to state the
bound on the deceleration. `MaxCoast` bounds it.

**Wanderer** is the board around the state machine, one pass being console lines, every
received frame, tick. `rx` and `tx` are the radio's FIFOs, `held` says that the head of
`tx` has ridden an acknowledgement and is retired by the next new frame. The radio steps
between any two steps of the loop: it accepts a frame (`HwAccept`), or acknowledges a
retransmission of the last one (`HwRepeat`) with the payload that heads the FIFO by
then. `answered` is a history variable: whether such a repeat was given a payload staged
after its frame arrived. `quiet` is a history variable: time since a frame arrived on
the air or the console gave an order. Telemetry carries a stamp, which stands for its
sequence number.

**ReplyQueue** is class `rfQueue` as it lies in memory: slots with a length and bytes,
of which a push writes only those of its frame, and the two indices. `last` is a
history: the last call with its data and its result. **BoundedFifo** is what the
callers rely on, and what `queue` is in Wanderer: a sequence of at most `DEPTH` frames.
`ImplementsFifo` maps the ring to the frames that wait, read from the oldest
(`Waiting`).

**V2Link** adds the base and the air. `transmit_frame()` is the cycle of `phase`: on
air, acknowledged or failed, link update, drain. `Deliver` and `DeliverRepeat` are first
receptions and retransmissions, with their acknowledgement heard or lost; `got`
remembers whether the payload that rides has reached the base. A pass of the base polls,
or no poll is due. **DownlinkStream** is what the base may rely on: the payloads it
dispatches are a stream that may lose frames and never repeats, reorders or invents one.
What is left of a stream that lost frames is given by an increasing map of places
(`IsLossyCopy`).

**RadioHealth** is boot, the health check and the re-detection of both roles, one
step per SPI exchange that matters, with power changing at any point. `chip` is the
state of the nRF24. `settled` and `blinked` are history variables: has power ever
changed twice without a check in between.

**BaseStation** is what class `BaseState` keeps besides frames: `link_up_`, the rf
counters and their copies at the last report, `rf_auto_`, the telemetry setting and
the time left to the next line. `window` and `spacing` are histories: what was really
sent and acknowledged since the last report, and the time between the last two lines.

**Boards** composes the two into a whole board of either role: in `work` the base
goes through lines, poll and report, the Wanderer through lines and frames, then both
through the health check and the LEDs. `peer` is the other board: there or not. The
PA level follows `setpa`/`setbpa`, power-up and `configure_radio()`.

**V1Link** is the V1 base, its remotes and the air. A transmission is a single step,
because the sender is deaf while it lasts. A packet is lost, damaged, or queued in a
FIFO with room. At what power it is sent is left to Stations. `expired` is
`time_reached()` of a context's deadline. Base and remotes may restart. `course` is a
history variable: whether a deadline or a restart came while something was under way,
whether a station has restarted.

**V1Exchange** is what the V1 base may rely on about its conversation with a remote,
without FIFOs, deadlines, console and loop: one thing is asked at a time (`Ask`),
carried out at most once (`Obey`), and answered by what the remote said when it carried
it out (`Hear`); it is given up (`GiveUp`) only when nothing of it is under way; the
number of a ping advances by an answered ping alone. A deadline or a restart that
overtakes a packet sends the conversation *astray* for good, since responses are
matched by kind and argument and the code has no way to find back; then only the ping
numbers keep a promise, until a station restarts as well. `ImplementsExchange` maps the
contexts and stations of V1Link to it: `asked` is the command of a context that waits,
`packet` what of it is found intact in the two FIFOs.

**LineReader** is both firmwares' line readers and parsers, on symbols: a verb, a
digit, a blank, the erase key. **PacketCodec** is `protocol.c`: a byte is the set of
its one bits, `crc16_ccitt()` is eight shifts of such a set per byte. **CommandPath**
runs them: symbols are typed, a terminator runs the line, the terminal disconnects,
and in V1 the command becomes a packet, whose bits may be damaged, is decoded by a
remote, answered, and decoded again. `typed` is a history: the line as the user sees
it. What a line *should* mean (`MeaningV1`, `MeaningV2`) is stated on its words,
independently of `tokenize()`.

**Nrf24** is the V1 and BasicRF drivers: each function is the sequence of its SPI
exchanges and CE changes, and the chip is its registers, flags and two FIFOs. `OnChip`
has one arm per exchange; `Scan` is the whole scan as one sequence, with one noise
sample per channel for the code's sixteen.
**Stations** is a program on such a chip: `todo` holds the exchanges ahead, `doing`
what the program does with them, and between any two of them a packet arrives, the
outcome of a transmission comes, an acknowledgement ends or, during initialisation,
the supply changes. It is a base or a remote of V1 or of BasicRF. `air` is a history:
what the others sent and received, what the chip took in and what became of it.

## 3. Runs

| Run | Properties | Shows |
|---|---|---|
| `core` | `TypeOK`, `DisarmedAtRest`, `RampWithinOrder`, `ActiveMeansHeard` | the vehicle is safe under every order of calls |
| | `ImplementsContract` | it implements DriveContract |
| | `RampNeverTooSteep` | the deceleration bound, however time is cut into ticks |
| | `FallbackReachesRest` | it comes to rest if a pass is long enough to shed speed |
| `core_fast_loop` | `FallbackReachesRest` **violated** | with the real constants and a 1 ms pass the ramp never moves |
| `wanderer` | `QueueEmptyBetweenFrames` | no reply is refused by the queue whose `push()` result nobody reads |
| | `NextPollAnswered` | a Wanderer that has caught up has a payload for the next poll, or a repeat of the last has taken it |
| | `SilenceStopsDriving` | Active implies something was heard within the timeout and three passes |
| `wanderer_replies` | `RepliesNotDiscarded` **violated** | a full payload FIFO is flushed together with unsent query replies |
| `v2link_order` | `DrainedBeforeNextFrame`, `StreamInOrder` | payloads arrive in order and at most once, and are read before the next frame |
| `v2link_fallback` | `BaseEventuallyLearns` | the base ends up with the vehicle's last state |
| `health` | `DeadRadioNoticed`, `LinkResumes` | losing and regaining the radio |
| | `LinkTold` | the base ends up telling the truth about the link |
| | `UnreadyIsSilent`, `DeadRadioDark`, `NeverLouder` | what a board does with its radio out of use or back |
| | `ReportTellsWindow`, `RateKept` | rf reports across wraps of the counters; the spacing of telemetry lines |
| `health_ready` | `ReadyAgain` **violated** | a failed re-detection is never retried |
| `v1_ping` | `TypeOK`, `SequenceLockstep`, `LockstepRegained` | ping sequences stay in step, and come back into step after a restart |
| | `AnswerIsCurrent` | an accepted answer tells the present movement |
| | `ImplementsExchange` | the link keeps the promise of V1Exchange through losses, late answers and restarts |
| `v1_ends` | `CountersBalance`, `PendingResolves` | statistics add up; no command pends for ever |
| `command_path` | `BufferFollowsTyping`, `RunsWhatWasTyped` | the buffer is what was typed, and what runs is what it says |
| | `UnderstoodOrRefused` | a packet is decoded as what was encoded, a damaged one as nothing |
| `stations` | `OkMeansReceived`, `CompletedWasAnswered` | a reported success is one |
| | `OwnPacketsOnly`, `NothingDropped`, `RestsListening` | what a station takes in is its own, is not lost, and it goes on listening |
| | `FoundIsConfigured` | a detected V1 radio has all its registers |
| | `AcknowledgedBeforeAnswer` | an answer waits for the acknowledgement of its ping |
| | `PingEnds`, `RemoteEmptied` | every ping ends and every remote empties its receiver |

### Bounds, and why they are enough

- `core`: two units to a second, `FALLBACK_DECEL` 40001, orders at both ends of
  `int16_t`, a turn and a small one. A step of the ramp is 20000 or 40001, so how time
  is cut matters, and both the step that leaves something and the one that exceeds
  `int16_t` occur. The timeout is three units and a pass one or two, so the timeout
  falls on and between ticks. `BootAges` 0 and 2: before and inside the first timeout.
  `SilenceCap` is beyond every test of `silence`, so saturating loses nothing. The
  longest ramp is over after three units; `MaxCoast` is four.
- `core_fast_loop` uses the code's own numbers in microseconds.
- `wanderer`: FIFOs of two entries instead of three (a burst of two fills them); one
  order; one frame of every behaviour. The timeout is two passes. `STAMPS = 1` since no
  property of this run reads stamps. `v2link_order` and `wanderer_replies` use FIFOs of
  three, and six stamps: with at most three payloads staged and one taken, two that are
  compared are never six apart. In `wanderer` a repeat of the last frame may come at any
  time until the next, in V2Link while the base's write lasts.
- `v2link_order` has no clock and one query; corrupt reads at both ends. It keeps
  polling without bound. `MaxCommands` bounds commands and rf reports.
- `v2link_fallback`: one arm, any number of stops on the vehicle's own console, FIFOs
  of two, timeout and pass of one unit.
- `health`: counters that wrap at 2, so that every report lies across a wrap (the
  properties are about differences); a rate of 2 in a second of 5 units, which does
  not divide it. Power, peer and console are without bound.
- `v1_ping`: one remote (contexts interact only by selection and scan), a sequence
  that wraps at 3 (each property allows a difference of zero or one and must exclude
  something), FIFOs of one entry, which still allow an old answer and an old ping at
  the same time; restarts of both stations without bound. `v1_ends`: two remotes,
  statistics that wrap at 2, without pings.
- `command_path`: a V2 buffer of nine symbols, enough for a verb with four arguments
  and one that is too many; a V1 buffer of four, with lines of up to seven, so that
  three symbols do not fit; half a line of two symbols left over; packets of six bytes
  with up to two damaged bits out of 48, in all places. The CRC of a real packet
  covers 30 bytes and has the same polynomial, whose period is far beyond 256 bits.
- `stations`: FIFOs of two, two pings on each side (below the wrap at 2^16), one packet
  from or for a stranger, and any number of them while a reply is awaited; any number of
  changes of the supply during initialisation; one power level, two scanned channels.

Deadlock is checked except in `stations`, where a station without a radio stops and a
base stops when its pings are spent.

### Fairness

- TacticalCore and TacticalHistory: the loop reaches `tick()` again and again (no call
  in it blocks for ever) and the clock advances.
- V2Link: both loops take their steps; polls become due again and again (strong, since a
  poll is due on some passes only); `radio.write()` returns, by its retransmission
  limit; infinitely many frames get through, and of the acknowledgements that could
  carry a payload infinitely many. Without the last two nothing can be learned over a
  radio. They are strong fairness because the air is only available while something is
  sent.
- RadioHealth and Boards: the loop runs and the one-second timer fires; the poll timer
  fires again and again (strong, since the loop passes the poll each time). Power and
  peer are under no obligation, so `LinkResumes` and `LinkTold` have the condition that
  power stays on from some time, and that no two changes of it ever fell between two
  checks: `health_ready` shows why.
- V1Link: the loop runs and a deadline passes. The air owes nothing.
- Stations: the program runs, which includes its deadlines; a pass of the loop calls
  `nrf24_receive()` (strong, since other work comes between); the loop that awaits a
  reply looks at the clock after every packet (strong, since packets come between), and
  the time is over at some time; an acknowledgement ends.

### Disagreements with the documentation, by a run

`core_fast_loop`: `800 * dt_us / 1000000` is zero below 1250 us, and every tick
restarts the interval, so a loop without a delay never slows the vehicle. The README
says Fallback ramps both targets to zero. The loop's pass time depends on the radio
and the console; nothing in it keeps a pass above 1250 us.

`health_ready`: `radio_connected` is assigned before `begin()` and
`configure_radio()`. When one fails, `radio_ready` is false with `radio_connected`
true; a chip that answers again by the next check looks unchanged, and nothing tries
again.

`wanderer_replies`: a burst of three queries fills the payload FIFO; the next frame
makes `restage_ack()` flush replies that a comment says are never overwritten.

### Disagreements met while reading, without a run

- "Later frames are staged after each command is read" (`main.cpp:1021-1022`) reads as
  if every poll after the first found a payload. After a full FIFO or a corrupt width
  read was flushed (`main.cpp:441-463`) one fresh payload is staged; when the
  acknowledgement of the last frame was lost, its retransmission (`main.cpp:225`) takes
  that one, and the next poll comes back empty. `NextPollAnswered` states this exception
  and no other.
- README.md:339 lets a V1 remote raise its power "up to level 3"; it stops at 2
  (`main.c:459`). README.md:353 calls level 0 the startup default; a base starts at 2
  (`main.c:865`).
- `commander_alive()` is true for the first 750 ms after power-up (`last_seen_` is
  zero), against the comment at `tactical.h:26-27`.
- When the base's radio loses power between a poll and the health check, polls stop
  and `link_up_` stays true with no `!link down` (PROTOCOL.md:190).
- `tlm <hz>` truncates the interval, so slightly more lines than "at most" may come;
  `RateKept` states the bound that holds.
- A token beyond the fourth is dropped; the comment at `main.cpp:742` says it stays
  attached to the last one. Every verb that counts its arguments still refuses lists that long.
- A V1 remote that sees a repeated ping raises its power, and lowers CE for it
  (`main.c:460`), before the guard time of README.md:164-176. `AcknowledgedBeforeAnswer`
  excludes this case.
- BasicRF's initialisation compares only three registers, so a partly configured chip
  passes; `FoundIsConfigured` is about V1.
- V1 and BasicRF never look at their radio again once it was found.
- An over-long V1 line is cut, and an erase after the cut removes the last character
  that fitted: the line that runs was never on the screen. `RunsWhatWasTyped` excludes
  it.

## 4. Proofs

All theorems hold for every value of the constants that the named assumptions admit.

`TacticalProofs` (from `CoreAssumption`: orders in `int16_t`, a positive `SECOND`,
natural numbers otherwise):

- `CoreSafe`: `Spec => []CoreInv`. `CoreInv` is `TypeOK`, `DisarmedAtRest`,
  `RampWithinOrder`, `ActiveMeansHeard` and `FaultCodeOnlyInFault`. The conjunction is
  inductive while its parts are not:
  `RampWithinOrder` across a lost commander needs the types of `cmd`, and
  `DisarmedAtRest` is what makes the contract's start of driving begin at rest. Lemmas
  say what `Decay`, `StepOf` and `Enter` return; `StepSafe` goes through the actions.
  `TypeCorrect`, `StopForgetsOrders`, `RampStaysWithinOrder`, `FaultCodeLatched` and
  `ActiveWasHeard` are its parts. That no fault code outlives its fault
  (`FaultCodeLatched`) is stated by no run of its own.
- `CoreImplementsContract`: the initial state maps to an initial state, and each
  action to a step of DriveContract or a stutter, from `CoreInv`.

`HistoryProofs` (from `HistoryAssumption` as well):

- `DecelerationBounded`: `HSpec => []RampNeverTooSteep`. The bound alone is not
  inductive, since a tick spends the whole of `tick_age` at once. `UnspentTime` says
  that the ramp has only spent `coast_age - tick_age`; a tick of length `tick_age`
  sheds at most `FALLBACK_DECEL * tick_age / SECOND` (`StepBound`, `SpendTick`) and
  resets it. Its proof is what rules out an interval that is spent twice.

`V2LinkProofs`, first the board alone (from `WandererAssumption`, positive depths, and
`OrderAssumption`: the orders of frames and lines are among `Orders`):

- `RepliesAreQueued` and `PollsAreAnswered`, for every depth of the FIFOs and of
  `rfQueue`, every set of frames and lines and any corrupt reads and retransmissions.
  The invariant `QueueInv` adds that at most one reply is queued while a payload is
  being staged, and that a payload that has ridden is still in the FIFO. No type of the
  entries is needed: `IsFifo` says only that something is a sequence. The one way to an
  empty poll is a repeat that finds a payload which has not ridden: `HwRepeat` is the
  case of the proof where `Waiting` shrinks.
- `BoardImplementsCore`: `WSpec => Spec`. Every step of the board is a call of the
  state machine or leaves it alone, so all theorems of `TacticalProofs` hold on the
  board; `BoardKeepsContract` is the refinement of DriveContract.
- `SilenceEndsDriving`: `WSpec => []SilenceStopsDriving`. Two clocks have to be related:
  `silence`, which starts when a frame is read, and `quiet`, which starts when it
  arrives. `UnreadIsRecent` says that a frame still unread arrived in this pass or in
  the one before, since the receiver was empty when its loop ended; hence
  `ReadInTime`, that the two clocks differ by at most two passes while the vehicle is
  armed; `ActiveMeansHeard` of the core adds the timeout and the third pass.

Then the two boards:

- `LinkImplementsBoard`: `LSpec => WSpec`, if `Frames` holds what the base sends. A
  frame arrives once and its retransmissions are repeats, so the theorems about the
  board hold on the link.
- `RepliesAreDrained`: `DrainedBeforeNextFrame` is inductive by itself.
- `DownlinkNeverRepeats`: `LSpec => StreamInOrder`, for every depth of the FIFOs and any
  number of frames. The stream is `Pipe`, what the base has not read behind what the
  Wanderer has staged, without the payload that rides and has already arrived.
  `PipeInv` says when that one is there twice: never while a new frame is on the air.
  Each step of the link maps to a stutter, `Stage`, `Lose` or `Take`; the lemmas
  (`WindowIsCopy` and those after it) say which FIFO operations leave a lossy copy.

`ReplyQueueProofs` (from `QueueAssumption`, a hypothesis of each theorem: a depth that
fits a byte, a size of frames that does too). The ring has no run of its own: nothing
runs beside it, and these theorems say for every size what a run would say for one.

- `RingStaysTyped`: the indices stay inside the ring.
- `RingImplementsFifo`: `Spec => ImplementsFifo`, for every depth, size of a frame and
  set of payloads. The i-th frame that waits lies i - 1 *places* round the ring from the
  head. `PlacesDiffer` says that a push takes a slot in which none waits, `PlacesMove`
  that a pop renumbers the others and moves none, `CopiedWhole` that the leftovers of a
  longer frame are never read. `TypeOK` is all the invariant it needs.

`BoardsProofs` (from `StationAssumption` of BaseStation: counters with a positive
modulus, rates within the clock's resolution):

- `UnreadyCountsNothing`, `PowerNeverRaisesLevel` and `LedTellsNoLies`. The invariant
  says that a chip that is set up is one the loop has in use, although the two change
  by different causes; that a Wanderer with a chip set up and not listening is about to
  make it listen at the lowest level; and that the LED is dark before the first pass.
- `ReportsTellWindows` and `LinesKeepTheRate`, from a lemma that every step of a board is
  one of BaseStation's or leaves its state alone (`BoardMovesStation`). `WindowInv` adds
  that no more frames are acknowledged than sent, and `CounterDistance` is about
  counters that wrap; a window as long as the counters' range is excluded by
  the property. `SpacingInv` relates the time left to the next line to the time since
  the last: together they are at least the interval, whatever was set in between.

`V1LinkProofs` (from `V1Assumption`: remotes within 1 to 16, positive moduli and depths):

- `TypesKept`, where `TypeOK` gives each kind of command its own arguments.
- `StatisticsAddUp`. The property compares remainders, and this is not inductive at the
  next wrap: `Balanced` says that the plain difference is zero or one modulus.
- `NeverOutOfStep`. `Lockstep` is about all pings that are under way, in both FIFOs:
  each has the base's number or the one before, no older one follows a current one, and
  the remote's number lies between those of its answers and of the pings to come. The
  property alone says nothing of an old ping that the remote has yet to read.
- `PingRegainsLockstep` and `AnswersTellTheMovement`, action properties from
  `OneExchange`: as long as no deadline or restart has overtaken a packet, either the
  pending command is under way, or its answer, or neither, and nothing else; and such
  an answer tells the present.

- `LinkImplementsExchange`: `Spec => ImplementsExchange`, for any number of remotes,
  every range of the numbers and depth of the FIFOs. It needs all of the above at once:
  `OneExchange` makes what is found in the FIFOs the one packet of the abstract
  conversation, so that a timeout without it is `GiveUp`, a scan of a remote or an
  answer that the base refuses is `Lose`, and a scan of the base is not seen at all;
  `Lockstep` gives the numbers of the pings that a remote carries out after something
  was overtaken, which `OneExchange` no longer knows; and `PendingPings` says that a
  ping that waits carries the number its context has. `Exchange!Next` is shown of every
  step of V1Link, an action or a stutter.

`StationsProofs` (from `ChipAssumption` and `StationAssumption` of Stations: a positive
FIFO depth, channels of the band, power levels 0 to 3), on both firmwares and roles:

- `StationKeepsPlace`: at every place of the drivers' routines the chip is set to what
  the place calls for. The place is the number of exchanges left in `todo`. A *plan*
  says which exchanges may stand how far from the end of it; each routine of Nrf24 is
  shown to keep to its plan, so that `PlaceInv` holds of whatever is left of one, and
  `ChipInv` can say, by the number left, what has been written: after the initial
  comparisons succeeded (`CheckedInv`), once a radio is in use (`WiredInv`), and of the
  receiver (`EarInv`). `AlwaysRestsListening` and `FoundIsAlwaysConfigured` are read
  off. The comparison that a power-up cannot pass by accident is that of `RX_PW_P0`.
- `OnlyOwnPacketsAreRead`, `NothingIsDropped`, `OnlyAnsweredPingsComplete` from
  `HeardInv`: what waits in the receive FIFO came in since the program started, on the
  station's own address; what a driver has read was heard; a reply was sent by its
  remote. It needs `EarInv`: `RX_ADDR_P0` is another's only while CONFIG is not PRX.
- `SuccessMeansReceived` from `SentInv`: the chip transmits only from where a
  send raises CE to its end, or after one that did not end well and before its receiver
  is set up; a `TX_DS` seen by a send was raised after its flags were cleared, when the
  transmit FIFO held its own packet alone.
- `AcknowledgesBeforeAnswering` from `AckInv`: once the guard time of an answer is over,
  what is being acknowledged is not the ping it answers, unless the power was raised.
  New pings have new numbers (`far_sent` is an interval), so that a later packet is
  never mistaken for it.

`CommandPathProofs` (from `LineAssumption`: room for a character and the zero behind it):

- `BufferAlwaysFollows`: `Spec => []BufferFollowsTyping`, for every size of the buffers,
  any keys and lines of any length. The property is not inductive: an erase has to find
  something in the buffer when a V1 line was cut, so `BufferInv` adds that a line is
  cut only when the buffer is full. With room for nothing (`LineSize["V1"] = 1`) the
  property is false, hence the assumption. `IsSuffix` and `IsStrictPrefix` are taken
  place by place (`Ends`, `Begins`).

The strengthened invariants were model-checked on the instances of section 3 before
they were proved, but for that of ReplyQueue, which has none there.

Model-checked only:

- All liveness (`FallbackReachesRest`, `BaseEventuallyLearns`, `DeadRadioNoticed`,
  `LinkResumes`, `LinkTold`, `PendingResolves`, `PingEnds`, `RemoteEmptied`): fairness and
  `ENABLED` are beyond the prover. `FallbackReachesRest` is false in general, as
  `core_fast_loop` shows.
- `RunsWhatWasTyped`: `tokenize()` and the number parser are folds over a line, and what
  they compute for every line needs induction over data.
- `UnderstoodOrRefused`: the CRC and the value of a byte are folds as well, and that two
  damaged bits never go unnoticed is a fact about one polynomial and the length of a
  packet, found by going through them.

## 5. Not modelled, and why

- What is only printed: log lines, number formatting, statistics that describe no
  exchange, latency figures, register dumps; BasicRF's counters and status lines; the
  help, version and status verbs of the consoles; capital letters (`token_is()`).
- The onboard LEDs and V1's delays for USB: timing without consequence for the rest.
- The byte layout of V2's frames (the compiler checks their sizes).
- The commands of a BasicRF or V1 board that has no radio.
- The host client, which speaks a protocol the base no longer has, and build files.

## 6. Plan

Done: all modules of section 2, a theorem for every safety property that a run checks
but the two named above, and a theorem for each of the refinements. What would add most
next: the composition of V2Link with RadioHealth, a link whose ends lose power while
frames are in the FIFOs. It calls for knowing what a chip that was reset takes for a
retransmission, which nothing in this repository says.
