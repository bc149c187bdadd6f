------------------------------- MODULE V1Link -------------------------------
(***************************************************************************)
(* The V1 firmware, src/Pico2_V1_RF/src: a base that keeps one context per *)
(* remote, remotes that execute commands and answer with packets of their  *)
(* own, and the air between them.  The base's loop is console lines, every *)
(* received response, the timeouts, the periodic ping; a remote's loop is  *)
(* every received command.                                                 *)
(*                                                                         *)
(* A transmission is one step: the station that sends is deaf until it is  *)
(* over, so what the other does meanwhile could as well happen afterwards. *)
(* The result of a transmission is only counted and printed.  Of the       *)
(* statistics the model keeps the three that describe an exchange.  The    *)
(* radio is external: a packet is lost, damaged, or put in a receive FIFO  *)
(* that has room.  The power a radio is set to, which no exchange depends  *)
(* on here, is part of Stations.                                           *)
(***************************************************************************)
EXTENDS Integers, Sequences

CONSTANTS
  Remotes,       \* the remote IDs in service (among 1..16)
  Lines,         \* the console lines that may be typed
  MoveValues,    \* the values of move lines
  SEQ_MOD,       \* 256: the ping sequence is a uint8_t
  COUNT_MOD,     \* 2^32: the statistics are uint32_t
  RX_DEPTH,      \* entries of a radio's receive FIFO (3)
  Restarts       \* which stations may restart: "base", "remote"

VARIABLES
  pc,            \* the base: "usb", "responses", "timeouts" or "ping"
  ctx,           \* remote_contexts[]
  selected,      \* selected_remote_id
  poll_enabled,  \* periodic_poll_enabled
  ping_due,      \* time_reached(next_periodic_ping)
  base_rx,       \* its receive FIFO
  station,       \* each remote's own context
  remote_rx,     \* its receive FIFO
  course         \* history: what has gone wrong so far, see Course

baseVars == <<pc, ctx, selected, poll_enabled, ping_due>>
vars     == <<baseVars, base_rx, station, remote_rx, course>>

\* "late": a deadline has passed, or a station has restarted, on an exchange
\* that was still under way; "restarted": a station has restarted.
Course == {"late", "restarted"}

ASSUME V1Assumption ==
  /\ 1 \in Remotes /\ Remotes \subseteq 1 .. 16
  /\ SEQ_MOD \in Nat \ {0} /\ COUNT_MOD \in Nat \ {0}
  /\ RX_DEPTH \in Nat \ {0}
  /\ MoveValues \subseteq -127 .. 127
  /\ Restarts \subseteq {"base", "remote"}

Sequence == 0 .. SEQ_MOD - 1
Count    == 0 .. COUNT_MOD - 1
Kinds    == {"ping", "getstat", "getver", "move", "stop"}

More(n) == (n + 1) % COUNT_MOD

\* Packets.  One that fails the application CRC is only known as damaged.
Command(kind, arg)  == [kind |-> kind, arg |-> arg]
Damaged             == [kind |-> "damaged"]
NoCommand           == Command("none", 0)

-----------------------------------------------------------------------------
\* Contexts

\* All of memory is zero at power-up.  owed is a history: the command that was
\* pending when the statistics were reset, counted when it ends but not as sent.
FreshContext ==
  [waiting |-> FALSE, expired |-> FALSE, command |-> NoCommand,
   connected |-> FALSE, ping_seq_n |-> 0, move_value |-> 0,
   sent |-> 0, acked |-> 0, timeouts |-> 0, owed |-> 0]

\* A remote starts from UINT8_MAX, so that sequence 0 is new to it.
FreshStation == [ping_seq_n |-> SEQ_MOD - 1, move_value |-> 0, led |-> "off"]

-----------------------------------------------------------------------------
\* The air

\* A packet is lost or ends up, perhaps damaged, in a FIFO that has room.
Arrivals(fifo, p) ==
  {fifo} \cup IF Len(fifo) < RX_DEPTH THEN {Append(fifo, p), Append(fifo, Damaged)}
                                      ELSE {}

-----------------------------------------------------------------------------
\* The base: sending

SendCommandAnyway(r, kind, arg) ==       \* mutant: pending not tested
  /\ ctx' = [ctx EXCEPT ![r].command = Command(kind, arg), ![r].waiting = TRUE,
                        ![r].expired = FALSE, ![r].sent = More(@)]
  /\ \E fifo \in Arrivals(remote_rx[r], Command(kind, arg)) :
       remote_rx' = [remote_rx EXCEPT ![r] = fifo]

\* send_command(): refused while a command to this remote is pending.
SendCommand(r, kind, arg) ==
  \/ ctx[r].waiting /\ UNCHANGED <<ctx, remote_rx>>
  \/ /\ ~ctx[r].waiting
     /\ ctx' = [ctx EXCEPT ![r].command = Command(kind, arg), ![r].waiting = TRUE,
                           ![r].expired = FALSE, ![r].sent = More(@)]
     /\ \E fifo \in Arrivals(remote_rx[r], Command(kind, arg)) :
          remote_rx' = [remote_rx EXCEPT ![r] = fifo]

SendPing(r) == SendCommand(r, "ping", ctx[r].ping_seq_n)

-----------------------------------------------------------------------------
\* The base: process_command_line()

ConsoleSend ==
  /\ \/ "ping" \in Lines /\ SendPing(selected)
     \/ "getstat" \in Lines /\ SendCommand(selected, "getstat", 0)
     \/ "getver" \in Lines /\ \E r \in Remotes : SendCommand(r, "getver", 0)
     \/ "stop" \in Lines /\ SendCommand(selected, "stop", 0)
     \/ \E v \in MoveValues : SendCommand(selected, "move", v)
  /\ UNCHANGED <<pc, selected, poll_enabled, ping_due, base_rx, station, course>>

ConsoleSet ==
  /\ \/ /\ "select" \in Lines /\ \E r \in Remotes : selected' = r
        /\ UNCHANGED <<poll_enabled, ping_due>>
     \/ /\ "poll" \in Lines
        /\ \/ poll_enabled' = TRUE /\ ping_due' = TRUE
           \/ poll_enabled' = FALSE /\ UNCHANGED ping_due
        /\ UNCHANGED selected
     \/ /\ "period" \in Lines /\ ping_due' = FALSE
        /\ UNCHANGED <<selected, poll_enabled>>
  /\ UNCHANGED <<pc, ctx, base_rx, station, remote_rx, course>>

Pending(r) == IF ctx[r].waiting THEN 1 ELSE 0

\* reset_statistics(): pending commands stay pending.
ResetStatistics ==
  /\ "stats reset" \in Lines
  /\ ctx' = [r \in Remotes |->
               [ctx[r] EXCEPT !.sent = 0, !.acked = 0, !.timeouts = 0,
                              !.owed = Pending(r)]]
  /\ UNCHANGED <<pc, selected, poll_enabled, ping_due, base_rx,
                 station, remote_rx, course>>

\* scan_rf_channels(): refused while any command is pending; measuring a
\* channel flushes the receive FIFO.
Scan ==
  /\ "scan" \in Lines
  /\ \A r \in Remotes : ~ctx[r].waiting
  /\ base_rx' = <<>>
  /\ UNCHANGED <<baseVars, station, remote_rx, course>>

ConsoleLine == pc = "usb" /\ (ConsoleSend \/ ConsoleSet \/ ResetStatistics \/ Scan)

ConsoleDone ==
  /\ pc = "usb"
  /\ pc' = "responses"
  /\ UNCHANGED <<ctx, selected, poll_enabled, ping_due, base_rx,
                 station, remote_rx, course>>

-----------------------------------------------------------------------------
\* The base: process_base_responses()

MatchesKindOnly(p) ==                    \* mutant: the argument is not compared
  /\ ctx[p.source].waiting
  /\ p.kind = ctx[p.source].command.kind

\* The response is the one that is waited for.
Matches(p) ==
  /\ ctx[p.source].waiting
  /\ p.kind = ctx[p.source].command.kind
  /\ p.kind \notin {"getstat", "getver"} => p.arg = ctx[p.source].command.arg

AcceptedUnwrapped(c, p) ==               \* mutant: the sequence is not a uint8_t
  [c EXCEPT !.waiting = FALSE, !.connected = TRUE, !.acked = More(@),
            !.ping_seq_n = IF p.kind = "ping" THEN @ + 1 ELSE @]

AcceptedStopIgnored(c, p) ==             \* mutant: a stop leaves the movement
  [c EXCEPT !.waiting = FALSE, !.connected = TRUE, !.acked = More(@),
            !.move_value = IF p.kind \in {"move", "getstat"} THEN p.arg ELSE @]

\* What an accepted response does to its context.
Accepted(c, p) ==
  [c EXCEPT !.waiting = FALSE, !.connected = TRUE, !.acked = More(@),
            !.move_value = CASE p.kind \in {"move", "getstat"} -> p.arg
                             [] p.kind = "stop" -> 0
                             [] OTHER -> @,
            !.ping_seq_n = IF p.kind = "ping" THEN (@ + 1) % SEQ_MOD ELSE @]

ProcessResponse ==
  /\ pc = "responses" /\ base_rx # <<>>
  /\ base_rx' = Tail(base_rx)
  /\ LET p == Head(base_rx) IN
       ctx' = IF p = Damaged \/ ~Matches(p) THEN ctx
              ELSE [ctx EXCEPT ![p.source] = Accepted(@, p)]
  /\ UNCHANGED <<pc, selected, poll_enabled, ping_due, station, remote_rx, course>>

ResponsesDone ==
  /\ pc = "responses" /\ base_rx = <<>>
  /\ pc' = "timeouts"
  /\ UNCHANGED <<ctx, selected, poll_enabled, ping_due, base_rx,
                 station, remote_rx, course>>

-----------------------------------------------------------------------------
\* The base: timeouts and the periodic ping

TimeOutAtOnce(c) ==                      \* mutant: the deadline is not tested
  IF c.waiting THEN [c EXCEPT !.timeouts = More(@), !.connected = FALSE,
                              !.waiting = FALSE]
               ELSE c

TimeOut(c) == IF c.waiting /\ c.expired
                THEN [c EXCEPT !.timeouts = More(@), !.connected = FALSE,
                               !.waiting = FALSE]
                ELSE c

TimeOutSelected ==                       \* mutant: only the selected remote
  /\ pc = "timeouts"
  /\ ctx' = [ctx EXCEPT ![selected] = TimeOut(@)]
  /\ pc' = "ping"
  /\ UNCHANGED <<selected, poll_enabled, ping_due, base_rx,
                 station, remote_rx, course>>

\* process_base_timeouts().
TimeOuts ==
  /\ pc = "timeouts"
  /\ ctx' = [r \in Remotes |-> TimeOut(ctx[r])]
  /\ pc' = "ping"
  /\ UNCHANGED <<selected, poll_enabled, ping_due, base_rx,
                 station, remote_rx, course>>

\* service_periodic_ping(); send_command() skips a busy remote.
PeriodicPing ==
  /\ pc = "ping"
  /\ \/ poll_enabled /\ ping_due /\ SendPing(selected) /\ ping_due' = FALSE
     \/ ~(poll_enabled /\ ping_due) /\ UNCHANGED <<ctx, remote_rx, ping_due>>
  /\ pc' = "usb"
  /\ UNCHANGED <<selected, poll_enabled, base_rx, station, course>>

BaseLoop == ConsoleDone \/ ProcessResponse \/ ResponsesDone \/ TimeOuts \/ PeriodicPing

-----------------------------------------------------------------------------
\* A remote: process_remote_commands()

IsRepeated(r, c) == c.kind = "ping" /\ c.arg = station[r].ping_seq_n

ExecutedKeepingLarger(s, c, repeated) ==  \* mutant: an older sequence is not taken
  CASE c.kind = "ping" ->
         [s EXCEPT !.ping_seq_n = IF c.arg > @ THEN c.arg ELSE @,
                   !.led = IF repeated THEN "held" ELSE "pulse"]
    [] c.kind = "move" -> [s EXCEPT !.move_value = c.arg]
    [] c.kind = "stop" -> [s EXCEPT !.move_value = 0]
    [] OTHER -> s

\* What executing a command does to the remote.
Executed(s, c, repeated) ==
  CASE c.kind = "ping" ->
         [s EXCEPT !.ping_seq_n = c.arg,
                   !.led = IF repeated THEN "held" ELSE "pulse"]
    [] c.kind = "move" -> [s EXCEPT !.move_value = c.arg]
    [] c.kind = "stop" -> [s EXCEPT !.move_value = 0]
    [] OTHER -> s

\* The answer echoes the argument; of GETSTAT's data the model keeps the
\* movement, of GETVER's nothing.
Response(r, c) ==
  [source |-> r, kind |-> c.kind,
   arg |-> IF c.kind = "getstat" THEN station[r].move_value ELSE c.arg]

HandleCommand(r) ==
  /\ remote_rx[r] # <<>>
  /\ remote_rx' = [remote_rx EXCEPT ![r] = Tail(@)]
  /\ LET c == Head(remote_rx[r]) IN
       \/ c = Damaged /\ UNCHANGED <<station, base_rx>>
       \/ /\ c # Damaged
          /\ station' = [station EXCEPT ![r] = Executed(@, c, IsRepeated(r, c))]
          /\ base_rx' \in Arrivals(base_rx, Response(r, c))
  /\ UNCHANGED <<baseVars, course>>

\* service_range_led().
RangeLedOff(r) ==
  /\ station[r].led = "pulse"
  /\ station' = [station EXCEPT ![r].led = "off"]
  /\ UNCHANGED <<baseVars, base_rx, remote_rx, course>>

\* The remote's own console: a scan flushes what has not been read.
RemoteLine(r) ==
  /\ "scan" \in Lines
  /\ remote_rx' = [remote_rx EXCEPT ![r] = <<>>]
  /\ UNCHANGED <<baseVars, base_rx, station, course>>

-----------------------------------------------------------------------------
\* Time and power

\* Nothing of the exchange with this remote is under way any more.
Quiet(r) == remote_rx[r] = <<>> /\ base_rx = <<>>

\* The deadline of a pending command passes.
Expire(r) ==
  /\ ctx[r].waiting /\ ~ctx[r].expired
  /\ ctx' = [ctx EXCEPT ![r].expired = TRUE]
  /\ course' = course \cup (IF Quiet(r) THEN {} ELSE {"late"})
  /\ UNCHANGED <<pc, selected, poll_enabled, ping_due, base_rx,
                 station, remote_rx>>

PingTimer ==
  /\ poll_enabled /\ ~ping_due
  /\ ping_due' = TRUE
  /\ UNCHANGED <<pc, ctx, selected, poll_enabled, base_rx,
                 station, remote_rx, course>>

\* main() up to the loop.  A radio is flushed when it is initialised.
BaseInit ==
  /\ pc = "usb"
  /\ ctx = [r \in Remotes |-> FreshContext]
  /\ selected = 1                           \* DEFAULT_REMOTE_ID
  /\ poll_enabled = FALSE /\ ping_due = TRUE
  /\ base_rx = <<>>

RestartBase ==
  /\ "base" \in Restarts
  /\ pc' = "usb"
  /\ ctx' = [r \in Remotes |-> FreshContext]
  /\ selected' = 1
  /\ poll_enabled' = FALSE /\ ping_due' = TRUE
  /\ base_rx' = <<>>
  /\ course' = course \cup {"restarted"}
                      \cup (IF \A r \in Remotes : Quiet(r) THEN {} ELSE {"late"})
  /\ UNCHANGED <<station, remote_rx>>

RestartRemote(r) ==
  /\ "remote" \in Restarts
  /\ station' = [station EXCEPT ![r] = FreshStation]
  /\ remote_rx' = [remote_rx EXCEPT ![r] = <<>>]
  /\ course' = course \cup {"restarted"}
                      \cup (IF base_rx = <<>> THEN {} ELSE {"late"})
  /\ UNCHANGED <<baseVars, base_rx>>

-----------------------------------------------------------------------------
Init ==
  /\ BaseInit
  /\ station = [r \in Remotes |-> FreshStation]
  /\ remote_rx = [r \in Remotes |-> <<>>]
  /\ course = {}

Next ==
  \/ BaseLoop \/ ConsoleLine \/ PingTimer \/ RestartBase
  \/ \E r \in Remotes : HandleCommand(r) \/ RangeLedOff(r) \/ RemoteLine(r)
                          \/ Expire(r) \/ RestartRemote(r)

Spec == Init /\ [][Next]_vars

\* The base's loop runs and time passes; the air owes nothing.
FairSpec == /\ Spec
            /\ WF_vars(BaseLoop)
            /\ \A r \in Remotes : WF_vars(Expire(r))

-----------------------------------------------------------------------------
\* Properties

\* The arguments a command can have, and what its answer says.
Argument(kind) ==
  CASE kind = "ping" -> Sequence
    [] kind = "move" -> MoveValues
    [] OTHER -> {0}
Answer(kind) == IF kind = "getstat" THEN MoveValues \cup {0} ELSE Argument(kind)

CommandType  == {c \in [kind : Kinds, arg : Int] : c.arg \in Argument(c.kind)}
ResponseType == {p \in [source : Remotes, kind : Kinds, arg : Int] : p.arg \in Answer(p.kind)}
ContextType ==
  [waiting : BOOLEAN, expired : BOOLEAN, command : CommandType \cup {NoCommand},
   connected : BOOLEAN, ping_seq_n : Sequence, move_value : MoveValues \cup {0},
   sent : Count, acked : Count, timeouts : Count, owed : 0 .. 1]
StationType ==
  [ping_seq_n : Sequence, move_value : MoveValues \cup {0}, led : {"off", "pulse", "held"}]

TypeOK ==
  /\ pc \in {"usb", "responses", "timeouts", "ping"}
  /\ ctx \in [Remotes -> ContextType]
  /\ selected \in Remotes
  /\ {poll_enabled, ping_due} \subseteq BOOLEAN
  /\ base_rx \in Seq(ResponseType \cup {Damaged}) /\ Len(base_rx) <= RX_DEPTH
  /\ station \in [Remotes -> StationType]
  /\ remote_rx \in [Remotes -> Seq(CommandType \cup {Damaged})]
  /\ \A r \in Remotes : Len(remote_rx[r]) <= RX_DEPTH
  /\ course \subseteq Course

\* The statistics of an exchange add up, across wraps of the counters: every
\* command sent is acknowledged, timed out or pending, and of a command that
\* was pending when the statistics were reset only the end is counted
\* (reset_statistics(), main.c:609-625).
CountersBalance ==
  \A r \in Remotes :
    (ctx[r].acked + ctx[r].timeouts + Pending(r)) % COUNT_MOD
      = (ctx[r].sent + ctx[r].owed) % COUNT_MOD

\* Base and remote agree on the ping sequence: until one of them restarts, and
\* whatever is lost, damaged, late or answered twice, the sequence the remote
\* has seen last is the one the base is trying to get answered or the one
\* before.  A remote is never ahead, and the base never skips a number
\* ("advances only after the base receives a matching response", README.md:331).
SequenceLockstep ==
  "restarted" \notin course =>
    \A r \in Remotes :
      ctx[r].ping_seq_n \in {station[r].ping_seq_n, (station[r].ping_seq_n + 1) % SEQ_MOD}

\* A response to the pending command is accepted.
Answered(r) == pc = "responses" /\ pc' = "responses" /\ ctx[r].waiting /\ ~ctx'[r].waiting

\* A restart of either station leaves the other with an old sequence; one
\* answered ping brings them together again, as long as nothing was under way
\* at any restart or deadline (main.c:821-830 with 344-376 and 448-465).
LockstepRegained ==
  [][\A r \in Remotes :
       Answered(r) /\ "late" \notin course /\ ctx[r].command.kind = "ping"
       => ctx'[r].ping_seq_n = (station[r].ping_seq_n + 1) % SEQ_MOD]_vars

\* An accepted answer about the movement tells the movement the remote has
\* now, as long as nothing was under way at any restart or deadline.
AnswerIsCurrent ==
  [][\A r \in Remotes :
       Answered(r) /\ "late" \notin course /\ ctx[r].command.kind \in {"move", "stop", "getstat"}
       => ctx'[r].move_value = station[r].move_value]_vars

\* What V1Exchange knows of a pending command, and of its packets: those of r that
\* are intact, the answer before the command.
Asked(r) == IF ctx[r].waiting THEN ctx[r].command ELSE NoCommand

AnswersOf(r, A) == {i \in DOMAIN A : A[i] # Damaged /\ A[i].source = r}
Intact(C)       == {i \in DOMAIN C : C[i] # Damaged}
Packet(r) == IF "late" \in course THEN "unknown"
             ELSE IF AnswersOf(r, base_rx) # {} THEN "answer"
             ELSE IF Intact(remote_rx[r]) # {} THEN "command"
             ELSE "none"

Exchange == INSTANCE V1Exchange WITH
  asked  <- [r \in Remotes |-> Asked(r)],
  packet <- [r \in Remotes |-> Packet(r)],
  number <- [r \in Remotes |-> ctx[r].ping_seq_n],
  told   <- [r \in Remotes |-> ctx[r].move_value],
  seen   <- [r \in Remotes |-> station[r].ping_seq_n],
  moving <- [r \in Remotes |-> station[r].move_value],
  astray <- course

\* The link keeps the promise of V1Exchange: a command is carried out at most
\* once, what is accepted is said by its execution, and it is given up only when
\* nothing of it is under way, as long as no deadline or restart overtakes a
\* packet (main.c:220-255, 313-408, 412-497).
ImplementsExchange == Exchange!Spec

\* Every command comes to an end, answered or timed out, whichever remote is
\* selected and however many responses arrive.
PendingResolves == \A r \in Remotes : ctx[r].waiting ~> ~ctx[r].waiting
=============================================================================
