------------------------------ MODULE Stations ------------------------------
(***************************************************************************)
(* One station, base or remote, running the V1 or the BasicRF firmware     *)
(* over its nRF24 driver: src/Pico2_V1_RF/src/main.c as far as it uses the *)
(* radio (its protocol is module V1Link) and src/Pico2_BasicRF/src/main.c. *)
(* The other stations are the environment.                                 *)
(*                                                                         *)
(* A packet is known by its kind and sequence; "bad" stands for whatever   *)
(* packet_is_valid() refuses.  V1's commands and responses are pings and   *)
(* replies here.                                                           *)
(***************************************************************************)
EXTENDS Nrf24

CONSTANTS
  MaxSequence,   \* bound on the pings of either side, below the wrap at 2^16
  MaxStray       \* bound on the packets from and for strangers, other than
                 \* while a reply is awaited

ASSUME StationAssumption == {MaxSequence, MaxStray} \subseteq Nat

VARIABLES
  firmware, role,
  chip,
  todo,            \* the exchanges ahead
  doing,           \* what the program does with them
  sound,           \* the comparisons of nrf24_check_config() so far
  packet,          \* the packet being handled
  result,          \* report.result of the last nrf24_send()
  next_sequence,   \* the pings sent; BasicRF's next_sequence, less one
  waiting,         \* V1 base: pending.waiting
  completed,       \* the pings whose reply was reported
  air              \* history and bounds of the environment, see Air

boardVars == <<firmware, role>>
programVars == <<sound, packet, result, next_sequence, waiting, completed>>
stationVars == <<boardVars, chip, todo, doing, programVars, air>>

Own == role
Far == IF role = "base" THEN "remote" ELSE "base"

Packet(to, kind, seq) == [to |-> to, kind |-> kind, seq |-> seq]
NoPacket == Packet("none", "none", 0)

\* far_got and far_sent are the sequences the other station received and sent;
\* heard, acked, read and scanned are the packets that the chip took in and
\* acknowledged, and that the program was given or lost to a scan; raised says
\* that the power was turned up before the answer.
NewAir == [strays |-> 0, far_got |-> {}, far_sent |-> {}, heard |-> {}, acked |-> {},
           read |-> {}, scanned |-> {}, raised |-> FALSE]

Activities == {"boot", "dead", "start", "idle", "send", "await", "read", "reply", "tune", "scan"}

-----------------------------------------------------------------------------
\* The program

\* The program starts on the exchanges xs.
Begin(activity, xs) == doing' = activity /\ todo' = xs

\* The next exchange, other than the wait for an outcome.  The guard time is
\* longer than an acknowledgement takes.
Exchange ==
  /\ todo # <<>> /\ Head(todo) # Poll
  /\ Head(todo) = Guard => chip.acking = <<>>
  /\ chip' = OnChip(chip, Head(todo))
  /\ sound' = (sound /\ (Head(todo)[1] = "expect" => Matches(chip, Head(todo))))
  /\ todo' = Tail(todo)
  /\ air' = IF doing = "scan" /\ Head(todo) = FlushRx
              THEN [air EXCEPT !.scanned = @ \cup ToSet(chip.rx)] ELSE air
  /\ UNCHANGED <<boardVars, doing, packet, result, next_sequence, waiting, completed>>

\* The end of nrf24_init(): without a radio the program blinks for ever.
Booted ==
  /\ doing = "boot" /\ todo = <<>>
  /\ IF sound THEN Begin("start", StartListening(firmware, Own)) ELSE Begin("dead", <<>>)
  /\ UNCHANGED <<boardVars, chip, programVars, air>>

\* V1 sets the power it starts with.
Started ==
  /\ doing = "start" /\ todo = <<>>
  /\ IF firmware = "V1" THEN \E l \in Level : Begin("tune", SetTxPower(l, chip.ce))
     ELSE Begin("idle", <<>>)
  /\ UNCHANGED <<boardVars, chip, programVars, air>>

\* send_ping(), on a timer or from the console; V1 has one command pending.
SendPing ==
  /\ doing = "idle" /\ role = "base" /\ ~waiting
  /\ next_sequence < MaxSequence
  /\ next_sequence' = next_sequence + 1
  /\ waiting' = (firmware = "V1")
  /\ result' = "none"
  /\ Begin("send", SendStart(Far, next_sequence'))
  /\ UNCHANGED <<boardVars, chip, sound, packet, completed, air>>

\* The wait in nrf24_send() ends, and start_station_receiver() follows.
SendEnds(r) ==
  /\ todo # <<>> /\ Head(todo) = Poll
  /\ result' = r
  /\ todo' = SendEnd(firmware, r) \o StartListening(firmware, Own)
  /\ UNCHANGED <<boardVars, chip, doing, sound, packet, next_sequence, waiting, completed, air>>

PollSent     == "TX_DS" \in chip.flags /\ SendEnds("ok")
PollGivenUp  == "TX_DS" \notin chip.flags /\ "MAX_RT" \in chip.flags /\ SendEnds("max_retries")
SendDeadline == SendEnds("timeout")

\* BasicRF waits for the reply to a ping that was acknowledged.
PingSent ==
  /\ doing = "send" /\ todo = <<>>
  /\ Begin(IF firmware = "BasicRF" /\ result = "ok" THEN "await" ELSE "idle", <<>>)
  /\ UNCHANGED <<boardVars, chip, programVars, air>>

\* nrf24_receive() in the loop of a remote or a V1 base, or while waiting.
Receive ==
  /\ todo = <<>> /\ packet = NoPacket
  /\ doing = "await" \/ (doing = "idle" /\ (role = "remote" \/ firmware = "V1"))
  /\ CanReceive(chip)
  /\ packet' = Head(chip.rx)
  /\ chip' = [chip EXCEPT !.rx = Tail(@)]
  /\ air' = [air EXCEPT !.read = @ \cup {packet'}]
  /\ Begin(IF doing = "await" THEN "await" ELSE "read", <<Clear({"RX_DR"})>>)
  /\ UNCHANGED <<boardVars, sound, result, next_sequence, waiting, completed>>

MatchesAny(p) == p.kind = "reply"       \* mutant: the sequence is not compared

\* Is p the reply to the ping that waits?
MatchesPing(p) == p.kind = "reply" /\ p.seq = next_sequence

Complete(awaited) ==
  completed' = completed \cup (IF awaited /\ MatchesPing(packet) THEN {next_sequence} ELSE {})

\* send_ping() looks at the packet it read.
Awaited ==
  /\ doing = "await" /\ todo = <<>> /\ packet # NoPacket
  /\ packet' = NoPacket
  /\ Complete(TRUE)
  /\ Begin(IF MatchesPing(packet) THEN "idle" ELSE "await", <<>>)
  /\ UNCHANGED <<boardVars, chip, sound, result, next_sequence, waiting, air>>

DeadlineWhenEmpty ==                    \* mutant: the clock is read only when nothing else is
  doing = "await" /\ todo = <<>> /\ packet = NoPacket /\ ~CanReceive(chip)

\* REPLY_TIMEOUT_MS may be over between any two looks at the receiver.
Deadline == doing = "await" /\ todo = <<>> /\ packet = NoPacket

ReplyDeadline ==
  /\ Deadline
  /\ Begin("idle", <<>>)
  /\ UNCHANGED <<boardVars, chip, programVars, air>>

\* V1: process_base_timeouts().
CommandTimeout ==
  /\ doing = "idle" /\ waiting
  /\ waiting' = FALSE
  /\ UNCHANGED <<boardVars, chip, todo, doing, sound, packet, result, next_sequence, completed, air>>

AnswerUnguarded(p) == SendStart(Far, p.seq)  \* mutant: no guard time

\* The exchanges of an answer.
Answer(p) == <<Guard>> \o SendStart(Far, p.seq)

\* A remote has read a packet: a ping is answered, by V1 with more power if it
\* is a repeated one (when that is so is V1Link's).
AnswerPing ==
  /\ doing = "read" /\ todo = <<>> /\ role = "remote" /\ packet.kind = "ping"
  /\ \/ Begin("reply", Answer(packet)) /\ air' = air
     \/ /\ firmware = "V1"
        /\ \E l \in Level : Begin("reply", SetTxPower(l, chip.ce) \o Answer(packet))
        /\ air' = [air EXCEPT !.raised = TRUE]
  /\ result' = "none"
  /\ UNCHANGED <<boardVars, chip, sound, packet, next_sequence, waiting, completed>>

\* A V1 base has read a packet, or a remote one it does not answer.
TakePacket ==
  /\ doing = "read" /\ todo = <<>> /\ ~(role = "remote" /\ packet.kind = "ping")
  /\ packet' = NoPacket
  /\ Complete(waiting)
  /\ waiting' = (waiting /\ ~MatchesPing(packet))
  /\ Begin("idle", <<>>)
  /\ UNCHANGED <<boardVars, chip, sound, result, next_sequence, air>>

\* The answer has been sent, the power set or the channels scanned.
Finished ==
  /\ doing \in {"reply", "tune", "scan"} /\ todo = <<>>
  /\ Begin("idle", <<>>)
  /\ packet' = NoPacket
  /\ air' = [air EXCEPT !.raised = FALSE]
  /\ UNCHANGED <<boardVars, chip, sound, result, next_sequence, waiting, completed>>

\* The V1 console.
ConsolePower ==
  /\ doing = "idle" /\ firmware = "V1"
  /\ \E l \in Level : Begin("tune", SetTxPower(l, chip.ce))
  /\ UNCHANGED <<boardVars, chip, programVars, air>>

ConsoleScan ==
  /\ doing = "idle" /\ firmware = "V1" /\ ~waiting
  /\ Begin("scan", Scan \o StartListening(firmware, Own))
  /\ UNCHANGED <<boardVars, chip, programVars, air>>

ProgramStep ==
  \/ Exchange \/ Booted \/ Started
  \/ PollSent \/ PollGivenUp \/ SendDeadline \/ PingSent
  \/ Awaited \/ ReplyDeadline \/ AnswerPing \/ TakePacket \/ Finished

-----------------------------------------------------------------------------
\* The environment (external)

Unchanging == UNCHANGED <<boardVars, todo, doing, programVars>>

\* The other station receives what the chip sends; its acknowledgement is heard
\* or lost.
SentHeard(acknowledged) ==
  /\ chip.sending
  /\ air' = [air EXCEPT !.far_got = @ \cup {Head(chip.tx)}]
  /\ chip' = IF acknowledged THEN Acked(chip) ELSE chip
  /\ Unchanging

\* All retransmissions went unanswered.
SentUnanswered ==
  /\ chip.sending
  /\ chip' = Unanswered(chip)
  /\ UNCHANGED air /\ Unchanging

\* The packet p is on the air: heard if the chip listens and nothing disturbs it.
OnAir(p, environment) ==
  \/ /\ CanHear(chip, firmware, p)
     /\ chip' = Heard(chip, p)
     /\ air' = [environment EXCEPT !.heard = @ \cup {p}]
  \/ chip' = chip /\ air' = environment

\* A base sends pings in order; a remote answers the pings it received, late or
\* never.
FarSends ==
  /\ \E s \in IF role = "base" THEN air.far_got \ air.far_sent
              ELSE {Cardinality(air.far_sent) + 1} \cap (1 .. MaxSequence) :
       OnAir(Packet(Own, IF role = "base" THEN "reply" ELSE "ping", s),
             [air EXCEPT !.far_sent = @ \cup {s}])
  /\ Unchanging

\* An invalid packet for this station, or one for the station it sends to: there
\* is no end of them while a reply is awaited.
StraySends ==
  /\ doing = "await" \/ air.strays < MaxStray
  /\ \E to \in {Own, Far} :
       OnAir(Packet(to, "bad", 0),
             [air EXCEPT !.strays = IF doing = "await" THEN @ ELSE @ + 1])
  /\ Unchanging

\* The chip has sent its acknowledgement.
Acknowledged ==
  /\ chip.acking # <<>>
  /\ chip' = [chip EXCEPT !.acking = <<>>]
  /\ air' = [air EXCEPT !.acked = @ \cup ToSet(chip.acking)]
  /\ Unchanging

\* The supply comes and goes while nrf24_init() runs.
PowerChange ==
  /\ doing = "boot" /\ todo # <<>>
  /\ chip' = [ResetChip(chip.ce) EXCEPT !.on = ~chip.on]
  /\ UNCHANGED air /\ Unchanging

-----------------------------------------------------------------------------
\* What an earlier run may have left in a chip that kept its power.
LeftOver ==
  [ResetChip(FALSE) EXCEPT
     !.reg = [ResetRegisters EXCEPT !.CONFIG = PRX, !.RX_PW_P0 = PayloadSize(firmware),
                                    !.RF_CH = RF_CHANNEL, !.RX_ADDR_P0 = Own],
     !.rx = <<Packet(Own, "ping", 0)>>, !.tx = <<0>>, !.flags = IRQ_MASK]

Init ==
  /\ firmware \in Firmware /\ role \in {"base", "remote"}
  /\ chip \in {ResetChip(FALSE), [ResetChip(FALSE) EXCEPT !.on = FALSE], LeftOver}
  /\ doing = "boot" /\ todo = Configure(firmware) \o CheckConfig(firmware)
  /\ sound = TRUE
  /\ packet = NoPacket /\ result = "none"
  /\ next_sequence = 0 /\ waiting = FALSE /\ completed = {}
  /\ air = NewAir

Next ==
  \/ ProgramStep
  \/ Receive \/ SendPing \/ CommandTimeout \/ ConsolePower \/ ConsoleScan
  \/ \E acknowledged \in BOOLEAN : SentHeard(acknowledged)
  \/ SentUnanswered \/ FarSends \/ StraySends \/ Acknowledged \/ PowerChange

Spec == Init /\ [][Next]_stationVars

\* The program runs; each pass of its loop looks at the receiver and, while a
\* reply is awaited, at the clock; the clock ends every wait and the chip every
\* acknowledgement.
FairSpec ==
  /\ Spec
  /\ WF_stationVars(ProgramStep)
  /\ SF_stationVars(Receive)
  /\ SF_stationVars(ReplyDeadline)
  /\ WF_stationVars(Acknowledged)

-----------------------------------------------------------------------------
\* Properties

\* A send that reports success reached its destination: the flag it saw was
\* raised for its own packet, however late the outcome of an earlier one came
\* (nrf24.c V1:248-271, BasicRF:196-228).
OkMeansReceived ==
  /\ role = "base" /\ result = "ok" => next_sequence \in air.far_got
  /\ doing = "reply" /\ result = "ok" => packet.seq \in air.far_got

\* The program is given only packets for its own station that came in since it
\* started, although RX_ADDR_P0 holds another station's address during a send.
OwnPacketsOnly == \A p \in air.read : p.to = Own /\ p \in air.heard

\* What the chip took in is read, waits in the FIFO or was lost to a scan: no
\* send, power change or initialisation drops what may have been acknowledged.
NothingDropped == air.heard \subseteq air.read \cup air.scanned \cup ToSet(chip.rx)

\* Between its operations a station listens on its own address and channel,
\* whatever way the last one ended (start_station_receiver(), V1 main.c:185-190).
RestsListening == doing \in {"idle", "await"} => Listening(chip, firmware, Own)

\* A radio that V1 reports as detected has all its registers, wherever in
\* nrf24_init() its supply came, went or came back.
FoundIsConfigured ==
  firmware = "V1" /\ doing \notin {"boot", "dead"} =>
    /\ chip.on
    /\ \A x \in ToSet(Configure(firmware)) :
         x[1] = "write" /\ x[2] \notin {"CONFIG", "RF_CH", "RF_SETUP"} => chip.reg[x[2]] = x[3]

\* A remote that answers a ping lets the acknowledgement of that ping go out
\* first, unless it turns its power up in between (README.md:164-176).
AcknowledgedBeforeAnswer ==
  [][doing = "reply" /\ ~air.raised /\ chip.acking = <<packet>> /\ chip'.acking = <<>>
       => packet \in air'.acked]_stationVars

\* A reply is reported for a ping that its remote received and answered: replies
\* to earlier pings, which wait in the FIFO when a send fails, are passed over.
CompletedWasAnswered == role = "base" => completed \subseteq air.far_sent

\* Every ping comes to an end, although strangers may never stop sending while
\* its reply is awaited; and every remote empties its receiver.
PingEnds == doing \in {"send", "await"} ~> doing = "idle"

RemoteEmptied == []<>(role = "base" \/ chip.rx = <<>>)
=============================================================================
