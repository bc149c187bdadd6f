----------------------------- MODULE CommandPath -----------------------------
(***************************************************************************)
(* From the keyboard to the vehicle: symbols typed at a board's console    *)
(* collect in the reader's buffer, a terminator runs the line, and with    *)
(* the V1 firmware the command goes through the packet codec to a remote   *)
(* and its answer back, with bits damaged on the way.  (What V2 does with  *)
(* its frames is module V2Link.)                                           *)
(*                                                                         *)
(* typed is what the user sees on the line: everything typed in this       *)
(* session since the last terminator, less what was erased.  A reconnected *)
(* terminal starts a session; the buffer knows nothing of it.              *)
(***************************************************************************)
EXTENDS LineReader, PacketCodec

CONSTANTS
  Symbols,       \* what can be typed, for each firmware
  Openers,       \* what can be typed at the start of a line only
  MaxTyped,      \* bound on the length of a typed line, for each firmware
  MaxLeft,       \* bound on the half line that a disconnect leaves
  MaxAfterLeft,  \* bound on the line typed behind it
  MaxFlips,      \* bound on the damaged bits of one packet
  SourceID       \* the remote that answers

VARIABLES
  firmware,      \* which firmware the board runs
  buffer,        \* line and line_length, overflow
  typed,         \* history: the line as the user sees it
  leftover,      \* history: half a line of an earlier session may be in front of it
  lost,          \* history, V1: what did not fit, see Lost
  ran,           \* history: what the last line did and what it meant
  wire           \* the packet on its way, V1

pathVars == <<firmware, buffer, typed, leftover, lost, ran, wire>>

ASSUME PathAssumption ==
  /\ MaxTyped \in [{"V1", "V2"} -> Nat] /\ {MaxLeft, MaxAfterLeft} \subseteq Nat /\ MaxFlips \in Nat
  /\ SourceID \in 1 .. 16

\* "none"; "tail": the end of the line was dropped; "mixed": something was
\* typed or erased after that.
Lost == {"none", "tail", "mixed"}

NothingRan == [did |-> Ignored, meant |-> Ignored, clean |-> TRUE]
Idle == [leg |-> "none"]

TooLong == [verb |-> "too long", args |-> <<>>]

-----------------------------------------------------------------------------
\* What a line means, stated on its words

WordStarts(line) ==
  {i \in DOMAIN line : line[i] # Blank /\ (i = 1 \/ line[i - 1] = Blank)}

\* The word that starts at i.
WordAt(line, i) ==
  LET after == {j \in i .. Len(line) : line[j] = Blank}
  IN  SubSeq(line, i, IF after = {} THEN Len(line) ELSE Min(after) - 1)

\* All the words of a line.
Words(line) ==
  LET starts == SetToSortSeq(WordStarts(line), <)
  IN  [k \in DOMAIN starts |-> WordAt(line, starts[k])]

NumberIn(word, S) == IsNumber(word) /\ NumberOf(word) \in S

MeaningV2(line) ==
  LET w == Words(line)
  IN  IF Len(line) >= LineSize["V2"] THEN TooLong
      ELSE CASE w = <<>> \/ (w # <<>> /\ w[1][1] = "*") -> Ignored
        [] Len(w) = 3 /\ w[1] = <<"move">>
             /\ NumberIn(w[2], Velocities) /\ NumberIn(w[3], Velocities) ->
             Order("move", <<NumberOf(w[2]), NumberOf(w[3])>>)
        [] w # <<>> /\ w[1] = <<"stop">> -> Order("stop", <<>>)
        [] Len(w) = 2 /\ w[1] = <<"tlm">> /\ NumberIn(w[2], TlmRates) ->
             Order("tlm", <<NumberOf(w[2])>>)
        [] Len(w) = 2 /\ w[1] = <<"setbpa">> /\ NumberIn(w[2], Levels) ->
             Order("setbpa", <<NumberOf(w[2])>>)
        [] OTHER -> Error

\* Of a line that does not fit, V1 takes what does.
MeaningV1(line) ==
  LET l == SubSeq(line, 1, Min({Len(line), LineSize["V1"] - 1}))
      w == Words(l)
  IN  CASE l = <<>> -> Ignored
        [] l \in {<<"stop">>, <<"getstat">>} -> Order(l[1], <<0>>)
        [] Len(w) = 2 /\ w[1] = <<"move">> /\ l[1] # Blank /\ NumberIn(w[2], Moves) ->
             Order("move", <<NumberOf(w[2])>>)
        [] OTHER -> Error

Meaning == IF firmware = "V2" THEN MeaningV2(typed) ELSE MeaningV1(typed)

-----------------------------------------------------------------------------
\* Typing

\* One symbol is read.
Type(c) ==
  /\ wire = Idle
  /\ Len(typed) < IF leftover THEN MaxAfterLeft ELSE MaxTyped[firmware]
  /\ buffer' = IF firmware = "V2" THEN CollectV2(buffer, c) ELSE CollectV1(buffer, c)
  /\ typed' = IF firmware = "V2" \/ c # Erase THEN Append(typed, c)
              ELSE IF typed = <<>> THEN typed ELSE Front(typed)
  /\ lost' = IF firmware = "V2" THEN "none"
             ELSE CASE lost = "none" /\ c # Erase /\ buffer' = buffer -> "tail"
                    [] lost = "tail" /\ buffer' # buffer -> "mixed"
                    [] OTHER -> lost
  /\ ran' = NothingRan
  /\ UNCHANGED <<firmware, leftover, wire>>

\* What a terminator makes the board do.
Outcome ==
  IF firmware = "V2" /\ buffer.over THEN TooLong
  ELSE IF buffer.line = <<>> THEN Ignored
  ELSE IF firmware = "V2" THEN ProcessV2(buffer.line) ELSE ProcessV1(buffer.line)

\* protocol_encode_command() in send_command().
SendOrder(order) ==
  [leg |-> "command", packet |-> EncodeCommand(order.verb, order.args[1]),
   asked |-> order, flips |-> {}]

Terminate ==
  /\ wire = Idle
  /\ buffer' = AfterTerminator(buffer)
  /\ ran' = [did |-> Outcome, meant |-> Meaning, clean |-> ~leftover /\ lost # "mixed"]
  /\ wire' = IF firmware = "V1" /\ Outcome.verb \in {"move", "stop", "getstat"}
               THEN SendOrder(Outcome) ELSE Idle
  /\ typed' = <<>> /\ leftover' = FALSE /\ lost' = "none"
  /\ UNCHANGED firmware

\* The terminal is gone and another session begins.
Reconnect ==
  /\ wire = Idle
  /\ Len(buffer.line) <= MaxLeft
  /\ leftover' = (leftover \/ buffer # EmptyBuffer)
  /\ typed' = <<>> /\ lost' = "none" /\ ran' = NothingRan
  /\ UNCHANGED <<firmware, buffer, wire>>

-----------------------------------------------------------------------------
\* The air and the stations, V1

\* A bit is damaged (external).
Flip(i, b) ==
  /\ wire # Idle
  /\ Cardinality(wire.flips) < MaxFlips
  /\ \A f \in wire.flips : 8 * f[1] + f[2] < 8 * i + b
  /\ wire' = [wire EXCEPT !.packet[i] = SymDiff(@, {b}), !.flips = @ \cup {<<i, b>>}]
  /\ UNCHANGED <<firmware, buffer, typed, leftover, lost, ran>>

\* One byte stands for the data of GETSTAT and GETVER.
StatData == <<7>>

\* process_remote_commands(): what a remote answers to a packet.
AnswerTo(packet, order) ==
  LET c == DecodeCommand(packet)
      Reply(bytes) == [leg |-> "response", asked |-> order, flips |-> {}, packet |-> bytes]
  IN  IF c = Refused \/ c.command \notin {Byte(CodeOf[v]) : v \in DOMAIN CodeOf} THEN Idle
      ELSE IF c.command \in {Byte(CodeOf["getstat"]), Byte(CodeOf["getver"])}
        THEN Reply(EncodeData(SourceID, c.command, StatData))
      ELSE Reply(EncodeAck(SourceID, c.command, c.argument))

RemoteReceives ==
  /\ wire # Idle /\ wire.leg = "command"
  /\ wire' = AnswerTo(wire.packet, wire.asked)
  /\ UNCHANGED <<firmware, buffer, typed, leftover, lost, ran>>

BaseReceives ==
  /\ wire # Idle /\ wire.leg = "response"
  /\ wire' = Idle
  /\ UNCHANGED <<firmware, buffer, typed, leftover, lost, ran>>

-----------------------------------------------------------------------------
Init ==
  /\ firmware \in {"V1", "V2"}
  /\ buffer = EmptyBuffer
  /\ typed = <<>> /\ leftover = FALSE /\ lost = "none"
  /\ ran = NothingRan
  /\ wire = Idle

Next ==
  \/ \E c \in Symbols[firmware] : Type(c)
  \/ \E c \in Openers[firmware] : buffer.line = <<>> /\ Type(c)
  \/ Terminate \/ Reconnect
  \/ \E i \in PacketByte, b \in Bit : Flip(i, b)
  \/ RemoteReceives \/ BaseReceives

Spec == Init /\ [][Next]_pathVars

-----------------------------------------------------------------------------
\* Properties

\* The buffer holds the line the user sees, or V2 knows that it does not; the
\* half line of an earlier session can only be in front of it, and only until
\* the next terminator (main.cpp:941-967, V1 main.c:799-819).
BufferFollowsTyping ==
  /\ ~buffer.over /\ lost = "none" => IsSuffix(typed, buffer.line)
  /\ ~buffer.over /\ lost = "none" /\ ~leftover => buffer.line = typed
  /\ lost = "tail" /\ ~leftover => IsStrictPrefix(buffer.line, typed)

\* A line does what its words say, all of them: V2 never runs an over-long line
\* nor part of one, and a list of arguments that is too long is refused however
\* long it is; V1 does what the part that fitted says, unless the user went on
\* editing past the end (tokenize(), main.cpp:742-763).
RunsWhatWasTyped == ran.clean => ran.did = ran.meant

\* What is decoded from an intact packet is what was encoded, and never passes
\* for a packet of the other direction; a packet with one to MaxFlips damaged
\* bits is taken for nothing at all.  The vehicle obeys what was typed, or
\* nothing (protocol.c:30-114).
UnderstoodOrRefused ==
  wire # Idle =>
    LET order == wire.asked
        command == IF wire.leg = "command" THEN AsCommand(order.verb, order.args[1]) ELSE Refused
        response ==
          CASE wire.leg = "command" -> Refused
            [] order.verb = "getstat" -> AsResponse(SourceID, "getstat", 1, StatData)
            [] OTHER -> AsResponse(SourceID, order.verb, order.args[1], <<>>)
        intact == wire.flips = {}
    IN  /\ DecodeCommand(wire.packet) = IF intact THEN command ELSE Refused
        /\ DecodeResponse(wire.packet) = IF intact THEN response ELSE Refused
=============================================================================
