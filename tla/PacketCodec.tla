----------------------------- MODULE PacketCodec -----------------------------
(***************************************************************************)
(* The V1 packets: src/Pico2_V1_RF/src/protocol.c.  A byte is the set of   *)
(* its bits that are one, the CRC register likewise, so that exclusive or  *)
(* is the symmetric difference and 0x1021 is {12, 5, 0}.                   *)
(***************************************************************************)
EXTENDS Integers, Sequences, SequencesExt, FiniteSetsExt

CONSTANT PACKET_SIZE     \* RF_PACKET_SIZE

ASSUME PacketAssumption == PACKET_SIZE \in Nat /\ PACKET_SIZE > 5

CRC_OFFSET == PACKET_SIZE - 2
DATA_MAX   == PACKET_SIZE - 5        \* RF_RESPONSE_DATA_MAX

Bit        == 0 .. 7
PacketByte == 0 .. PACKET_SIZE - 1
ACK_MASK   == 4 .. 7                 \* RF_RESPONSE_ACK_MASK, 0xF0

\* RF_COMMAND_*
CodeOf == [getstat |-> 1, ping |-> 2, getver |-> 3, move |-> 10, stop |-> 11]

-----------------------------------------------------------------------------
\* Bytes

Byte(n) == {b \in Bit : (n \div 2^b) % 2 = 1}

Unsigned(B) == MapThenSumSet(LAMBDA b : 2^b, B)

\* (int8_t) of a byte; (uint8_t) of an int8_t is Byte(n % 256).
Signed(B) == IF 7 \in B THEN Unsigned(B) - 256 ELSE Unsigned(B)

-----------------------------------------------------------------------------
\* crc16_ccitt()

\* One of the eight steps: shift left, and divide by the polynomial.
Shifted(crc) ==
  LET up == {b + 1 : b \in crc \ {15}}
  IN  IF 15 \in crc THEN SymDiff(up, {12, 5, 0}) ELSE up

Fed(crc, byte) ==
  FoldLeft(LAMBDA c, i : Shifted(c), SymDiff(crc, {b + 8 : b \in byte}), <<1, 2, 3, 4, 5, 6, 7, 8>>)

Crc16(bytes) == FoldLeft(Fed, 0 .. 15, bytes)

\* Everything before the CRC, in order.
Covered(packet) == [i \in 1 .. CRC_OFFSET |-> packet[i - 1]]

\* finish_packet(): the CRC goes in low byte first.
FinishPacket(packet) ==
  LET crc == Crc16(Covered(packet))
  IN  [packet EXCEPT ![CRC_OFFSET] = crc \cap Bit,
                     ![CRC_OFFSET + 1] = {b - 8 : b \in crc \ Bit}]

CrcValidLow(packet) ==                  \* mutant: the high byte is not compared
  packet[CRC_OFFSET] = Crc16(Covered(packet)) \cap Bit

CrcValid(packet) ==
  packet[CRC_OFFSET] \cup {b + 8 : b \in packet[CRC_OFFSET + 1]} = Crc16(Covered(packet))

-----------------------------------------------------------------------------
\* Encoding

AckByte(source_id) == ACK_MASK \cup Byte(source_id - 1)

\* memset() and the bytes that are set.
Bytes(s) == [i \in PacketByte |-> IF i < Len(s) THEN s[i + 1] ELSE {}]

EncodeCommand(command, argument) ==
  FinishPacket(Bytes(<<Byte(CodeOf[command]), Byte(argument % 256)>>))

\* The command is the byte that was decoded.
EncodeAck(source_id, command, argument) ==
  FinishPacket(Bytes(<<AckByte(source_id), command, Byte(argument % 256)>>))

\* data is a sequence of numbers, which no caller makes longer than DATA_MAX; the
\* code refuses more.
EncodeData(source_id, command, data) ==
  FinishPacket(Bytes(<<AckByte(source_id), command, Byte(Len(data))>>
                       \o [i \in DOMAIN data |-> Byte(data[i])]))

-----------------------------------------------------------------------------
\* Decoding

Refused == [refused |-> TRUE]

AsCommand(command, argument) == [command |-> Byte(CodeOf[command]), argument |-> argument]

DecodeCommand(packet) ==
  IF ~CrcValid(packet) \/ ACK_MASK \subseteq packet[0] THEN Refused
  ELSE [command |-> packet[0], argument |-> Signed(packet[1])]

AsResponse(source_id, command, argument, data) ==
  [source_id |-> source_id, command |-> Byte(CodeOf[command]), argument |-> argument,
   data |-> [i \in DOMAIN data |-> Byte(data[i])]]

\* The data of the two queries is as long as the third byte says; the same
\* byte is the argument.
DecodeResponse(packet) ==
  IF ~CrcValid(packet) \/ ~(ACK_MASK \subseteq packet[0]) THEN Refused
  ELSE LET carries == Unsigned(packet[1]) \in {CodeOf["getstat"], CodeOf["getver"]}
           length  == IF carries THEN Unsigned(packet[2]) ELSE 0
       IN  IF length > DATA_MAX THEN Refused
           ELSE [source_id |-> Unsigned(packet[0] \ ACK_MASK) + 1, command |-> packet[1],
                 argument |-> Signed(packet[2]),
                 data |-> [i \in 1 .. length |-> packet[2 + i]]]
=============================================================================
