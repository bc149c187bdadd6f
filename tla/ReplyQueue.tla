----------------------------- MODULE ReplyQueue -----------------------------
(***************************************************************************)
(* Class rfQueue of src/Pico2_V2_RF/src/main.cpp: a ring of frames with    *)
(* the index of the oldest and a count.  The module knows its calls and    *)
(* not their caller: stage_next_ack_payload() asks empty() before front(), *)
(* and nothing else is assumed.                                            *)
(*                                                                         *)
(* A push copies only the bytes of its frame; those behind it are left     *)
(* over from an earlier lap of the ring.  The indices are uint8_t, which   *)
(* DEPTH fits, so no sum is cut before it is reduced.                      *)
(***************************************************************************)
EXTENDS Integers, Sequences

CONSTANTS
  DEPTH,             \* rfQueue::DEPTH (4)
  MAX_PAYLOAD_SIZE,  \* bytes of a frame (32)
  Bytes,             \* the values of a byte, 0 among them
  Payloads           \* what may be pushed

VARIABLES
  frames,            \* frames_[]
  head,              \* head_
  count,             \* count_
  last               \* history: the last call, its data and its result

queueVars == <<frames, head, count, last>>

\* What the sizes have to be: main.cpp:155 and 188.
QueueAssumption ==
  /\ DEPTH \in 1 .. 255
  /\ MAX_PAYLOAD_SIZE \in 0 .. 255
  /\ 0 \in Bytes
  /\ Payloads \subseteq Seq(Bytes)

Slots  == 0 .. DEPTH - 1
Called(call, data, returned) == [call |-> call, data |-> data, returned |-> returned]

Following(i) == (i + 1) % DEPTH
FreeSlot     == (head + count) % DEPTH

\* memcpy() of the data into a slot.
Copied(slot, data) ==
  [length |-> Len(data),
   bytes  |-> [i \in 1 .. MAX_PAYLOAD_SIZE |->
                 IF i <= Len(data) THEN data[i] ELSE slot.bytes[i]]]

\* The bytes of a frame that its length covers.
Content(slot) == [i \in 1 .. slot.length |-> slot.bytes[i]]

Init ==
  /\ frames = [i \in Slots |-> [length |-> 0, bytes |-> [j \in 1 .. MAX_PAYLOAD_SIZE |-> 0]]]
  /\ head = 0 /\ count = 0
  /\ last = Called("none", <<>>, TRUE)

Refused(data) ==
  /\ Len(data) > MAX_PAYLOAD_SIZE \/ count = DEPTH
  /\ last' = Called("push", data, FALSE)
  /\ UNCHANGED <<frames, head, count>>

Queued(data) ==
  /\ Len(data) <= MAX_PAYLOAD_SIZE /\ count # DEPTH
  /\ frames' = [frames EXCEPT ![FreeSlot] = Copied(@, data)]
  /\ count' = count + 1
  /\ last' = Called("push", data, TRUE)
  /\ UNCHANGED head

Push(data) == Refused(data) \/ Queued(data)

\* front(), asked for when empty() said no.
Front ==
  /\ count # 0
  /\ last' = Called("front", Content(frames[head]), TRUE)
  /\ UNCHANGED <<frames, head, count>>

Pop ==
  \/ /\ count = 0
     /\ last' = Called("pop", <<>>, FALSE)
     /\ UNCHANGED <<frames, head, count>>
  \/ /\ count # 0
     /\ head' = Following(head)
     /\ count' = count - 1
     /\ last' = Called("pop", <<>>, TRUE)
     /\ UNCHANGED frames

Next == Front \/ Pop \/ \E data \in Payloads : Push(data)

Spec == Init /\ [][Next]_queueVars

-----------------------------------------------------------------------------
\* Properties

Slot == [length : 0 .. MAX_PAYLOAD_SIZE, bytes : [1 .. MAX_PAYLOAD_SIZE -> Bytes]]

TypeOK ==
  /\ frames \in [Slots -> Slot]
  /\ head \in Slots
  /\ count \in 0 .. DEPTH
  /\ last \in [call : {"none", "push", "front", "pop"}, data : Seq(Bytes), returned : BOOLEAN]

\* The frames that wait, read round the ring from the oldest.
Waiting == [i \in 1 .. count |-> Content(frames[(head + i - 1) % DEPTH])]

Fifo == INSTANCE BoundedFifo WITH
          queue <- Waiting, Frames <- {p \in Payloads : Len(p) <= MAX_PAYLOAD_SIZE}

\* However often the ring has gone round, each call does and returns what it
\* would on a plain queue: what was pushed comes out whole and in order, and
\* only a frame that does not fit, or a full queue, is refused (main.cpp:158-193).
ImplementsFifo == Fifo!Spec
=============================================================================
