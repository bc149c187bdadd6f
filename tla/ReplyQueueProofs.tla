-------------------------- MODULE ReplyQueueProofs --------------------------
(***************************************************************************)
(* Theorems about rfQueue, for every depth that fits its indices and every *)
(* size of a frame.                                                        *)
(*                                                                         *)
(* The argument is about places: the i-th frame that waits lies i - 1      *)
(* slots round the ring from the oldest, and no two of them share a slot.  *)
(***************************************************************************)
EXTENDS ReplyQueue, TLAPS, SequenceTheorems

-----------------------------------------------------------------------------
\* The slots of the ring

Place(h, i) == (h + i) % DEPTH

LEMMA PlaceForms ==
  ASSUME QueueAssumption, NEW h \in Slots, NEW i \in 0 .. DEPTH
  PROVE  /\ Place(h, i) = IF h + i < DEPTH THEN h + i ELSE h + i - DEPTH
         /\ Place(h, i) \in Slots
  BY DEF Place, Slots, QueueAssumption

LEMMA PlacesDiffer ==
  ASSUME QueueAssumption, NEW h \in Slots, NEW i \in 0 .. DEPTH - 1, NEW j \in 0 .. DEPTH - 1, i # j
  PROVE  Place(h, i) # Place(h, j)
<1>1. DEPTH \in Nat /\ i \in 0 .. DEPTH /\ j \in 0 .. DEPTH /\ h \in 0 .. DEPTH - 1
  BY DEF Slots, QueueAssumption
<1>2. Place(h, i) = IF h + i < DEPTH THEN h + i ELSE h + i - DEPTH
  BY <1>1, PlaceForms
<1>3. Place(h, j) = IF h + j < DEPTH THEN h + j ELSE h + j - DEPTH
  BY <1>1, PlaceForms
<1> QED
  BY <1>1, <1>2, <1>3

\* Moving the head by one moves every place by one.
LEMMA PlacesMove ==
  ASSUME QueueAssumption, NEW h \in Slots, NEW i \in 0 .. DEPTH - 1
  PROVE  Place(Following(h), i) = Place(h, i + 1)
<1>1. DEPTH \in Nat \ {0} /\ i \in 0 .. DEPTH /\ i + 1 \in 0 .. DEPTH /\ 1 \in 0 .. DEPTH
  BY DEF QueueAssumption
<1>2. Following(h) = Place(h, 1)
  BY DEF Following, Place
<1>3. Following(h) \in Slots /\ Following(h) = IF h + 1 < DEPTH THEN h + 1 ELSE h + 1 - DEPTH
  BY <1>1, <1>2, PlaceForms
<1>4. Place(Following(h), i) = IF Following(h) + i < DEPTH THEN Following(h) + i
                               ELSE Following(h) + i - DEPTH
  BY <1>1, <1>3, PlaceForms
<1>5. Place(h, i + 1) = IF h + (i + 1) < DEPTH THEN h + (i + 1) ELSE h + (i + 1) - DEPTH
  BY <1>1, PlaceForms
<1> QED
  BY <1>1, <1>3, <1>4, <1>5 DEF Slots

\* What is read of a slot is what was pushed into it, however long the frame
\* that lay there before.
LEMMA CopiedWhole ==
  ASSUME QueueAssumption, NEW slot \in Slot, NEW data \in Seq(Bytes), Len(data) <= MAX_PAYLOAD_SIZE
  PROVE  Copied(slot, data) \in Slot /\ Content(Copied(slot, data)) = data
<1>1. Len(data) \in Nat /\ DOMAIN data = 1 .. Len(data)
      /\ \A i \in 1 .. Len(data) : data[i] \in Bytes
  OBVIOUS
<1>2. MAX_PAYLOAD_SIZE \in Nat
  BY DEF QueueAssumption
<1> DEFINE bytes == [i \in 1 .. MAX_PAYLOAD_SIZE |->
                       IF i <= Len(data) THEN data[i] ELSE slot.bytes[i]]
<1>3. slot.bytes \in [1 .. MAX_PAYLOAD_SIZE -> Bytes]
  BY DEF Slot
<1>4. bytes \in [1 .. MAX_PAYLOAD_SIZE -> Bytes]
  <2> SUFFICES ASSUME NEW i \in 1 .. MAX_PAYLOAD_SIZE
               PROVE  (IF i <= Len(data) THEN data[i] ELSE slot.bytes[i]) \in Bytes
    OBVIOUS
  <2>1. CASE i <= Len(data)
    BY <1>1, <1>2, <2>1
  <2>2. CASE ~(i <= Len(data))
    BY <1>3, <2>2
  <2> QED
    BY <2>1, <2>2
<1>5. Copied(slot, data) = [length |-> Len(data), bytes |-> bytes]
  BY DEF Copied
<1>6. \A i \in 1 .. Len(data) : bytes[i] = data[i]
  BY <1>1, <1>2
<1> HIDE DEF bytes
<1>7. Copied(slot, data) \in Slot
  BY <1>1, <1>2, <1>4, <1>5 DEF Slot
<1>8. Content(Copied(slot, data)) = [i \in 1 .. Len(data) |-> bytes[i]]
  BY <1>5 DEF Content
<1> QED
  BY <1>1, <1>6, <1>7, <1>8

LEMMA ContentIsBytes ==
  ASSUME QueueAssumption, NEW slot \in Slot
  PROVE  Content(slot) \in Seq(Bytes)
<1>1. slot.length \in Nat /\ \A i \in 1 .. slot.length : slot.bytes[i] \in Bytes
  BY DEF Slot, QueueAssumption
<1> QED
  BY <1>1 DEF Content

-----------------------------------------------------------------------------
\* Types

LEMMA NothingIsBytes == <<>> \in Seq(Bytes)
  OBVIOUS

LEMMA QueueTypesStart ==
  ASSUME QueueAssumption, Init
  PROVE  TypeOK
<1>1. [length |-> 0, bytes |-> [j \in 1 .. MAX_PAYLOAD_SIZE |-> 0]] \in Slot
  BY DEF Slot, QueueAssumption
<1>2. head \in Slots /\ count \in 0 .. DEPTH
  BY DEF Init, Slots, QueueAssumption
<1> QED
  BY <1>1, <1>2, NothingIsBytes DEF Init, TypeOK, Called

LEMMA QueueTypesStep ==
  ASSUME QueueAssumption, TypeOK, [Next]_queueVars
  PROVE  TypeOK'
<1> USE DEF TypeOK
<1>1. CASE Front
  <2>1. frames[head] \in Slot
    OBVIOUS
  <2> QED
    BY <1>1, <2>1, ContentIsBytes DEF Front, Called
<1>2. CASE Pop
  <2>1. last' \in [call : {"none", "push", "front", "pop"}, data : Seq(Bytes), returned : BOOLEAN]
    <3>1. PICK b \in BOOLEAN : last' = Called("pop", <<>>, b)
      BY <1>2 DEF Pop
    <3> QED
      BY <3>1, NothingIsBytes DEF Called
  <2>2. CASE count = 0
    BY <1>2, <2>1, <2>2 DEF Pop
  <2>3. CASE count # 0
    <3>1. Following(head) \in Slots /\ count - 1 \in 0 .. DEPTH
      BY <2>3 DEF Following, Slots, QueueAssumption
    <3> QED
      BY <1>2, <2>1, <2>3, <3>1 DEF Pop
  <2> QED
    BY <2>2, <2>3
<1>3. ASSUME NEW data \in Payloads, Refused(data)
      PROVE  TypeOK'
  BY <1>3 DEF Refused, Called, QueueAssumption
<1>4. ASSUME NEW data \in Payloads, Queued(data)
      PROVE  TypeOK'
  <2>1. data \in Seq(Bytes) /\ Len(data) <= MAX_PAYLOAD_SIZE /\ count # DEPTH
    BY <1>4 DEF Queued, QueueAssumption
  <2>2. FreeSlot \in Slots
    BY PlaceForms DEF FreeSlot, Place
  <2>3. Copied(frames[FreeSlot], data) \in Slot
    BY <2>1, <2>2, CopiedWhole
  <2>4. frames' \in [Slots -> Slot]
    BY <1>4, <2>2, <2>3 DEF Queued
  <2>5. count' \in 0 .. DEPTH
    BY <1>4, <2>1 DEF Queued, QueueAssumption
  <2> QED
    BY <1>4, <2>1, <2>4, <2>5 DEF Queued, Called
<1>5. CASE UNCHANGED queueVars
  BY <1>5 DEF queueVars
<1> QED
  BY <1>1, <1>2, <1>3, <1>4, <1>5 DEF Next, Push

\* The indices stay inside the ring and every slot holds a frame
\* (main.cpp:163-185).
THEOREM RingStaysTyped ==
  ASSUME QueueAssumption
  PROVE  Spec => []TypeOK
<1>1. Init => TypeOK
  BY QueueTypesStart
<1>2. TypeOK /\ [Next]_queueVars => TypeOK'
  BY QueueTypesStep
<1> QED
  BY <1>1, <1>2, PTL DEF Spec

-----------------------------------------------------------------------------
\* Calls on the ring are calls on a plain queue

\* The i-th frame that waits in a ring whose oldest lies in slot h.
WaitingAt(ring, h, i) == Content(ring[Place(h, i - 1)])

\* Waiting, of any ring.
Held(ring, h, n) == [i \in 1 .. n |-> Content(ring[(h + i - 1) % DEPTH])]

LEMMA WaitingForms ==
  ASSUME QueueAssumption, NEW ring \in [Slots -> Slot], NEW h \in Slots, NEW n \in 0 .. DEPTH
  PROVE  /\ Held(ring, h, n) \in Seq(Seq(Bytes)) /\ Len(Held(ring, h, n)) = n
         /\ \A i \in 1 .. n : Held(ring, h, n)[i] = WaitingAt(ring, h, i)
<1>1. ASSUME NEW i \in 1 .. n
      PROVE  (h + i - 1) % DEPTH = Place(h, i - 1) /\ Place(h, i - 1) \in Slots
  <2>1. i - 1 \in 0 .. DEPTH /\ h + i - 1 = h + (i - 1)
    BY DEF Slots, QueueAssumption
  <2> QED
    BY <2>1, PlaceForms DEF Place
<1>2. \A i \in 1 .. n : WaitingAt(ring, h, i) \in Seq(Bytes)
  BY <1>1, ContentIsBytes DEF WaitingAt
<1>3. n \in Nat
  BY DEF QueueAssumption
<1> DEFINE frame(i) == WaitingAt(ring, h, i)
<1>4. Held(ring, h, n) = [i \in 1 .. n |-> frame(i)]
  BY <1>1 DEF Held, WaitingAt
<1>5. \A i \in 1 .. n : frame(i) \in Seq(Bytes)
  BY <1>2
<1> HIDE DEF frame
<1>6. Held(ring, h, n) \in Seq(Seq(Bytes))
  BY <1>3, <1>4, <1>5
<1>7. Len(Held(ring, h, n)) = n /\ \A i \in 1 .. n : Held(ring, h, n)[i] = frame(i)
  BY <1>3, <1>4
<1> QED
  BY <1>6, <1>7 DEF frame

LEMMA PushIsPush ==
  ASSUME QueueAssumption, TypeOK, TypeOK', NEW data \in Payloads, Push(data)
  PROVE  Fifo!Push(data)
<1> DEFINE Fits == {p \in Payloads : Len(p) <= MAX_PAYLOAD_SIZE}
<1>1. /\ Waiting \in Seq(Seq(Bytes)) /\ Len(Waiting) = count
      /\ \A i \in 1 .. count : Waiting[i] = WaitingAt(frames, head, i)
  <2>1. Waiting = Held(frames, head, count)
    BY DEF Waiting, Held
  <2>2. frames \in [Slots -> Slot] /\ head \in Slots /\ count \in 0 .. DEPTH
    BY DEF TypeOK
  <2> QED
    BY <2>1, <2>2, WaitingForms
<1>2. /\ Waiting' \in Seq(Seq(Bytes)) /\ Len(Waiting') = count'
      /\ \A i \in 1 .. count' : Waiting'[i] = WaitingAt(frames', head', i)
  <2>1. Waiting' = Held(frames', head', count')
    BY DEF Waiting, Held
  <2>2. frames' \in [Slots -> Slot] /\ head' \in Slots /\ count' \in 0 .. DEPTH
    BY DEF TypeOK
  <2> QED
    BY <2>1, <2>2, WaitingForms
<1>3. count \in 0 .. DEPTH /\ DEPTH \in Nat /\ data \in Seq(Bytes) /\ Len(data) \in Nat
      /\ MAX_PAYLOAD_SIZE \in Nat
  BY DEF TypeOK, QueueAssumption
<1>4. CASE Refused(data)
  <2>1. ~(data \in Fits /\ Len(Waiting) < DEPTH)
    BY <1>1, <1>3, <1>4 DEF Refused
  <2>2. Waiting' = Waiting
    BY <1>4 DEF Refused, Waiting
  <2> QED
    BY <1>4, <2>1, <2>2 DEF Fifo!Push, Refused, Called
<1>5. CASE Queued(data)
  <2>1. data \in Fits /\ Len(Waiting) < DEPTH
    BY <1>1, <1>3, <1>5 DEF Queued
  <2>2. /\ head' = head /\ count' = count + 1 /\ FreeSlot = Place(head, count)
        /\ FreeSlot \in Slots /\ head \in Slots
        /\ frames' = [frames EXCEPT ![FreeSlot] = Copied(frames[FreeSlot], data)]
    BY <1>3, <1>5, PlaceForms DEF Queued, FreeSlot, Place, TypeOK
  <2>3. WaitingAt(frames', head', count + 1) = data
    <3>1. frames[FreeSlot] \in Slot /\ Len(data) <= MAX_PAYLOAD_SIZE
      BY <1>5, <2>2 DEF TypeOK, Queued
    <3>2. frames'[FreeSlot] = Copied(frames[FreeSlot], data)
      BY <2>2 DEF TypeOK
    <3>3. Content(frames'[FreeSlot]) = data
      BY <1>3, <3>1, <3>2, CopiedWhole
    <3>4. Place(head, (count + 1) - 1) = FreeSlot
      <4>1. (count + 1) - 1 = count
        BY <1>3
      <4> QED
        BY <2>2, <4>1
    <3> QED
      BY <1>3, <2>2, <3>3, <3>4 DEF WaitingAt
  <2>4. ASSUME NEW i \in 1 .. count
        PROVE  WaitingAt(frames', head', i) = WaitingAt(frames, head, i)
    <3>1. i - 1 \in 0 .. DEPTH - 1 /\ count \in 0 .. DEPTH - 1 /\ i - 1 # count
      BY <1>1, <1>3, <2>1
    <3>2. Place(head, i - 1) # FreeSlot
      BY <2>2, <3>1, PlacesDiffer
    <3>3. i - 1 \in 0 .. DEPTH
      BY <1>3, <3>1
    <3>4. Place(head, i - 1) \in Slots
      BY <2>2, <3>3, PlaceForms
    <3>5. frames'[Place(head, i - 1)] = frames[Place(head, i - 1)]
      BY <2>2, <3>2, <3>4 DEF TypeOK
    <3> QED
      BY <2>2, <3>5 DEF WaitingAt
  <2>5. Waiting' = Append(Waiting, data)
    <3> DEFINE W == Waiting
               V == Append(W, data)
    <3>1. /\ Len(V) = count + 1 /\ V \in Seq(Seq(Bytes))
          /\ \A i \in 1 .. count : V[i] = W[i]
          /\ V[count + 1] = data
      BY <1>1, <1>3
    <3> HIDE DEF W, V
    <3>2. ASSUME NEW i \in 1 .. count + 1
          PROVE  Waiting'[i] = V[i]
      <4>1. CASE i = count + 1
        BY <1>2, <2>2, <2>3, <3>1, <4>1
      <4>2. CASE i # count + 1
        <5>1. i \in 1 .. count
          BY <1>3, <4>2
        <5> QED
          BY <1>1, <1>2, <2>2, <2>4, <3>1, <5>1 DEF W
      <4> QED
        BY <4>1, <4>2
    <3>3. Waiting' = V
      BY <1>2, <1>3, <2>2, <3>1, <3>2, SeqEqual
    <3> QED
      BY <3>3 DEF V, W
  <2> QED
    BY <1>5, <2>1, <2>5 DEF Fifo!Push, Queued, Called
<1> QED
  BY <1>4, <1>5 DEF Push

LEMMA FrontIsFront ==
  ASSUME QueueAssumption, TypeOK, Front
  PROVE  Fifo!Front
<1>1. /\ Waiting \in Seq(Seq(Bytes)) /\ Len(Waiting) = count
      /\ \A i \in 1 .. count : Waiting[i] = WaitingAt(frames, head, i)
  <2>1. Waiting = Held(frames, head, count)
    BY DEF Waiting, Held
  <2>2. frames \in [Slots -> Slot] /\ head \in Slots /\ count \in 0 .. DEPTH
    BY DEF TypeOK
  <2> QED
    BY <2>1, <2>2, WaitingForms
<1>2. count \in Nat \ {0} /\ head \in Slots
  BY DEF TypeOK, Front, QueueAssumption
<1>3. Place(head, 0) = head
  BY <1>2, PlaceForms DEF Slots, QueueAssumption
<1>4. Waiting # <<>> /\ Head(Waiting) = Content(frames[head])
  <2>1. Waiting[1] = WaitingAt(frames, head, 1)
    BY <1>1, <1>2
  <2>2. WaitingAt(frames, head, 1) = Content(frames[head])
    BY <1>3 DEF WaitingAt
  <2> QED
    BY <1>1, <1>2, <2>1, <2>2
<1>5. Waiting' = Waiting
  BY DEF Front, Waiting
<1> QED
  BY <1>4, <1>5 DEF Fifo!Front, Front, Called

LEMMA PopIsPop ==
  ASSUME QueueAssumption, TypeOK, TypeOK', Pop
  PROVE  Fifo!Pop
<1>1. /\ Waiting \in Seq(Seq(Bytes)) /\ Len(Waiting) = count
      /\ \A i \in 1 .. count : Waiting[i] = WaitingAt(frames, head, i)
  <2>1. Waiting = Held(frames, head, count)
    BY DEF Waiting, Held
  <2>2. frames \in [Slots -> Slot] /\ head \in Slots /\ count \in 0 .. DEPTH
    BY DEF TypeOK
  <2> QED
    BY <2>1, <2>2, WaitingForms
<1>2. /\ Waiting' \in Seq(Seq(Bytes)) /\ Len(Waiting') = count'
      /\ \A i \in 1 .. count' : Waiting'[i] = WaitingAt(frames', head', i)
  <2>1. Waiting' = Held(frames', head', count')
    BY DEF Waiting, Held
  <2>2. frames' \in [Slots -> Slot] /\ head' \in Slots /\ count' \in 0 .. DEPTH
    BY DEF TypeOK
  <2> QED
    BY <2>1, <2>2, WaitingForms
<1>3. count \in 0 .. DEPTH /\ DEPTH \in Nat /\ head \in Slots
  BY DEF TypeOK, QueueAssumption
<1>4. CASE count = 0
  <2>1. Waiting' = Waiting /\ last' = Called("pop", <<>>, FALSE)
    BY <1>4 DEF Pop, Waiting
  <2>2. Waiting = <<>>
    BY <1>1, <1>4
  <2> QED
    BY <2>1, <2>2 DEF Fifo!Pop, Called
<1>5. CASE count # 0
  <2>1. /\ head' = Following(head) /\ count' = count - 1 /\ frames' = frames
        /\ last' = Called("pop", <<>>, TRUE)
    BY <1>5 DEF Pop
  <2>2. Waiting # <<>>
    BY <1>1, <1>5
  <2>3. ASSUME NEW i \in 1 .. count - 1
        PROVE  WaitingAt(frames', head', i) = WaitingAt(frames, head, i + 1)
    <3>1. i - 1 \in 0 .. DEPTH - 1 /\ (i - 1) + 1 = (i + 1) - 1
      BY <1>3
    <3>2. Place(Following(head), i - 1) = Place(head, (i + 1) - 1)
      BY <1>3, <3>1, PlacesMove
    <3> QED
      BY <2>1, <3>2 DEF WaitingAt
  <2>4. Waiting' = Tail(Waiting)
    <3> DEFINE W == Waiting
               T == Tail(W)
    <3>1. /\ Len(T) = count - 1 /\ T \in Seq(Seq(Bytes))
          /\ \A i \in 1 .. count - 1 : T[i] = W[i + 1]
      BY <1>1, <1>3, <2>2
    <3> HIDE DEF W, T
    <3>2. ASSUME NEW i \in 1 .. count - 1
          PROVE  Waiting'[i] = T[i]
      <4>1. i + 1 \in 1 .. count
        BY <1>3
      <4> QED
        BY <1>1, <1>2, <2>1, <2>3, <3>1, <4>1 DEF W
    <3>3. Waiting' = T
      BY <1>2, <1>3, <2>1, <3>1, <3>2, SeqEqual
    <3> QED
      BY <3>3 DEF T, W
  <2> QED
    BY <2>1, <2>2, <2>4 DEF Fifo!Pop, Called
<1> QED
  BY <1>4, <1>5

\* The ring implements the plain queue, call by call, for every depth and size
\* of a frame (main.cpp:158-193).
THEOREM RingImplementsFifo ==
  ASSUME QueueAssumption
  PROVE  Spec => ImplementsFifo
<1>1. Init => Fifo!Init
  <2> SUFFICES ASSUME Init PROVE Fifo!Init
    OBVIOUS
  <2>1. Waiting = <<>>
    BY DEF Init, Waiting
  <2> QED
    BY <2>1 DEF Init, Fifo!Init, Called
<1>2. TypeOK /\ TypeOK' /\ [Next]_queueVars => [Fifo!Next]_(Fifo!fifoVars)
  <2> SUFFICES ASSUME TypeOK, TypeOK', [Next]_queueVars
               PROVE  [Fifo!Next]_(Fifo!fifoVars)
    OBVIOUS
  <2>1. CASE UNCHANGED queueVars
    BY <2>1 DEF queueVars, Fifo!fifoVars, Waiting
  <2>2. CASE Next
    BY <2>2, PushIsPush, FrontIsFront, PopIsPop DEF Next, Fifo!Next
  <2> QED
    BY <2>1, <2>2
<1> QED
  BY <1>1, <1>2, RingStaysTyped, PTL DEF Spec, ImplementsFifo, Fifo!Spec
=============================================================================
