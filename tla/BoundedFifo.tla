---------------------------- MODULE BoundedFifo ----------------------------
(***************************************************************************)
(* What the callers of class rfQueue (main.cpp) rely on, call by call: a   *)
(* queue of frames that takes one that fits while there is room and says   *)
(* so, hands out the oldest first, and never changes one that waits.       *)
(***************************************************************************)
EXTENDS Integers, Sequences

CONSTANTS
  DEPTH,         \* how many frames may wait
  Payloads,      \* what may be offered
  Frames         \* what of it fits

VARIABLES
  queue,         \* the frames that wait, the oldest first
  last           \* the last call, with what it was given and what it returned

fifoVars == <<queue, last>>

Init == queue = <<>> /\ last = [call |-> "none", data |-> <<>>, returned |-> TRUE]

Push(x) ==
  LET taken == x \in Frames /\ Len(queue) < DEPTH IN
    /\ queue' = IF taken THEN Append(queue, x) ELSE queue
    /\ last' = [call |-> "push", data |-> x, returned |-> taken]

Front ==
  /\ queue # <<>>
  /\ last' = [call |-> "front", data |-> Head(queue), returned |-> TRUE]
  /\ UNCHANGED queue

Pop ==
  /\ queue' = IF queue = <<>> THEN queue ELSE Tail(queue)
  /\ last' = [call |-> "pop", data |-> <<>>, returned |-> queue # <<>>]

Next == Front \/ Pop \/ \E x \in Payloads : Push(x)

Spec == Init /\ [][Next]_fifoVars
=============================================================================
