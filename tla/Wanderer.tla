------------------------------ MODULE Wanderer ------------------------------
(***************************************************************************)
(* The Wanderer board: the main loop of src/Pico2_V2_RF/src/main.cpp in    *)
(* the Wanderer role, around a TacticalCore, with its radio present.       *)
(* One pass is console lines, then every received frame, then tick(); the  *)
(* link LED, which shows CommanderAlive, is left out.  The radio hardware  *)
(* runs on its own: it accepts a frame and answers it with a staged ACK    *)
(* payload between any two steps of the loop, and answers its repeats.     *)
(*                                                                         *)
(* External (nRF24L01+ and the RF24 library): a receive FIFO and a FIFO of *)
(* ACK payloads.  A new frame is accepted and acknowledged only if the     *)
(* receive FIFO has room; accepting it retires the payload that rode the   *)
(* previous acknowledgement, and the next payload rides this one.  A       *)
(* retransmission, whose acknowledgement was lost, is acknowledged again   *)
(* with whatever heads the FIFO by then.                                   *)
(***************************************************************************)
EXTENDS TacticalCore, Sequences

CONSTANTS
  Frames,        \* the frames that may arrive: records with a kind
  Lines,         \* the console lines that may be typed
  RX_DEPTH,      \* entries of the radio's receive FIFO (3)
  TX_DEPTH,      \* entries of its ACK payload FIFO (3)
  DEPTH,         \* rfQueue::DEPTH (4)
  CorruptReads,  \* whether the radio's width register may be misread
  STAMPS         \* staged payloads are told apart modulo STAMPS

VARIABLES
  pc,            \* "console", "radio", "stage" or "tick"
  rx,            \* receive FIFO
  tx,            \* ACK payload FIFO: <<frame, stamp>> pairs
  held,          \* the head of tx has ridden an acknowledgement
  answered,      \* history: "never"; or what the last frame was acknowledged
                 \* with was staged "before" it arrived, or, its repeat, "after"
  rf_queue,      \* query replies not yet staged
  pa,            \* this radio's PA level
  stamp,         \* stamp of the next staged payload
  pass_age,      \* time since tick() was last called
  quiet          \* history: time since a frame arrived or the console gave an order

hw == <<rx, tx, held, answered>>
wandererVars == <<coreVars, pc, hw, rf_queue, pa, stamp, pass_age, quiet>>

ASSUME WandererAssumption ==
  /\ RX_DEPTH \in Nat \ {0} /\ TX_DEPTH \in Nat \ {0} /\ DEPTH \in Nat \ {0}
  /\ STAMPS \in Nat \ {0}
  /\ CorruptReads \in BOOLEAN

ASSUME OrderAssumption ==
  \A f \in Frames \cup Lines : f.kind = "move" => f.order \in Orders

QueryKinds  == {"getver", "getstat", "getpa", "setpa"}
HeaderKinds == {"nop", "stop", "arm", "getver", "getstat", "getpa"}
ReplyKinds  == {"version", "stat", "pa"}

Pa_Levels == 0 .. 3
QuietCap  == LIVENESS_TIMEOUT + 3 * MaxGap + 1
Capped(n) == IF n > QuietCap THEN QuietCap ELSE n

-----------------------------------------------------------------------------
\* Downlink frames

Moving == MotorsEnabled /\ Target # Halt        \* WAND_MOVING

\* build_telemetry(); its sequence number is abstracted by the stamp.
Telemetry == [kind |-> "telemetry", state |-> state, moving |-> Moving]

\* The reply a query leaves in rf_queue.  A SETPA is answered with the level
\* in effect after it.
Reply(f, level) ==
  CASE f.kind = "getver"  -> [kind |-> "version"]
    [] f.kind = "getstat" -> [kind |-> "stat", armed |-> MotorsEnabled,
                              moving |-> Moving, target |-> Target]
    [] OTHER              -> [kind |-> "pa", level |-> level]

-----------------------------------------------------------------------------
\* The radio hardware

\* What is left in the payload FIFO once the payload of the previous
\* acknowledgement is retired.
Waiting == IF held THEN Tail(tx) ELSE tx

\* A new frame is accepted; its acknowledgement carries Head(Waiting), or
\* nothing.
HwAccept(f) ==
  /\ Len(rx) < RX_DEPTH
  /\ rx' = Append(rx, f)
  /\ tx' = Waiting
  /\ held' = (Waiting # <<>>)
  /\ answered' = "before"
  /\ quiet' = 0
  /\ UNCHANGED <<coreVars, pc, rf_queue, pa, stamp, pass_age>>

\* A retransmission of the frame accepted last is acknowledged again, with
\* the payload that now heads the FIFO; it is not received twice.  If that
\* payload has not ridden yet, it was staged since the frame arrived.
HwRepeat ==
  /\ answered # "never"
  /\ held' = (tx # <<>>)
  /\ answered' = IF held \/ tx = <<>> THEN answered ELSE "after"
  /\ UNCHANGED <<coreVars, pc, rx, tx, rf_queue, pa, stamp, pass_age, quiet>>

\* writeAckPayload(): refused when the FIFO was already full.
Accepts(fifo) == Len(fifo) < TX_DEPTH

-----------------------------------------------------------------------------
\* Staging

Stamped(p, n) == <<p, n % STAMPS>>

NextPayload(q) == IF q # <<>> THEN Head(q) ELSE Telemetry
PoppedNever(q) == q                              \* mutant: reply left queued
Popped(q)      == IF q # <<>> THEN Tail(q) ELSE q

\* restage_ack(): flush_tx(), then stage_next_ack_payload().
RestageAck(q, n) ==
  /\ tx' = <<Stamped(NextPayload(q), n)>>
  /\ held' = FALSE
  /\ rf_queue' = Popped(q)
  /\ stamp' = (n + 1) % STAMPS

\* stage_next_ack_payload() and what process_wanderer_radio() does when it
\* fails.  The reply at the head of rf_queue is dropped from the queue
\* whether or not the radio takes it.
StageAck ==
  \/ /\ Accepts(tx)
     /\ tx' = Append(tx, Stamped(NextPayload(rf_queue), stamp))
     /\ rf_queue' = Popped(rf_queue)
     /\ stamp' = (stamp + 1) % STAMPS
     /\ UNCHANGED held
  \/ /\ ~Accepts(tx)
     /\ RestageAck(Popped(rf_queue), stamp + 1)

-----------------------------------------------------------------------------
\* process_wanderer_radio()

Push(reply) == rf_queue' = IF Len(rf_queue) = DEPTH THEN rf_queue
                                                    ELSE Append(rf_queue, reply)

NewPa(f) == IF f.level \in Pa_Levels THEN f.level ELSE pa

\* handle_wanderer_command(): what each frame does besides being heard.  A
\* frame of a wrong length or an unknown type does nothing more.
Handle(f) ==
  \/ /\ f.kind = "arm" /\ CmdArm
     /\ UNCHANGED <<rf_queue, pa>>
  \/ /\ f.kind = "stop" /\ CmdStop
     /\ UNCHANGED <<rf_queue, pa>>
  \/ /\ f.kind = "move" /\ CmdMove(f.order)
     /\ UNCHANGED <<rf_queue, pa>>
  \/ /\ f.kind \in {"getver", "getstat", "getpa"}
     /\ Push(Reply(f, pa))
     /\ UNCHANGED <<state, orders, fault_code, tick_age, pa>>
  \/ /\ f.kind = "setpa"
     /\ pa' = NewPa(f)
     /\ Push(Reply(f, pa'))
     /\ UNCHANGED <<state, orders, fault_code, tick_age>>
  \/ /\ f.kind \in {"nop", "bad"}
     /\ UNCHANGED <<state, orders, fault_code, tick_age, rf_queue, pa>>

\* One frame out of the FIFO: any frame is a sign of life.
ReadFrame ==
  /\ pc = "radio" /\ rx # <<>>
  /\ rx' = Tail(rx)
  /\ NoteCommanderAlive
  /\ Handle(Head(rx))
  /\ pc' = "stage"
  /\ UNCHANGED <<tx, held, answered, stamp, pass_age, quiet>>

\* The acknowledgement of the frame just handled is already gone: this
\* payload is for a later one.
Stage ==
  /\ pc = "stage"
  /\ StageAck
  /\ pc' = "radio"
  /\ UNCHANGED <<coreVars, rx, answered, pa, pass_age, quiet>>

CorruptReadKeepsPayloads ==                      \* mutant: nothing staged again
  /\ CorruptReads
  /\ pc = "radio" /\ rx # <<>>
  /\ rx' = <<>>
  /\ pc' = "tick"
  /\ UNCHANGED <<coreVars, tx, held, answered, rf_queue, stamp, pa, pass_age, quiet>>

\* getDynamicPayloadSize() read a corrupt width and flushed the receive FIFO.
CorruptRead ==
  /\ CorruptReads
  /\ pc = "radio" /\ rx # <<>>
  /\ rx' = <<>>
  /\ RestageAck(rf_queue, stamp)
  /\ pc' = "tick"
  /\ UNCHANGED <<coreVars, answered, pa, pass_age, quiet>>

RadioDrainedAlive ==                             \* mutant: every pass is a sign of life
  /\ pc = "radio" /\ rx = <<>>
  /\ pc' = "tick"
  /\ NoteCommanderAlive
  /\ UNCHANGED <<state, orders, fault_code, tick_age, hw, rf_queue, pa, stamp,
                 pass_age, quiet>>

RadioDrained ==
  /\ pc = "radio" /\ rx = <<>>
  /\ pc' = "tick"
  /\ UNCHANGED <<coreVars, hw, rf_queue, pa, stamp, pass_age, quiet>>

-----------------------------------------------------------------------------
\* The local console: process_wanderer_command_line()

ConsoleOrder ==
  \/ \E l \in Lines : l.kind = "arm" /\ ArmCall
  \/ \E l \in Lines : l.kind = "move" /\ MoveCall(l.order)

ConsoleLine ==
  /\ pc = "console"
  /\ \/ ConsoleOrder /\ quiet' = 0 /\ UNCHANGED pa
     \/ (\E l \in Lines : l.kind = "stop") /\ LocalStop /\ UNCHANGED <<quiet, pa>>
     \/ \E l \in Lines : /\ l.kind = "setpa" /\ pa' = l.level
                         /\ UNCHANGED <<coreVars, quiet>>
  /\ UNCHANGED <<pc, hw, rf_queue, stamp, pass_age>>

ConsoleDone ==
  /\ pc = "console"
  /\ pc' = "radio"
  /\ UNCHANGED <<coreVars, hw, rf_queue, pa, stamp, pass_age, quiet>>

-----------------------------------------------------------------------------
\* The rest of the pass

TickPass ==
  /\ pc = "tick"
  /\ TickCall
  /\ pass_age' = 0
  /\ pc' = "console"
  /\ UNCHANGED <<hw, rf_queue, pa, stamp, quiet>>

\* Time passes, at most MaxGap from one tick() to the next.
Wait(d) ==
  /\ pass_age + d <= MaxGap
  /\ pass_age' = pass_age + d
  /\ Elapse(d)
  /\ quiet' = Capped(quiet + d)
  /\ UNCHANGED <<pc, hw, rf_queue, pa, stamp>>

-----------------------------------------------------------------------------
\* Boot leaves one telemetry frame staged and the radio listening.
WInit ==
  /\ Init
  /\ pc = "console"
  /\ rx = <<>> /\ held = FALSE /\ answered = "never"
  /\ tx = <<Stamped(Telemetry, 0)>> /\ stamp = 1 % STAMPS
  /\ rf_queue = <<>>
  /\ pa = 0
  /\ pass_age = 0
  /\ quiet = QuietCap

LoopStep ==
  \/ ConsoleDone
  \/ ReadFrame
  \/ Stage
  \/ RadioDrained
  \/ TickPass

WNext ==
  \/ LoopStep
  \/ ConsoleLine
  \/ CorruptRead
  \/ \E f \in Frames : HwAccept(f)
  \/ HwRepeat
  \/ \E d \in Elapses : Wait(d)

WSpec == WInit /\ [][WNext]_wandererVars

-----------------------------------------------------------------------------
\* Properties

\* The result of rf_queue.push() is never looked at, and never has to be: the
\* queue is empty whenever a frame is about to be handled.
QueueEmptyBetweenFrames == pc # "stage" => rf_queue = <<>>

\* A Wanderer that has caught up with its receive FIFO has a payload for the
\* next poll, or has already answered the last frame with it: only a repeat of
\* that frame, after a flush or an empty acknowledgement, can take it.  So no
\* burst, full FIFO, repeat or corrupt read leaves the downlink dry ("Later
\* frames are staged after each command is read", main.cpp:1021-1022).
NextPollAnswered ==
  rx # <<>> \/ pc = "stage" \/ Waiting # <<>> \/ (tx # <<>> /\ answered = "after")

\* End to end: an armed vehicle had a frame on the air, or an order on its
\* console, within the liveness timeout and three passes of the loop.  A frame
\* counts from when it arrived, not from when it was read.
SilenceStopsDriving ==
  state = "Active" => quiet <= LIVENESS_TIMEOUT + 3 * MaxGap

\* "query replies are queued here and sent ahead of telemetry so they are
\* never overwritten" (comment, main.cpp:148-150): a reply that is staged and
\* has not ridden an acknowledgement yet is not discarded.
RepliesNotDiscarded ==
  [][\A i \in 1 .. Len(Waiting) :
       Waiting[i][1].kind \in ReplyKinds =>
         \E j \in 1 .. Len(tx') : tx'[j] = Waiting[i]]_wandererVars
=============================================================================
