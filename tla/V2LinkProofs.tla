---------------------------- MODULE V2LinkProofs ----------------------------
(***************************************************************************)
(* Theorems about the Wanderer board and about the link between the two    *)
(* boards, for every set of frames, lines and commands, every depth of the *)
(* radio's FIFOs and of rfQueue, every clock, however many frames go.      *)
(*                                                                         *)
(* First the board alone, whatever it hears: what its FIFOs hold does not  *)
(* matter there, only that they are sequences.  Then the two boards.       *)
(***************************************************************************)
EXTENDS V2Link, TacticalProofs, SequenceTheorems

IsFifo(s) == \E S : s \in Seq(S)

-----------------------------------------------------------------------------
\* Lemmas about sequences of anything

LEMMA EmptyFifo ==
  ASSUME NEW s, IsFifo(s)
  PROVE  Len(s) \in Nat /\ (Len(s) = 0 <=> s = <<>>)
  BY DEF IsFifo

LEMMA NoneIsFifo == IsFifo(<<>>) /\ Len(<<>>) = 0
<1>1. <<>> \in Seq({})
  OBVIOUS
<1> QED
  BY <1>1 DEF IsFifo

LEMMA SingleFifo ==
  ASSUME NEW e
  PROVE  IsFifo(<<e>>) /\ Len(<<e>>) = 1 /\ <<e>> # <<>>
<1>1. <<e>> \in Seq({e})
  OBVIOUS
<1> QED
  BY <1>1 DEF IsFifo

LEMMA AppendFifo ==
  ASSUME NEW s, IsFifo(s), NEW e
  PROVE  IsFifo(Append(s, e)) /\ Len(Append(s, e)) = Len(s) + 1
<1>1. PICK S : s \in Seq(S)
  BY DEF IsFifo
<1>2. s \in Seq(S \cup {e})
  BY <1>1
<1>3. Append(s, e) \in Seq(S \cup {e}) /\ Len(Append(s, e)) = Len(s) + 1
  BY <1>2
<1> QED
  BY <1>3 DEF IsFifo

LEMMA TailFifo ==
  ASSUME NEW s, IsFifo(s), s # <<>>
  PROVE  IsFifo(Tail(s)) /\ Len(Tail(s)) = Len(s) - 1
<1>1. PICK S : s \in Seq(S)
  BY DEF IsFifo
<1>2. Tail(s) \in Seq(S) /\ Len(Tail(s)) = Len(s) - 1
  BY <1>1
<1> QED
  BY <1>2 DEF IsFifo

-----------------------------------------------------------------------------
\* The queues: their inductive invariant

FifosSound ==
  /\ IsFifo(rx) /\ IsFifo(tx) /\ IsFifo(rf_queue)
  /\ held => tx # <<>>

\* The one reply that a frame may have left is gone when the next is read.
OneReplyAtMost ==
  /\ QueueEmptyBetweenFrames
  /\ pc = "stage" => Len(rf_queue) <= 1

QueueInv == FifosSound /\ OneReplyAtMost /\ NextPollAnswered

\* With at most one reply queued, staging leaves none.
LEMMA PoppedEmpty ==
  ASSUME NEW q, IsFifo(q), Len(q) <= 1
  PROVE  Popped(q) = <<>> /\ Popped(Popped(q)) = <<>>
<1>1. CASE q = <<>>
  BY <1>1 DEF Popped
<1>2. CASE q # <<>>
  <2>1. IsFifo(Tail(q)) /\ Len(Tail(q)) = Len(q) - 1 /\ Len(q) \in Nat
    BY <1>2, TailFifo, EmptyFifo
  <2>2. Len(Tail(q)) \in Nat /\ (Len(Tail(q)) = 0 <=> Tail(q) = <<>>)
    BY <2>1, EmptyFifo
  <2>3. Tail(q) = <<>>
    BY <2>1, <2>2
  <2> QED
    BY <1>2, <2>3 DEF Popped
<1> QED
  BY <1>1, <1>2

\* A frame finds the queue empty and leaves at most its own reply there.
LEMMA HandleQueue ==
  ASSUME NEW f, Handle(f), rf_queue = <<>>
  PROVE  IsFifo(rf_queue') /\ Len(rf_queue') <= 1
<1>1. CASE UNCHANGED rf_queue
  BY <1>1, NoneIsFifo
<1>2. ASSUME NEW reply, Push(reply)
      PROVE  IsFifo(rf_queue') /\ Len(rf_queue') <= 1
  <2>1. rf_queue' = Append(<<>>, reply)
    BY <1>2, NoneIsFifo, WandererAssumption DEF Push
  <2>2. Append(<<>>, reply) = <<reply>>
    OBVIOUS
  <2> QED
    BY <2>1, <2>2, SingleFifo
<1> QED
  BY <1>1, <1>2 DEF Handle

\* restage_ack() leaves one payload that has not ridden yet.
LEMMA Restaged ==
  ASSUME NEW q, NEW n, RestageAck(q, n)
  PROVE  IsFifo(tx') /\ ~held' /\ Waiting' # <<>>
<1>1. IsFifo(tx') /\ tx' # <<>>
  BY SingleFifo DEF RestageAck
<1> QED
  BY <1>1 DEF RestageAck, Waiting

\* A payload that is appended waits, whether or not the head has ridden.
LEMMA Appended ==
  ASSUME FifosSound, NEW p, tx' = Append(tx, p), UNCHANGED held
  PROVE  IsFifo(tx') /\ tx' # <<>> /\ Waiting' # <<>>
<1>1. IsFifo(tx') /\ Len(tx') = Len(tx) + 1 /\ Len(tx) \in Nat
  BY AppendFifo, EmptyFifo DEF FifosSound
<1>2. tx' # <<>>
  BY <1>1, EmptyFifo
<1>3. CASE ~held
  BY <1>1, <1>2, <1>3 DEF Waiting
<1>4. CASE held
  <2>1. Len(tx) > 0
    BY <1>1, <1>4, EmptyFifo DEF FifosSound
  <2>2. IsFifo(Tail(tx')) /\ Len(Tail(tx')) = Len(tx') - 1
    BY <1>1, <1>2, TailFifo
  <2>3. Tail(tx') # <<>>
    BY <1>1, <2>1, <2>2, EmptyFifo
  <2> QED
    BY <1>1, <1>2, <1>4, <2>3 DEF Waiting
<1> QED
  BY <1>3, <1>4

LEMMA QueuesInit == WInit => QueueInv
<1> SUFFICES ASSUME WInit PROVE QueueInv
  OBVIOUS
<1>1. IsFifo(tx) /\ tx # <<>>
  BY SingleFifo DEF WInit
<1> QED
  BY <1>1, NoneIsFifo DEF WInit, QueueInv, FifosSound, OneReplyAtMost,
     QueueEmptyBetweenFrames, NextPollAnswered, Waiting

\* Steps that touch none of the queues keep the invariant, if the board is not
\* about to stage or has just come from the receiver with nothing left there.
LEMMA QueuesUntouched ==
  ASSUME QueueInv, UNCHANGED <<rx, tx, held, answered, rf_queue>>,
         pc' = pc \/ (pc # "stage" /\ pc' # "stage")
  PROVE  QueueInv'
  BY DEF QueueInv, FifosSound, OneReplyAtMost, QueueEmptyBetweenFrames,
     NextPollAnswered, Waiting

LEMMA QueuesStep ==
  ASSUME QueueInv, [WNext]_wandererVars
  PROVE  QueueInv'
<1> USE DEF QueueInv
<1>1. CASE ConsoleDone
  BY <1>1, QueuesUntouched DEF ConsoleDone, hw
<1>2. CASE ReadFrame
  <2>1. IsFifo(rx') /\ UNCHANGED <<tx, held>> /\ pc' = "stage"
    BY <1>2, TailFifo DEF ReadFrame, FifosSound
  <2>2. rf_queue = <<>>
    BY <1>2 DEF ReadFrame, OneReplyAtMost, QueueEmptyBetweenFrames
  <2>3. IsFifo(rf_queue') /\ Len(rf_queue') <= 1
    BY <1>2, <2>2, HandleQueue DEF ReadFrame
  <2> QED
    BY <2>1, <2>3 DEF FifosSound, OneReplyAtMost, QueueEmptyBetweenFrames, NextPollAnswered
<1>3. CASE Stage
  <2>1. pc' = "radio" /\ UNCHANGED rx /\ StageAck /\ Len(rf_queue) <= 1
    BY <1>3 DEF Stage, OneReplyAtMost
  <2>2. Popped(rf_queue) = <<>> /\ Popped(Popped(rf_queue)) = <<>>
    BY <2>1, PoppedEmpty DEF FifosSound
  <2>3. CASE ~Accepts(tx) /\ RestageAck(Popped(rf_queue), stamp + 1)
    <3>1. rf_queue' = <<>>
      BY <2>2, <2>3 DEF RestageAck
    <3> QED
      BY <2>1, <2>3, <3>1, Restaged, NoneIsFifo
      DEF FifosSound, OneReplyAtMost, QueueEmptyBetweenFrames, NextPollAnswered
  <2>4. CASE /\ tx' = Append(tx, Stamped(NextPayload(rf_queue), stamp))
             /\ rf_queue' = Popped(rf_queue) /\ UNCHANGED held
    BY <2>1, <2>2, <2>4, Appended, NoneIsFifo
    DEF FifosSound, OneReplyAtMost, QueueEmptyBetweenFrames, NextPollAnswered
  <2> QED
    BY <2>1, <2>3, <2>4 DEF StageAck
<1>4. CASE RadioDrained
  BY <1>4, QueuesUntouched DEF RadioDrained, hw
<1>5. CASE TickPass
  BY <1>5, QueuesUntouched DEF TickPass, hw
<1>6. CASE ConsoleLine
  BY <1>6, QueuesUntouched DEF ConsoleLine, hw
<1>7. CASE CorruptRead
  <2>1. rf_queue = <<>> /\ rx' = <<>> /\ pc' = "tick" /\ RestageAck(rf_queue, stamp)
    BY <1>7 DEF CorruptRead, OneReplyAtMost, QueueEmptyBetweenFrames
  <2>2. rf_queue' = <<>>
    BY <2>1 DEF RestageAck, Popped
  <2> QED
    BY <2>1, <2>2, Restaged, NoneIsFifo
    DEF FifosSound, OneReplyAtMost, QueueEmptyBetweenFrames, NextPollAnswered
<1>8. ASSUME NEW f \in Frames, HwAccept(f)
      PROVE  QueueInv'
  <2>1. IsFifo(rx') /\ rx' # <<>>
    BY <1>8, AppendFifo, EmptyFifo DEF HwAccept, FifosSound
  <2>2. IsFifo(Waiting)
    BY TailFifo DEF Waiting, FifosSound
  <2> QED
    BY <1>8, <2>1, <2>2
    DEF HwAccept, FifosSound, OneReplyAtMost, QueueEmptyBetweenFrames, NextPollAnswered
<1>9. CASE HwRepeat
  <2>1. FifosSound' /\ OneReplyAtMost'
    BY <1>9 DEF HwRepeat, FifosSound, OneReplyAtMost, QueueEmptyBetweenFrames
  <2> SUFFICES NextPollAnswered'
    BY <2>1
  <2>2. CASE rx # <<>> \/ pc = "stage"
    BY <1>9, <2>2 DEF HwRepeat, NextPollAnswered
  \* The payload that waited rides the repeat.
  <2>3. CASE Waiting # <<>> /\ ~held
    BY <1>9, <2>3 DEF HwRepeat, NextPollAnswered, Waiting
  <2>4. CASE Waiting # <<>> /\ held
    BY <1>9, <2>4 DEF HwRepeat, NextPollAnswered, Waiting, FifosSound
  <2>5. CASE tx # <<>> /\ answered = "after"
    BY <1>9, <2>5 DEF HwRepeat, NextPollAnswered
  <2> QED
    BY <2>2, <2>3, <2>4, <2>5 DEF NextPollAnswered
<1>10. ASSUME NEW d \in Elapses, Wait(d)
       PROVE  QueueInv'
  BY <1>10, QueuesUntouched DEF Wait, hw
<1>11. CASE UNCHANGED wandererVars
  BY <1>11, QueuesUntouched DEF wandererVars, hw
<1> QED
  BY <1>1, <1>2, <1>3, <1>4, <1>5, <1>6, <1>7, <1>8, <1>9, <1>10, <1>11 DEF WNext, LoopStep

-----------------------------------------------------------------------------
\* What follows for replies and polls

THEOREM QueuesSafe == WSpec => []QueueInv
<1>1. QueueInv /\ [WNext]_wandererVars => QueueInv'
  BY QueuesStep
<1> QED
  BY QueuesInit, <1>1, PTL DEF WSpec

\* rf_queue.push() is never refused, however many queries arrive in a burst
\* and however full the payload FIFO is (main.cpp:163-172, 371-417).
THEOREM RepliesAreQueued == WSpec => []QueueEmptyBetweenFrames
<1>1. QueueInv => QueueEmptyBetweenFrames
  BY DEF QueueInv, OneReplyAtMost
<1> QED
  BY QueuesSafe, <1>1, PTL

\* The next poll finds a payload, or a repeat of the last frame has taken it,
\* for every depth of the FIFOs, through bursts, flushes, retransmissions and
\* corrupt reads (main.cpp:225, 288-305, 441-464).
THEOREM PollsAreAnswered == WSpec => []NextPollAnswered
<1>1. QueueInv => NextPollAnswered
  BY DEF QueueInv
<1> QED
  BY QueuesSafe, <1>1, PTL

-----------------------------------------------------------------------------
\* The board drives its vehicle by calls of the state machine only

Received == rx \in Seq(Frames)

\* What a frame does to the vehicle is one of the calls of TacticalCore.
LEMMA FrameIsCall ==
  ASSUME NEW f \in Frames, NoteCommanderAlive, Handle(f)
  PROVE  Next
<1>1. CASE f.kind = "arm" /\ CmdArm
  BY <1>1 DEF ArmCall, Next
<1>2. CASE f.kind = "stop" /\ CmdStop
  BY <1>2 DEF StopFrame, Next
<1>3. CASE f.kind = "move" /\ CmdMove(f.order)
  <2>1. f.order \in Orders
    BY <1>3, OrderAssumption
  <2>2. MoveCall(f.order)
    BY <1>3 DEF MoveCall
  <2> QED
    BY <2>1, <2>2 DEF Next
<1>4. CASE UNCHANGED <<state, orders, fault_code, tick_age>>
  BY <1>4 DEF FrameHeard, Next
<1> QED
  BY <1>1, <1>2, <1>3, <1>4 DEF Handle

\* So is what a console order does.
LEMMA OrderIsCall ==
  ASSUME ConsoleOrder
  PROVE  Next
<1>1. CASE ArmCall
  BY <1>1 DEF Next
<1>2. ASSUME NEW l \in Lines, l.kind = "move", MoveCall(l.order)
      PROVE  Next
  <2>1. l.order \in Orders
    BY <1>2, OrderAssumption
  <2> QED
    BY <1>2, <2>1 DEF Next
<1> QED
  BY <1>1, <1>2 DEF ConsoleOrder

LEMMA BoardStepIsCall ==
  ASSUME Received, [WNext]_wandererVars
  PROVE  Received' /\ [Next]_coreVars
<1>1. CASE ReadFrame
  <2>1. Head(rx) \in Frames /\ Tail(rx) \in Seq(Frames)
    BY <1>1 DEF ReadFrame, Received
  <2> QED
    BY <1>1, <2>1, FrameIsCall DEF ReadFrame, Received
<1>2. CASE TickPass
  BY <1>2 DEF TickPass, hw, Received, Next
<1>3. CASE ConsoleDone \/ Stage \/ RadioDrained
  BY <1>3 DEF ConsoleDone, Stage, RadioDrained, hw, Received
<1>4. CASE ConsoleLine
  <2>1. ConsoleOrder \/ LocalStop \/ UNCHANGED coreVars
    BY <1>4 DEF ConsoleLine
  <2> QED
    BY <1>4, <2>1, OrderIsCall DEF ConsoleLine, hw, Received, Next
<1>5. CASE CorruptRead
  BY <1>5 DEF CorruptRead, Received
<1>6. ASSUME NEW f \in Frames, HwAccept(f)
      PROVE  Received' /\ [Next]_coreVars
  BY <1>6 DEF HwAccept, Received
<1>7. ASSUME NEW d \in Elapses, Wait(d)
      PROVE  Received' /\ [Next]_coreVars
  BY <1>7 DEF Wait, hw, Received, Next
<1>8. CASE HwRepeat
  BY <1>8 DEF HwRepeat, Received
<1>9. CASE UNCHANGED wandererVars
  BY <1>9 DEF wandererVars, hw, Received
<1> QED
  BY <1>1, <1>2, <1>3, <1>4, <1>5, <1>6, <1>7, <1>8, <1>9 DEF WNext, LoopStep

\* The board refines the state machine that the core module is about, so all
\* that is proved there holds on the board, DriveContract included.
THEOREM BoardImplementsCore == WSpec => Spec
<1>1. WInit => Init /\ Received
  BY DEF WInit, Received
<1>2. Received /\ [WNext]_wandererVars => Received' /\ [Next]_coreVars
  BY BoardStepIsCall
<1> QED
  BY <1>1, <1>2, PTL DEF WSpec, Spec

\* The wheel targets of the board behave as DriveContract promises.
THEOREM BoardKeepsContract == WSpec => ImplementsContract
  BY BoardImplementsCore, CoreImplementsContract

-----------------------------------------------------------------------------
\* Liveness end to end

\* A frame that waits to be read arrived in this pass or in the one before.
UnreadIsRecent ==
  rx # <<>> => quiet <= pass_age + (IF pc = "tick" THEN 0 ELSE MaxGap)

\* What an armed vehicle heard last was read at most two passes after it
\* arrived.
ReadInTime == state = "Active" => quiet <= silence + 2 * MaxGap

ClockSound == pass_age \in 0 .. MaxGap /\ quiet \in Nat

HearingInv == CoreInv /\ Received /\ ClockSound /\ UnreadIsRecent /\ ReadInTime

LEMMA TwoPasses ==
  ASSUME NEW age \in Nat
  PROVE  age + 2 * MaxGap \in Nat
<1>1. 2 * MaxGap \in Nat
  BY CoreAssumption
<1> QED
  BY <1>1

LEMMA CapSound ==
  ASSUME NEW n \in Nat
  PROVE  Capped(n) \in Nat /\ Capped(n) <= n
  BY CoreAssumption DEF Capped, QuietCap

LEMMA HearingInit == WInit => HearingInv
<1> SUFFICES ASSUME WInit PROVE HearingInv
  OBVIOUS
<1>1. CoreInv
  BY InitSafe DEF WInit
<1>2. QuietCap \in Nat /\ 0 \in 0 .. MaxGap
  BY CoreAssumption DEF QuietCap
<1> QED
  BY <1>1, <1>2 DEF WInit, Init, HearingInv, Received, ClockSound, UnreadIsRecent, ReadInTime

LEMMA HearingStep ==
  ASSUME HearingInv, [WNext]_wandererVars
  PROVE  HearingInv'
<1>a. CoreInv' /\ Received'
  BY BoardStepIsCall, StepSafe DEF HearingInv
<1>b. /\ MaxGap \in Nat /\ pass_age \in Nat /\ pass_age <= MaxGap /\ quiet \in Nat
      /\ silence \in Nat /\ silence' \in Nat
  BY <1>a, CoreAssumption DEF HearingInv, ClockSound, CoreInv, TypeOK, SilenceCap
<1> SUFFICES ClockSound' /\ UnreadIsRecent' /\ ReadInTime'
  BY <1>a DEF HearingInv
<1>1. CASE ConsoleDone \/ Stage \/ RadioDrained
  BY <1>1, <1>b DEF ConsoleDone, Stage, RadioDrained, coreVars, hw,
     HearingInv, ClockSound, UnreadIsRecent, ReadInTime
<1>2. CASE ReadFrame
  <2>1. /\ silence' = 0 /\ pc' = "stage" /\ UNCHANGED <<pass_age, quiet>>
        /\ quiet <= pass_age + MaxGap
    BY <1>2 DEF ReadFrame, NoteCommanderAlive, HearingInv, UnreadIsRecent
  <2> QED
    BY <1>b, <2>1 DEF HearingInv, ClockSound, UnreadIsRecent, ReadInTime
<1>3. CASE TickPass
  <2>1. /\ pc = "tick" /\ pc' = "console" /\ pass_age' = 0
        /\ UNCHANGED <<rx, quiet, silence>>
    BY <1>3 DEF TickPass, TickCall, hw
  <2>2. state' = "Active" => state = "Active"
    BY <1>3 DEF TickPass, TickCall, Tick, Enter, Gated
  <2> QED
    BY <1>b, <2>1, <2>2 DEF HearingInv, ClockSound, UnreadIsRecent, ReadInTime
<1>4. CASE ConsoleLine
  <2>1. UNCHANGED <<rx, pc, pass_age>>
    BY <1>4 DEF ConsoleLine, hw
  <2>2. CASE quiet' = 0
    <3>1. silence' + 2 * MaxGap \in Nat
      BY <1>b, TwoPasses
    <3>2. ReadInTime'
      BY <2>2, <3>1 DEF ReadInTime
    <3>3. ClockSound'
      BY <1>b, <2>1, <2>2 DEF ClockSound
    <3>4. UnreadIsRecent'
      BY <1>b, <2>1, <2>2 DEF UnreadIsRecent
    <3> QED
      BY <3>2, <3>3, <3>4
  <2>3. CASE UNCHANGED <<coreVars, quiet>>
    BY <1>b, <2>1, <2>3 DEF coreVars, HearingInv, ClockSound, UnreadIsRecent, ReadInTime
  <2>4. CASE LocalStop /\ UNCHANGED quiet
    <3>1. state' # "Active"
      BY <2>4 DEF LocalStop, CmdStop, Enter
    <3> QED
      BY <1>b, <2>1, <2>4, <3>1 DEF HearingInv, ClockSound, UnreadIsRecent, ReadInTime
  <2> QED
    BY <1>4, <2>2, <2>3, <2>4 DEF ConsoleLine
<1>5. CASE CorruptRead
  BY <1>5, <1>b DEF CorruptRead, coreVars, HearingInv, ClockSound, UnreadIsRecent, ReadInTime
<1>6. ASSUME NEW f \in Frames, HwAccept(f)
      PROVE  ClockSound' /\ UnreadIsRecent' /\ ReadInTime'
  BY <1>6, <1>b DEF HwAccept, coreVars, HearingInv, ClockSound, UnreadIsRecent, ReadInTime
<1>7. ASSUME NEW d \in Elapses, Wait(d)
      PROVE  ClockSound' /\ UnreadIsRecent' /\ ReadInTime'
  <2>1. d \in Nat
    BY CoreAssumption
  <2>2. /\ pass_age' = pass_age + d /\ pass_age' <= MaxGap
        /\ UNCHANGED <<rx, pc, state>> /\ silence' = Saturated(silence + d)
    BY <1>7 DEF Wait, Elapse, hw
  <2>3. quiet' \in Nat /\ quiet' <= quiet + d
    BY <1>7, <1>b, <2>1, CapSound DEF Wait
  <2>4. state = "Active" => silence' = silence + d
    <3>1. state = "Active" => silence' < SilenceCap
      BY <1>a, <2>2, CoreAssumption DEF CoreInv, TypeOK, ActiveMeansHeard, SilenceCap
    <3>2. SilenceCap \in Nat /\ silence + d \in Nat
      BY <1>b, <2>1, CoreAssumption DEF SilenceCap
    <3> QED
      BY <2>2, <3>1, <3>2 DEF Saturated
  <2> QED
    BY <1>b, <2>1, <2>2, <2>3, <2>4 DEF HearingInv, ClockSound, UnreadIsRecent, ReadInTime
<1>8. CASE HwRepeat
  BY <1>8, <1>b DEF HwRepeat, coreVars, HearingInv, ClockSound, UnreadIsRecent, ReadInTime
<1>9. CASE UNCHANGED wandererVars
  BY <1>9, <1>b DEF wandererVars, coreVars, hw, HearingInv, ClockSound, UnreadIsRecent, ReadInTime
<1> QED
  BY <1>1, <1>2, <1>3, <1>4, <1>5, <1>6, <1>7, <1>8, <1>9 DEF WNext, LoopStep

\* An armed vehicle had a frame on the air or an order on its console within the
\* liveness timeout and three passes of the loop, for every timeout and every
\* length of a pass (main.cpp:436-465, 1046-1065, tactical.h:67-76).
THEOREM SilenceEndsDriving == WSpec => []SilenceStopsDriving
<1>1. HearingInv /\ [WNext]_wandererVars => HearingInv'
  BY HearingStep
<1>2. HearingInv => SilenceStopsDriving
  BY CoreAssumption
  DEF HearingInv, CoreInv, TypeOK, SilenceCap, ActiveMeansHeard, ClockSound, ReadInTime,
      SilenceStopsDriving
<1> QED
  BY HearingInit, <1>1, <1>2, PTL DEF WSpec

-----------------------------------------------------------------------------
\* The two boards

LEMMA DrainedStep ==
  ASSUME DrainedBeforeNextFrame, [LNext]_linkVars
  PROVE  DrainedBeforeNextFrame'
<1>1. CASE WandererStep
  BY <1>1 DEF WandererStep, baseVars, DrainedBeforeNextFrame
<1>2. CASE BaseStep
  <2>1. CASE BaseConsoleDone \/ NoPollDue \/ NoRfReport
    BY <2>1 DEF BaseConsoleDone, NoPollDue, NoRfReport, DrainedBeforeNextFrame
  <2>2. CASE Poll \/ RfReport
    BY <2>2 DEF Poll, RfReport, Send, DrainedBeforeNextFrame
  <2>3. CASE UpdateLink
    BY <2>3 DEF UpdateLink, DrainedBeforeNextFrame
  <2>4. CASE Dispatch
    BY <2>4 DEF Dispatch, DrainedBeforeNextFrame
  <2>5. CASE Drained
    BY <2>5 DEF Drained, DrainedBeforeNextFrame
  <2> QED
    BY <1>2, <2>1, <2>2, <2>3, <2>4, <2>5 DEF BaseStep
<1>3. ASSUME NEW f \in Commands, BaseCommand(f)
      PROVE  DrainedBeforeNextFrame'
  BY <1>3 DEF BaseCommand, Send, DrainedBeforeNextFrame
<1>4. CASE CorruptDrain
  BY <1>4 DEF CorruptDrain, DrainedBeforeNextFrame
<1>5. ASSUME NEW heard \in BOOLEAN, Deliver(heard) \/ DeliverRepeat(heard)
      PROVE  DrainedBeforeNextFrame'
  <2>1. CASE heard
    BY <1>5, <2>1 DEF Deliver, DeliverRepeat, Hear, DrainedBeforeNextFrame
  <2>2. CASE ~heard
    BY <1>5, <2>2 DEF Deliver, DeliverRepeat, DrainedBeforeNextFrame
  <2> QED
    BY <2>1, <2>2
<1>6. CASE GiveUp
  BY <1>6 DEF GiveUp, DrainedBeforeNextFrame
<1>7. CASE UNCHANGED linkVars
  BY <1>7 DEF linkVars, baseVars, DrainedBeforeNextFrame
<1> QED
  BY <1>1, <1>2, <1>3, <1>4, <1>5, <1>6, <1>7 DEF LNext

\* A reply is never taken for the answer to a later frame: every way from an
\* acknowledgement to the next frame goes through an empty FIFO
\* (transmit_frame(), main.cpp:640-647).
THEOREM RepliesAreDrained == LSpec => []DrainedBeforeNextFrame
<1>1. LInit => DrainedBeforeNextFrame
  BY DEF LInit, DrainedBeforeNextFrame
<1>2. DrainedBeforeNextFrame /\ [LNext]_linkVars => DrainedBeforeNextFrame'
  BY DrainedStep
<1> QED
  BY <1>1, <1>2, PTL DEF LSpec

-----------------------------------------------------------------------------
\* The link drives the board as the board's own specification says: a frame the
\* base sends arrives once, and its retransmissions are repeats.

BaseFrames == Commands \cup {Nop, GetPa}

OnAirIsSent == phase = "on_air" => flight \in BaseFrames

LEMMA LinkBoardStep ==
  ASSUME BaseFrames \subseteq Frames, OnAirIsSent, [LNext]_linkVars
  PROVE  OnAirIsSent' /\ [WNext]_wandererVars
<1>1. CASE WandererStep
  BY <1>1 DEF WandererStep, baseVars, OnAirIsSent, WNext
<1>2. CASE BaseStep
  <2>1. UNCHANGED wandererVars
    BY <1>2 DEF BaseStep
  <2>2. CASE Poll \/ RfReport
    BY <2>1, <2>2 DEF Poll, RfReport, Send, OnAirIsSent, BaseFrames
  <2>3. CASE BaseConsoleDone \/ NoPollDue \/ NoRfReport \/ UpdateLink \/ Dispatch \/ Drained
    BY <2>1, <2>3 DEF BaseConsoleDone, NoPollDue, NoRfReport, UpdateLink, Dispatch, Drained,
       OnAirIsSent
  <2> QED
    BY <1>2, <2>2, <2>3 DEF BaseStep
<1>3. ASSUME NEW f \in Commands, BaseCommand(f), UNCHANGED wandererVars
      PROVE  OnAirIsSent' /\ [WNext]_wandererVars
  BY <1>3 DEF BaseCommand, Send, OnAirIsSent, BaseFrames
<1>4. CASE CorruptDrain /\ UNCHANGED <<wandererVars, got>>
  BY <1>4 DEF CorruptDrain, OnAirIsSent
<1>5. ASSUME NEW heard \in BOOLEAN, Deliver(heard)
      PROVE  OnAirIsSent' /\ [WNext]_wandererVars
  <2>1. flight \in Frames /\ HwAccept(flight) /\ UNCHANGED flight
    BY <1>5 DEF Deliver, OnAirIsSent
  <2>2. OnAirIsSent'
    BY <1>5, <2>1 DEF Deliver, OnAirIsSent
  <2> QED
    BY <2>1, <2>2 DEF WNext
<1>6. ASSUME NEW heard \in BOOLEAN, DeliverRepeat(heard)
      PROVE  OnAirIsSent' /\ [WNext]_wandererVars
  BY <1>6 DEF DeliverRepeat, OnAirIsSent, WNext
<1>7. CASE GiveUp
  BY <1>7 DEF GiveUp, OnAirIsSent
<1>8. CASE UNCHANGED linkVars
  BY <1>8 DEF linkVars, baseVars, OnAirIsSent
<1> QED
  BY <1>1, <1>2, <1>3, <1>4, <1>5, <1>6, <1>7, <1>8 DEF LNext

\* Whatever the base sends and the air loses or repeats, the Wanderer's board
\* behaves as WSpec says, so all that is proved of the board holds on the link
\* (main.cpp:225, 436-466, 640-647).
THEOREM LinkImplementsBoard ==
  ASSUME BaseFrames \subseteq Frames
  PROVE  LSpec => WSpec
<1>1. LInit => WInit /\ OnAirIsSent
  BY DEF LInit, OnAirIsSent
<1>2. OnAirIsSent /\ [LNext]_linkVars => OnAirIsSent' /\ [WNext]_wandererVars
  BY LinkBoardStep
<1> QED
  BY <1>1, <1>2, PTL DEF LSpec, WSpec

-----------------------------------------------------------------------------
\* The downlink is a stream: every step of the link is one of DownlinkStream

IsLossyCopy(t, s) == Downlink!IsLossyCopy(t, s)

\* Consecutive elements of s are a lossy copy of it.
LEMMA WindowIsCopy ==
  ASSUME NEW s, IsFifo(s), NEW t, IsFifo(t), NEW k \in Nat, Len(t) + k <= Len(s),
         \A i \in 1 .. Len(t) : t[i] = s[i + k]
  PROVE  IsLossyCopy(t, s)
<1> DEFINE place == [i \in DOMAIN t |-> i + k]
<1>1. DOMAIN t = 1 .. Len(t) /\ DOMAIN s = 1 .. Len(s) /\ Len(t) \in Nat /\ Len(s) \in Nat
  BY DEF IsFifo
<1>2. \A i \in DOMAIN t : i + k \in DOMAIN s /\ place[i] = i + k
  BY <1>1
<1>3. place \in [DOMAIN t -> DOMAIN s]
  BY <1>2
<1>4. \A i \in DOMAIN t : t[i] = s[place[i]]
  BY <1>1, <1>2
<1>5. \A i, j \in DOMAIN t : i < j => place[i] < place[j]
  BY <1>1, <1>2
<1> HIDE DEF place
<1> QED
  BY <1>3, <1>4, <1>5 DEF IsLossyCopy, Downlink!IsLossyCopy

\* What a concatenation, a tail and an append hold.
LEMMA ConcatFifo ==
  ASSUME NEW a, IsFifo(a), NEW b, IsFifo(b)
  PROVE  /\ IsFifo(a \o b) /\ Len(a \o b) = Len(a) + Len(b)
         /\ \A i \in 1 .. Len(a) : (a \o b)[i] = a[i]
         /\ \A i \in 1 .. Len(b) : (a \o b)[i + Len(a)] = b[i]
<1>1. PICK S, T : a \in Seq(S) /\ b \in Seq(T)
  BY DEF IsFifo
<1>2. a \in Seq(S \cup T) /\ b \in Seq(S \cup T)
  BY <1>1
<1>3. /\ a \o b \in Seq(S \cup T) /\ Len(a \o b) = Len(a) + Len(b)
      /\ \A i \in 1 .. Len(a) + Len(b) :
           (a \o b)[i] = IF i <= Len(a) THEN a[i] ELSE b[i - Len(a)]
  BY <1>2, ConcatProperties
<1>4. Len(a) \in Nat /\ Len(b) \in Nat
  BY <1>2
<1>5. \A i \in 1 .. Len(b) : i + Len(a) \in 1 .. Len(a) + Len(b) /\ ~(i + Len(a) <= Len(a))
                              /\ (i + Len(a)) - Len(a) = i
  BY <1>4
<1>6. \A i \in 1 .. Len(a) : i \in 1 .. Len(a) + Len(b) /\ i <= Len(a)
  BY <1>4
<1> QED
  BY <1>3, <1>5, <1>6 DEF IsFifo

LEMMA TailHolds ==
  ASSUME NEW s, IsFifo(s), s # <<>>
  PROVE  \A i \in 1 .. Len(Tail(s)) : Tail(s)[i] = s[i + 1]
  BY HeadTailProperties DEF IsFifo

LEMMA AppendHolds ==
  ASSUME NEW s, IsFifo(s), NEW e
  PROVE  \A i \in 1 .. Len(s) : Append(s, e)[i] = s[i]
<1>1. PICK S : s \in Seq(S)
  BY DEF IsFifo
<1>2. s \in Seq(S \cup {e})
  BY <1>1
<1> QED
  BY <1>2

LEMMA SameFifo ==
  ASSUME NEW s, IsFifo(s), NEW t, IsFifo(t), Len(s) = Len(t),
         \A i \in 1 .. Len(s) : s[i] = t[i]
  PROVE  s = t
<1>1. PICK S, T : s \in Seq(S) /\ t \in Seq(T)
  BY DEF IsFifo
<1>2. s \in Seq(S \cup T) /\ t \in Seq(S \cup T)
  BY <1>1
<1> QED
  BY <1>2, SeqEqual

LEMMA NoneConcat ==
  ASSUME NEW s, IsFifo(s)
  PROVE  <<>> \o s = s
  BY ConcatEmptySeq DEF IsFifo

LEMMA HeadConcat ==
  ASSUME NEW s, IsFifo(s), s # <<>>
  PROVE  <<Head(s)>> \o Tail(s) = s
<1> DEFINE t == <<Head(s)>> \o Tail(s)
<1>1. /\ IsFifo(Tail(s)) /\ Len(Tail(s)) = Len(s) - 1 /\ Len(s) \in Nat \ {0}
      /\ IsFifo(<<Head(s)>>) /\ Len(<<Head(s)>>) = 1
  BY TailFifo, SingleFifo, EmptyFifo
<1>2. /\ IsFifo(t) /\ Len(t) = 1 + (Len(s) - 1)
      /\ \A i \in 1 .. 1 : t[i] = <<Head(s)>>[i]
      /\ \A i \in 1 .. Len(s) - 1 : t[i + 1] = Tail(s)[i]
  BY <1>1, ConcatFifo
<1>3. t[1] = s[1]
  BY <1>2 DEF IsFifo
<1>4. \A i \in 1 .. Len(s) - 1 : t[i + 1] = s[i + 1]
  BY <1>1, <1>2, TailHolds
<1> HIDE DEF t
<1>5. ASSUME NEW i \in 1 .. Len(s)
      PROVE  t[i] = s[i]
  <2>1. CASE i = 1
    BY <1>3, <2>1
  <2>2. CASE i # 1
    <3>1. i - 1 \in 1 .. Len(s) - 1 /\ (i - 1) + 1 = i
      BY <1>1, <2>2
    <3> QED
      BY <1>4, <3>1
  <2> QED
    BY <2>1, <2>2
<1>6. t = s
  BY <1>1, <1>2, <1>5, SameFifo
<1> QED
  BY <1>6 DEF t

\* The base's FIFO is empty while a frame is on the air, and a payload that has
\* reached the base has ended the write.
PipeInv ==
  /\ IsFifo(tx) /\ IsFifo(base_rx)
  /\ held => tx # <<>>
  /\ DrainedBeforeNextFrame
  /\ phase = "on_air" /\ accepted => ~got

\* The frames staged and not yet taken.
Rest == IF held /\ got THEN Tail(tx) ELSE tx
Pipe == base_rx \o Rest

LEMMA PipeFifo ==
  ASSUME PipeInv
  PROVE  /\ IsFifo(Rest) /\ IsFifo(Pipe) /\ Len(Pipe) = Len(base_rx) + Len(Rest)
         /\ base_rx = <<>> => Pipe = Rest
<1>1. IsFifo(Rest)
  BY TailFifo DEF PipeInv, Rest
<1>2. IsFifo(Pipe) /\ Len(Pipe) = Len(base_rx) + Len(Rest)
  BY <1>1, ConcatFifo DEF PipeInv, Pipe
<1>3. base_rx = <<>> => Pipe = Rest
  <2>1. PICK S : Rest \in Seq(S)
    BY <1>1 DEF IsFifo
  <2> QED
    BY <2>1, ConcatEmptySeq DEF Pipe
<1> QED
  BY <1>1, <1>2, <1>3

LEMMA PipeSame ==
  ASSUME UNCHANGED <<tx, held, base_rx, taken>>, (held' /\ got') <=> (held /\ got)
  PROVE  [Downlink!Next]_(Downlink!streamVars)
<1>1. Pipe' = Pipe
  BY DEF Pipe, Rest
<1> QED
  BY <1>1 DEF Pipe, Rest, Downlink!streamVars

\* A frame is staged behind what is left of the pipe's front.
LEMMA PipeStages ==
  ASSUME IsFifo(Pipe), IsFifo(Pipe'), Pipe' # <<>>, Len(Pipe') <= Len(Pipe) + 1,
         \A i \in 1 .. Len(Pipe') - 1 : Pipe'[i] = Pipe[i],
         UNCHANGED taken
  PROVE  Downlink!Next
<1> DEFINE t == Downlink!Front(Pipe')
<1>1. PICK S : Pipe' \in Seq(S)
  BY DEF IsFifo
<1>2. Len(Pipe') \in Nat \ {0} /\ \A i \in 1 .. Len(Pipe') - 1 : Pipe'[i] \in S
  BY <1>1, EmptySeq
<1>3. /\ t \in Seq(S) /\ Len(t) = Len(Pipe') - 1
      /\ \A i \in 1 .. Len(Pipe') - 1 : t[i] = Pipe'[i]
  <2> DEFINE n == Len(Pipe') - 1
  <2>1. n \in Nat /\ t = SubSeq(Pipe', 1, n)
    BY <1>2 DEF Downlink!Front
  <2> HIDE DEF n, t
  <2>2. /\ t \in Seq(S) /\ Len(t) = IF 1 <= n THEN (n - 1) + 1 ELSE 0
        /\ \A i \in 1 .. (n - 1) + 1 : t[i] = Pipe'[(1 + i) - 1]
    BY <1>2, <2>1, SubSeqProperties DEF n
  <2>3. \A i \in 1 .. n : i \in 1 .. (n - 1) + 1 /\ (1 + i) - 1 = i
    BY <2>1
  <2>4. Len(t) = n
    BY <2>1, <2>2
  <2>5. \A i \in 1 .. n : t[i] = Pipe'[i]
    BY <2>2, <2>3
  <2> QED
    BY <2>2, <2>4, <2>5 DEF n
<1> HIDE DEF t
<1>4. IsFifo(t) /\ Len(t) + 0 <= Len(Pipe)
  <2>1. Len(Pipe) \in Nat
    BY EmptyFifo
  <2>2. IsFifo(t)
    BY <1>3 DEF IsFifo
  <2> QED
    BY <1>2, <1>3, <2>1, <2>2
<1>5. \A i \in 1 .. Len(t) : t[i] = Pipe[i + 0]
  BY <1>2, <1>3
<1>6. IsLossyCopy(t, Pipe)
  BY <1>4, <1>5, WindowIsCopy
<1> QED
  BY <1>6 DEF t, Pipe, Rest, IsLossyCopy, Downlink!Next, Downlink!Stage

LEMMA PipeLoses ==
  ASSUME IsFifo(Pipe), IsFifo(Pipe'), NEW k \in Nat, Len(Pipe') + k <= Len(Pipe),
         \A i \in 1 .. Len(Pipe') : Pipe'[i] = Pipe[i + k],
         UNCHANGED taken
  PROVE  Downlink!Next
<1>1. IsLossyCopy(Pipe', Pipe)
  BY WindowIsCopy
<1> QED
  BY <1>1 DEF Pipe, Rest, IsLossyCopy, Downlink!Next, Downlink!Lose

\* The base takes the head of its FIFO.
LEMMA PipeTakes ==
  ASSUME PipeInv, base_rx # <<>>, base_rx' = Tail(base_rx), taken' = Head(base_rx),
         UNCHANGED <<tx, held, got>>
  PROVE  Downlink!Next
<1>1. /\ IsFifo(base_rx) /\ IsFifo(Tail(base_rx)) /\ Len(Tail(base_rx)) = Len(base_rx) - 1
      /\ Len(base_rx) \in Nat \ {0} /\ IsFifo(Rest) /\ IsFifo(Pipe) /\ Len(Rest) \in Nat
  BY TailFifo, EmptyFifo, PipeFifo DEF PipeInv
<1>2. Len(Pipe) = Len(base_rx) + Len(Rest) /\ Len(Pipe) \in Nat /\ 1 \in 1 .. Len(Pipe)
  BY <1>1, PipeFifo
<1>3. Pipe' = Tail(base_rx) \o Rest
  BY DEF Pipe, Rest
<1>4. IsFifo(Pipe') /\ Len(Pipe') = Len(Pipe) - 1
  BY <1>1, <1>2, <1>3, ConcatFifo
<1>5. ASSUME NEW i \in 1 .. Len(Pipe')
      PROVE  Pipe'[i] = Pipe[i + 1]
  <2>1. CASE i <= Len(base_rx) - 1
    <3>1. i \in 1 .. Len(Tail(base_rx)) /\ i + 1 \in 1 .. Len(base_rx)
      BY <1>1, <1>4, <2>1
    <3>2. Pipe'[i] = Tail(base_rx)[i] /\ Tail(base_rx)[i] = base_rx[i + 1]
      BY <1>1, <1>3, <3>1, ConcatFifo, TailHolds
    <3>3. Pipe[i + 1] = base_rx[i + 1]
      BY <1>1, <3>1, ConcatFifo DEF Pipe
    <3> QED
      BY <3>2, <3>3
  <2>2. CASE ~(i <= Len(base_rx) - 1)
    <3> DEFINE j == i - (Len(base_rx) - 1)
    <3>1. /\ j \in 1 .. Len(Rest) /\ j + Len(Tail(base_rx)) = i
          /\ j + Len(base_rx) = i + 1
      BY <1>1, <1>2, <1>4, <2>2
    <3> HIDE DEF j
    <3>2. Pipe'[i] = Rest[j]
      BY <1>1, <1>3, <3>1, ConcatFifo
    <3>3. Pipe[i + 1] = Rest[j]
      BY <1>1, <3>1, ConcatFifo DEF Pipe
    <3> QED
      BY <3>2, <3>3
  <2> QED
    BY <2>1, <2>2
<1>6. Pipe' = SubSeq(Pipe, 1 + 1, Len(Pipe))
  <2> DEFINE t == SubSeq(Pipe, 2, Len(Pipe))
  <2>1. PICK S : Pipe \in Seq(S)
    BY <1>1 DEF IsFifo
  <2>2. \A i \in 2 .. Len(Pipe) : Pipe[i] \in S
    BY <2>1
  <2>3. /\ t \in Seq(S) /\ Len(t) = Len(Pipe) - 1
        /\ \A i \in 1 .. Len(Pipe) - 1 : t[i] = Pipe[i + 1]
    <3>1. /\ t \in Seq(S) /\ Len(t) = IF 2 <= Len(Pipe) THEN (Len(Pipe) - 2) + 1 ELSE 0
          /\ \A i \in 1 .. (Len(Pipe) - 2) + 1 : t[i] = Pipe[(2 + i) - 1]
      BY <1>2, <2>2, SubSeqProperties
    <3>2. \A i \in 1 .. Len(Pipe) - 1 : i \in 1 .. (Len(Pipe) - 2) + 1 /\ (2 + i) - 1 = i + 1
      BY <1>2
    <3> QED
      BY <1>2, <3>1, <3>2
  <2> HIDE DEF t
  <2>4. IsFifo(t)
    BY <2>3 DEF IsFifo
  <2>5. Pipe' = t
    BY <1>4, <1>5, <2>3, <2>4, SameFifo
  <2> QED
    BY <2>5 DEF t
<1>7. taken' = Pipe[1]
  <2>1. 1 \in 1 .. Len(base_rx)
    BY <1>1
  <2>2. Pipe[1] = base_rx[1]
    BY <1>1, <2>1, ConcatFifo DEF Pipe
  <2>3. Head(base_rx) = base_rx[1]
    BY <1>1 DEF IsFifo
  <2> QED
    BY <2>2, <2>3
<1> QED
  BY <1>2, <1>6, <1>7 DEF Pipe, Rest, Downlink!Next, Downlink!Take

-----------------------------------------------------------------------------
\* The steps of the link

\* The Wanderer's loop stages frames or leaves the payloads alone.
LEMMA WandererPipe ==
  ASSUME PipeInv, WandererStep
  PROVE  PipeInv' /\ [Downlink!Next]_(Downlink!streamVars)
<1>1. /\ UNCHANGED <<base_rx, phase, accepted, taken>> /\ got' = (got /\ held')
      /\ DrainedBeforeNextFrame'
  BY DEF WandererStep, baseVars, PipeInv, DrainedBeforeNextFrame
<1>2. CASE UNCHANGED <<tx, held>>
  BY <1>1, <1>2, PipeSame DEF PipeInv
<1>3. ASSUME NEW q, NEW n, RestageAck(q, n)
      PROVE  PipeInv' /\ [Downlink!Next]_(Downlink!streamVars)
  <2>1. PICK p : tx' = <<p>>
    BY <1>3 DEF RestageAck
  <2>2. ~held' /\ ~got' /\ IsFifo(tx') /\ Rest' = tx' /\ Len(tx') = 1
    BY <1>1, <1>3, <2>1, SingleFifo DEF RestageAck, Rest
  <2>3. PipeInv'
    BY <1>1, <2>2 DEF PipeInv
  <2>4. /\ IsFifo(base_rx) /\ IsFifo(Rest) /\ IsFifo(Pipe) /\ IsFifo(Pipe')
        /\ Pipe' = base_rx \o tx' /\ Len(Pipe') = Len(base_rx) + 1
        /\ Len(Pipe) = Len(base_rx) + Len(Rest)
        /\ Len(base_rx) \in Nat /\ Len(Rest) \in Nat
    <3>1. IsFifo(base_rx) /\ Pipe' = base_rx \o tx'
      BY <1>1, <2>2 DEF PipeInv, Pipe
    <3>2. IsFifo(base_rx \o tx') /\ Len(base_rx \o tx') = Len(base_rx) + Len(tx')
      BY <2>2, <3>1, ConcatFifo
    <3>3. IsFifo(Rest) /\ IsFifo(Pipe) /\ Len(Pipe) = Len(base_rx) + Len(Rest)
      BY PipeFifo
    <3>4. Len(base_rx) \in Nat /\ Len(Rest) \in Nat
      BY <3>1, <3>3, EmptyFifo
    <3> QED
      BY <2>2, <3>1, <3>2, <3>3, <3>4
  <2>5. \A i \in 1 .. Len(base_rx) : Pipe'[i] = base_rx[i] /\ Pipe[i] = base_rx[i]
    BY <2>2, <2>4, ConcatFifo DEF Pipe
  <2>6. Pipe' # <<>>
    BY <2>4, EmptyFifo
  <2>7. Len(Pipe') - 1 = Len(base_rx) /\ Len(Pipe') <= Len(Pipe) + 1
    BY <2>4
  <2>8. Downlink!Next
    BY <1>1, <2>4, <2>5, <2>6, <2>7, PipeStages
  <2> QED
    BY <2>3, <2>8
<1>4. ASSUME NEW p, tx' = Append(tx, p), UNCHANGED held
      PROVE  PipeInv' /\ [Downlink!Next]_(Downlink!streamVars)
  <2>1. /\ IsFifo(tx) /\ IsFifo(tx') /\ Len(tx') = Len(tx) + 1 /\ Len(tx) \in Nat /\ tx' # <<>>
        /\ \A i \in 1 .. Len(tx) : tx'[i] = tx[i]
    BY <1>4, AppendFifo, AppendHolds, EmptyFifo DEF PipeInv
  <2>2. PipeInv'
    BY <1>1, <1>4, <2>1 DEF PipeInv
  <2>3. (held' /\ got') <=> (held /\ got)
    BY <1>1, <1>4
  <2>4. /\ IsFifo(Rest) /\ Len(Rest') = Len(Rest) + 1 /\ Len(Rest) \in Nat
        /\ \A i \in 1 .. Len(Rest) : Rest'[i] = Rest[i]
    <3>1. CASE held /\ got
      <4>1. tx # <<>> /\ Rest = Tail(tx) /\ Rest' = Tail(tx')
        BY <2>3, <3>1 DEF PipeInv, Rest
      <4>2. /\ IsFifo(Rest) /\ Len(Rest) = Len(tx) - 1 /\ Len(Rest') = Len(tx') - 1
            /\ Len(Rest) \in Nat
        BY <2>1, <4>1, TailFifo, EmptyFifo
      <4>3. \A i \in 1 .. Len(Rest) : /\ i \in 1 .. Len(Rest') /\ i + 1 \in 1 .. Len(tx)
        BY <2>1, <4>2
      <4>4. \A i \in 1 .. Len(Rest) : Rest'[i] = tx'[i + 1] /\ Rest[i] = tx[i + 1]
        BY <2>1, <4>1, <4>3, TailHolds
      <4> QED
        BY <2>1, <4>2, <4>3, <4>4
    <3>2. CASE ~(held /\ got)
      BY <2>1, <2>3, <3>2 DEF Rest
    <3> QED
      BY <3>1, <3>2
  <2>5. IsFifo(base_rx) /\ IsFifo(Rest') /\ Pipe' = base_rx \o Rest'
    BY <1>1, <2>1, TailFifo DEF PipeInv, Pipe, Rest
  <2>6. /\ IsFifo(Pipe) /\ IsFifo(Pipe') /\ Len(base_rx) \in Nat
        /\ Len(Pipe) = Len(base_rx) + Len(Rest) /\ Len(Pipe') = Len(base_rx) + Len(Rest')
    BY <2>5, PipeFifo, ConcatFifo, EmptyFifo
  <2>7. ASSUME NEW i \in 1 .. Len(Pipe') - 1
        PROVE  Pipe'[i] = Pipe[i]
    <3>1. CASE i <= Len(base_rx)
      <4>1. i \in 1 .. Len(base_rx)
        BY <2>4, <2>6, <3>1
      <4>2. Pipe'[i] = base_rx[i]
        BY <2>5, <4>1, ConcatFifo
      <4>3. Pipe[i] = base_rx[i]
        BY <2>4, <2>5, <4>1, ConcatFifo DEF Pipe
      <4> QED
        BY <4>2, <4>3
    <3>2. CASE ~(i <= Len(base_rx))
      <4> DEFINE j == i - Len(base_rx)
      <4>1. j \in 1 .. Len(Rest) /\ j \in 1 .. Len(Rest') /\ j + Len(base_rx) = i
        BY <2>4, <2>6, <3>2
      <4> HIDE DEF j
      <4>2. Pipe'[i] = Rest'[j]
        BY <2>5, <4>1, ConcatFifo
      <4>3. Pipe[i] = Rest[j]
        BY <2>4, <2>5, <4>1, ConcatFifo DEF Pipe
      <4> QED
        BY <2>4, <4>1, <4>2, <4>3
    <3> QED
      BY <3>1, <3>2
  <2>8. Pipe' # <<>> /\ Len(Pipe') <= Len(Pipe) + 1
    BY <2>4, <2>6, EmptyFifo
  <2>9. Downlink!Next
    BY <1>1, <2>6, <2>7, <2>8, PipeStages
  <2> QED
    BY <2>2, <2>9
<1>5. CASE LoopStep
  <2>1. CASE ConsoleDone \/ ReadFrame \/ RadioDrained \/ TickPass
    BY <1>2, <2>1 DEF ConsoleDone, ReadFrame, RadioDrained, TickPass, hw
  <2>2. CASE Stage
    BY <1>3, <1>4, <2>2 DEF Stage, StageAck
  <2> QED
    BY <1>5, <2>1, <2>2 DEF LoopStep
<1>6. CASE ConsoleLine \/ (\E d \in Elapses : Wait(d))
  BY <1>2, <1>6 DEF ConsoleLine, Wait, hw
<1>7. CASE CorruptRead
  BY <1>3, <1>7 DEF CorruptRead
<1> QED
  BY <1>5, <1>6, <1>7 DEF WandererStep

\* The radio accepts a frame: the payload that rode the acknowledgement before
\* is gone, taken or lost; the next one reaches the base or waits.
LEMMA DeliverPipe ==
  ASSUME PipeInv, NEW heard \in BOOLEAN, Deliver(heard)
  PROVE  PipeInv' /\ [Downlink!Next]_(Downlink!streamVars)
<1>1. /\ base_rx = <<>> /\ phase = "on_air" /\ ~accepted /\ accepted'
      /\ tx' = Waiting /\ (held' <=> Waiting # <<>>)
      /\ got' = (heard /\ Waiting # <<>>) /\ UNCHANGED taken
      /\ DrainedBeforeNextFrame'
  BY DrainedStep DEF Deliver, HwAccept, PipeInv, DrainedBeforeNextFrame, LNext
<1>2. IsFifo(Waiting) /\ IsFifo(tx) /\ Len(tx) \in Nat /\ Len(Waiting) \in Nat
  BY TailFifo, EmptyFifo DEF PipeInv, Waiting
<1>3. Pipe' = Waiting /\ PipeInv'
  <2>1. CASE ~heard
    <3>1. base_rx' = <<>> /\ ~got' /\ Rest' = Waiting
      BY <1>1, <2>1 DEF Deliver, Rest
    <3>2. PipeInv'
      BY <1>1, <1>2, <3>1, NoneIsFifo DEF PipeInv
    <3> QED
      BY <1>2, <3>1, <3>2, NoneConcat DEF Pipe
  <2>2. CASE heard /\ Waiting = <<>>
    <3>1. base_rx' = <<>> /\ ~got' /\ Rest' = Waiting /\ phase' = "acked"
      BY <1>1, <2>2, NoneIsFifo, NoneConcat, WandererAssumption DEF Deliver, Hear, HeadOf, Rest
    <3>2. PipeInv'
      BY <1>1, <1>2, <3>1, NoneIsFifo DEF PipeInv
    <3> QED
      BY <1>2, <3>1, <3>2, NoneConcat DEF Pipe
  <2>3. CASE heard /\ Waiting # <<>>
    <3>1. base_rx' = <<Head(Waiting)>> /\ phase' = "acked" /\ held' /\ got'
      <4>1. held' /\ got'
        BY <1>1, <2>3
      <4>2. HeadOf(Waiting) = <<Head(Waiting)>> /\ <<>> \o <<Head(Waiting)>> = <<Head(Waiting)>>
        BY <2>3, SingleFifo, NoneConcat DEF HeadOf
      <4>3. Len(base_rx) < RX_DEPTH
        BY <1>1, NoneIsFifo, WandererAssumption
      <4>4. Hear(HeadOf(Waiting))
        BY <2>3 DEF Deliver
      <4> QED
        BY <1>1, <4>1, <4>2, <4>3, <4>4 DEF Hear
    <3>2. PipeInv'
      BY <1>1, <1>2, <2>3, <3>1, SingleFifo DEF PipeInv
    <3>3. Pipe' = <<Head(Waiting)>> \o Tail(Waiting)
      BY <1>1, <3>1 DEF Pipe, Rest
    <3> QED
      BY <1>2, <2>3, <3>2, <3>3, HeadConcat
  <2> QED
    BY <2>1, <2>2, <2>3
<1>4. Pipe = Rest /\ IsFifo(Pipe) /\ IsFifo(Pipe')
  BY <1>1, <1>2, <1>3, PipeFifo
<1>5. CASE held /\ ~got
  <2>1. tx # <<>> /\ Pipe = tx /\ Pipe' = Tail(tx) /\ Len(Tail(tx)) = Len(tx) - 1
    BY <1>2, <1>3, <1>4, <1>5, TailFifo DEF PipeInv, Rest, Waiting
  <2>2. Len(Pipe') + 1 <= Len(Pipe)
    BY <1>2, <2>1
  <2>3. \A i \in 1 .. Len(Pipe') : Pipe'[i] = Pipe[i + 1]
    BY <1>2, <2>1, TailHolds
  <2>4. Downlink!Next
    BY <1>1, <1>4, <2>2, <2>3, PipeLoses
  <2> QED
    BY <1>3, <2>4
<1>6. CASE ~(held /\ ~got)
  <2>1. Pipe' = Pipe
    BY <1>3, <1>4, <1>6 DEF Rest, Waiting
  <2> QED
    BY <1>1, <1>3, <2>1 DEF Pipe, Rest, Downlink!streamVars
<1> QED
  BY <1>5, <1>6

\* A retransmission is acknowledged with the payload that heads the FIFO.  None
\* has reached the base while the frame is still on the air, so none comes twice.
LEMMA RepeatPipe ==
  ASSUME PipeInv, NEW heard \in BOOLEAN, DeliverRepeat(heard)
  PROVE  PipeInv' /\ [Downlink!Next]_(Downlink!streamVars)
<1>1. /\ base_rx = <<>> /\ phase = "on_air" /\ accepted /\ ~got
      /\ tx' = tx /\ (held' <=> tx # <<>>)
      /\ got' = (tx # <<>> /\ heard) /\ UNCHANGED taken
      /\ DrainedBeforeNextFrame'
  BY DrainedStep DEF DeliverRepeat, HwRepeat, PipeInv, DrainedBeforeNextFrame, LNext
<1>2. IsFifo(tx) /\ Pipe = tx
  BY <1>1, PipeFifo DEF PipeInv, Rest
<1>3. Pipe' = tx /\ PipeInv'
  <2>1. CASE ~heard
    <3>1. base_rx' = <<>> /\ ~got' /\ Rest' = tx
      BY <1>1, <2>1 DEF DeliverRepeat, Rest
    <3>2. PipeInv'
      BY <1>1, <1>2, <3>1, NoneIsFifo DEF PipeInv
    <3> QED
      BY <1>2, <3>1, <3>2, NoneConcat DEF Pipe
  <2>2. CASE heard /\ tx = <<>>
    <3>1. base_rx' = <<>> /\ ~got' /\ Rest' = tx /\ phase' = "acked"
      BY <1>1, <2>2, NoneIsFifo, NoneConcat, WandererAssumption
         DEF DeliverRepeat, Hear, HeadOf, Rest
    <3>2. PipeInv'
      BY <1>1, <1>2, <3>1, NoneIsFifo DEF PipeInv
    <3> QED
      BY <1>2, <3>1, <3>2, NoneConcat DEF Pipe
  <2>3. CASE heard /\ tx # <<>>
    <3>1. base_rx' = <<Head(tx)>> /\ phase' = "acked" /\ held' /\ got'
      <4>1. held' /\ got'
        BY <1>1, <2>3
      <4>2. HeadOf(tx) = <<Head(tx)>> /\ <<>> \o <<Head(tx)>> = <<Head(tx)>>
        BY <2>3, SingleFifo, NoneConcat DEF HeadOf
      <4>3. Len(base_rx) < RX_DEPTH
        BY <1>1, NoneIsFifo, WandererAssumption
      <4>4. Hear(HeadOf(tx))
        BY <2>3 DEF DeliverRepeat
      <4> QED
        BY <1>1, <4>1, <4>2, <4>3, <4>4 DEF Hear
    <3>2. PipeInv'
      BY <1>1, <1>2, <2>3, <3>1, SingleFifo DEF PipeInv
    <3>3. Pipe' = <<Head(tx)>> \o Tail(tx)
      BY <1>1, <3>1 DEF Pipe, Rest
    <3> QED
      BY <1>2, <2>3, <3>2, <3>3, HeadConcat
  <2> QED
    BY <2>1, <2>2, <2>3
<1> QED
  BY <1>1, <1>2, <1>3 DEF Pipe, Rest, Downlink!streamVars

LEMMA LinkPipe ==
  ASSUME PipeInv, [LNext]_linkVars
  PROVE  PipeInv' /\ [Downlink!Next]_(Downlink!streamVars)
<1>1. DrainedBeforeNextFrame'
  BY DrainedStep DEF PipeInv
<1>2. ASSUME UNCHANGED <<wandererVars, got, base_rx, taken>>,
             phase' = "on_air" /\ accepted' => phase = "on_air" /\ accepted
      PROVE  PipeInv' /\ [Downlink!Next]_(Downlink!streamVars)
  <2>1. UNCHANGED <<tx, held>>
    BY <1>2 DEF wandererVars, hw
  <2> QED
    BY <1>1, <1>2, <2>1, PipeSame DEF PipeInv
<1>3. CASE WandererStep
  BY <1>3, WandererPipe
<1>4. CASE BaseStep
  <2>1. CASE BaseConsoleDone \/ Poll \/ NoPollDue \/ RfReport \/ NoRfReport \/ UpdateLink \/ Drained
    BY <1>2, <1>4, <2>1 DEF BaseStep, BaseConsoleDone, Poll, NoPollDue, RfReport, NoRfReport,
       UpdateLink, Drained, Send
  <2>2. CASE Dispatch
    <3>1. UNCHANGED <<tx, held, got>> /\ IsFifo(base_rx')
      BY <1>4, <2>2, TailFifo DEF BaseStep, wandererVars, hw, Dispatch, PipeInv
    <3>2. PipeInv'
      BY <1>1, <2>2, <3>1 DEF Dispatch, PipeInv
    <3>3. Downlink!Next
      BY <2>2, <3>1, PipeTakes DEF Dispatch
    <3> QED
      BY <3>2, <3>3
  <2> QED
    BY <1>4, <2>1, <2>2 DEF BaseStep
<1>5. ASSUME NEW f \in Commands, BaseCommand(f), UNCHANGED <<wandererVars, got>>
      PROVE  PipeInv' /\ [Downlink!Next]_(Downlink!streamVars)
  BY <1>2, <1>5 DEF BaseCommand, Send
<1>6. CASE CorruptDrain /\ UNCHANGED <<wandererVars, got>>
  <2>1. UNCHANGED <<tx, held, got, accepted, taken>> /\ base_rx' = <<>> /\ phase' = "idle"
    BY <1>6 DEF CorruptDrain, wandererVars, hw
  <2>2. PipeInv'
    BY <1>1, <2>1, NoneIsFifo DEF PipeInv
  <2>3. /\ IsFifo(base_rx) /\ IsFifo(Rest) /\ IsFifo(Pipe) /\ Pipe' = Rest
        /\ Len(Pipe) = Len(base_rx) + Len(Rest) /\ Len(base_rx) \in Nat /\ Len(Rest) \in Nat
    BY <2>1, PipeFifo, NoneConcat, EmptyFifo DEF PipeInv, Pipe, Rest
  <2>4. Len(Pipe') + Len(base_rx) <= Len(Pipe)
    BY <2>3
  <2>5. \A i \in 1 .. Len(Pipe') : Pipe'[i] = Pipe[i + Len(base_rx)]
    BY <2>3, ConcatFifo DEF Pipe
  <2>6. Downlink!Next
    BY <2>1, <2>3, <2>4, <2>5, PipeLoses
  <2> QED
    BY <2>2, <2>6
<1>7. ASSUME NEW heard \in BOOLEAN, Deliver(heard) \/ DeliverRepeat(heard)
      PROVE  PipeInv' /\ [Downlink!Next]_(Downlink!streamVars)
  BY <1>7, DeliverPipe, RepeatPipe
<1>8. CASE GiveUp
  BY <1>2, <1>8 DEF GiveUp
<1>9. CASE UNCHANGED linkVars
  BY <1>2, <1>9 DEF linkVars, baseVars
<1> QED
  BY <1>3, <1>4, <1>5, <1>6, <1>7, <1>8, <1>9 DEF LNext

\* What the base dispatches is the stream that DownlinkStream promises, for every
\* depth of the FIFOs and any number of frames (process_wanderer_radio(),
\* main.cpp:436-466, and drain_downlink(), 617-630).
THEOREM DownlinkNeverRepeats == LSpec => StreamInOrder
<1>1. LInit => PipeInv /\ Downlink!Init
  <2> SUFFICES ASSUME LInit PROVE PipeInv /\ Downlink!Init
    OBVIOUS
  <2>1. PICK p : tx = <<p>>
    BY DEF LInit, WInit
  <2>2. base_rx = <<>> /\ held = FALSE /\ phase = "idle" /\ taken = <<NoFrame, 0>>
    BY DEF LInit, WInit
  <2>3. IsFifo(tx) /\ Len(tx) = 1 /\ IsFifo(base_rx)
    BY <2>1, <2>2, SingleFifo, NoneIsFifo
  <2>4. PipeInv
    BY <2>2, <2>3 DEF PipeInv, DrainedBeforeNextFrame
  <2>5. Pipe = tx
    BY <2>2, <2>4, PipeFifo DEF Rest
  <2> QED
    BY <2>3, <2>4, <2>5 DEF Pipe, Rest, Downlink!Init
<1>2. PipeInv /\ [LNext]_linkVars => PipeInv' /\ [Downlink!Next]_(Downlink!streamVars)
  BY LinkPipe
<1> QED
  BY <1>1, <1>2, PTL DEF LSpec, StreamInOrder, Downlink!Spec
=============================================================================
