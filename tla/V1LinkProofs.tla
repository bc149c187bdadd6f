---------------------------- MODULE V1LinkProofs ----------------------------
(***************************************************************************)
(* Theorems about the V1 link, for every set of remotes, every depth of    *)
(* the receive FIFOs and every width of the ping sequence and of the       *)
(* counters.                                                               *)
(*                                                                         *)
(* Two invariants carry them.  Lockstep orders the pings that are under    *)
(* way to a remote and back by their numbers: none is older than the one   *)
(* before the base's, and no older one follows a current one.              *)
(* OneExchange says that, while no deadline or restart has overtaken a     *)
(* packet, only the pending command or its answer is under way.            *)
(***************************************************************************)
EXTENDS V1Link, TLAPS, SequenceTheorems

-----------------------------------------------------------------------------
\* Types

LEMMA MoreCounts == \A n \in Count : More(n) \in Count
  BY V1Assumption DEF More, Count

LEMMA ArrivalForms ==
  ASSUME NEW fifo, NEW p, NEW f \in Arrivals(fifo, p)
  PROVE  \/ f = fifo
         \/ Len(fifo) < RX_DEPTH /\ (f = Append(fifo, p) \/ f = Append(fifo, Damaged))
  BY DEF Arrivals

LEMMA ArrivalTypes ==
  ASSUME NEW S, NEW fifo \in Seq(S \cup {Damaged}), Len(fifo) <= RX_DEPTH,
         NEW p \in S, NEW f \in Arrivals(fifo, p)
  PROVE  f \in Seq(S \cup {Damaged}) /\ Len(f) <= RX_DEPTH
  BY ArrivalForms, V1Assumption

LEMMA ArgumentIsInt == \A kind : Argument(kind) \subseteq Int
  BY V1Assumption DEF Argument, Sequence

LEMMA FreshTypes == FreshContext \in ContextType /\ FreshStation \in StationType
<1>1. 0 \in Count /\ 0 \in Sequence /\ SEQ_MOD - 1 \in Sequence
  BY V1Assumption DEF Count, Sequence
<1> QED
  BY <1>1 DEF FreshContext, FreshStation, ContextType, StationType, NoCommand, Command

LEMMA InitTypes == Init => TypeOK
<1> SUFFICES ASSUME Init PROVE TypeOK
  OBVIOUS
<1>1. ctx \in [Remotes -> ContextType] /\ station \in [Remotes -> StationType]
  BY FreshTypes DEF Init, BaseInit
<1>2. base_rx \in Seq(ResponseType \cup {Damaged}) /\ Len(base_rx) <= RX_DEPTH
  BY V1Assumption DEF Init, BaseInit
<1>3. \A r \in Remotes : remote_rx[r] = <<>>
  BY DEF Init
<1>4. <<>> \in Seq(CommandType \cup {Damaged}) /\ Len(<<>>) <= RX_DEPTH
  BY V1Assumption
<1> QED
  BY <1>1, <1>2, <1>3, <1>4, V1Assumption DEF Init, BaseInit, TypeOK

\* What send_command() does to the types.
LEMMA SendTypes ==
  ASSUME TypeOK, NEW r \in Remotes, NEW kind \in Kinds,
         NEW arg \in Argument(kind), SendCommand(r, kind, arg)
  PROVE  /\ ctx' \in [Remotes -> ContextType]
         /\ remote_rx' \in [Remotes -> Seq(CommandType \cup {Damaged})]
         /\ \A q \in Remotes : Len(remote_rx'[q]) <= RX_DEPTH
<1>1. CASE UNCHANGED <<ctx, remote_rx>>
  BY <1>1 DEF TypeOK
<1>2. CASE ~ctx[r].waiting
  <2>1. ctx' = [ctx EXCEPT ![r] = [ctx[r] EXCEPT !.command = Command(kind, arg),
                                     !.waiting = TRUE, !.expired = FALSE, !.sent = More(@)]]
    BY <1>2 DEF SendCommand
  <2>2. Command(kind, arg) \in CommandType
    BY ArgumentIsInt DEF Command, CommandType
  <2>3. ctx' \in [Remotes -> ContextType]
    BY <2>1, <2>2, MoreCounts DEF TypeOK, ContextType
  <2>4. PICK f \in Arrivals(remote_rx[r], Command(kind, arg)) :
          remote_rx' = [remote_rx EXCEPT ![r] = f]
    BY <1>2 DEF SendCommand
  <2>5. f \in Seq(CommandType \cup {Damaged}) /\ Len(f) <= RX_DEPTH
    BY <2>2, ArrivalTypes DEF TypeOK
  <2> QED
    BY <2>3, <2>4, <2>5 DEF TypeOK
<1> QED
  BY <1>1, <1>2 DEF SendCommand

\* Accepting a response, timing out and executing a command.
LEMMA AcceptedTypes ==
  ASSUME NEW c \in ContextType, NEW p \in ResponseType
  PROVE  Accepted(c, p) \in ContextType
<1> DEFINE move  == CASE p.kind \in {"move", "getstat"} -> p.arg
                      [] p.kind = "stop" -> 0
                      [] OTHER -> c.move_value
           ping  == IF p.kind = "ping" THEN (c.ping_seq_n + 1) % SEQ_MOD ELSE c.ping_seq_n
<1>1. move \in MoveValues \cup {0}
  BY DEF ContextType, ResponseType, Answer, Argument
<1>2. ping \in Sequence
  BY V1Assumption DEF ContextType, Sequence
<1>3. More(c.acked) \in Count
  BY MoreCounts DEF ContextType
<1>4. Accepted(c, p) = [c EXCEPT !.waiting = FALSE, !.connected = TRUE, !.acked = More(c.acked),
                                !.move_value = move, !.ping_seq_n = ping]
  BY DEF Accepted
<1> HIDE DEF move, ping
<1> QED
  BY <1>1, <1>2, <1>3, <1>4 DEF ContextType

LEMMA TimeOutTypes ==
  ASSUME NEW c \in ContextType
  PROVE  TimeOut(c) \in ContextType
  BY MoreCounts DEF TimeOut, ContextType

LEMMA ExecutedTypes ==
  ASSUME NEW s \in StationType, NEW c \in CommandType, NEW repeated \in BOOLEAN
  PROVE  Executed(s, c, repeated) \in StationType
<1>1. CASE c.kind = "ping"
  <2>1. c.arg \in Sequence
    BY <1>1 DEF CommandType, Argument
  <2> DEFINE led == IF repeated THEN "held" ELSE "pulse"
  <2>2. Executed(s, c, repeated) = [s EXCEPT !.ping_seq_n = c.arg, !.led = led]
    BY <1>1 DEF Executed
  <2>3. led \in {"off", "pulse", "held"}
    OBVIOUS
  <2> HIDE DEF led
  <2> QED
    BY <2>1, <2>2, <2>3 DEF StationType
<1>2. CASE c.kind \in {"move", "stop"}
  BY <1>2 DEF Executed, StationType, CommandType, Argument
<1>3. CASE c.kind \notin {"ping", "move", "stop"}
  BY <1>3 DEF Executed
<1> QED
  BY <1>1, <1>2, <1>3

LEMMA ResponseTypes ==
  ASSUME TypeOK, NEW r \in Remotes, NEW c \in CommandType
  PROVE  Response(r, c) \in ResponseType
<1>1. station[r].move_value \in MoveValues \cup {0} /\ MoveValues \subseteq Int
  BY V1Assumption DEF TypeOK, StationType
<1> DEFINE m == Response(r, c)
<1>2. /\ c.kind \in Kinds /\ c.arg \in Int /\ c.arg \in Argument(c.kind)
  BY DEF CommandType
<1>3. /\ m = [source |-> r, kind |-> m.kind, arg |-> m.arg] /\ m.kind = c.kind
      /\ m.arg = IF c.kind = "getstat" THEN station[r].move_value ELSE c.arg
  BY DEF Response
<1> HIDE DEF m
<1>4. m.arg \in Int /\ m.arg \in Answer(m.kind)
  <2>1. CASE c.kind = "getstat"
    <3>1. m.arg = station[r].move_value /\ m.kind = "getstat"
      BY <1>3, <2>1
    <3>2. m.arg \in MoveValues \cup {0}
      BY <1>1, <3>1
    <3>3. m.arg \in Int
      <4>1. CASE m.arg \in MoveValues
        BY <1>1, <4>1
      <4>2. CASE m.arg = 0
        BY <4>2
      <4> QED
        BY <3>2, <4>1, <4>2
    <3>4. Answer(m.kind) = MoveValues \cup {0}
      BY <3>1 DEF Answer
    <3> QED
      BY <3>2, <3>3, <3>4
  <2>2. CASE c.kind # "getstat"
    <3>1. m.arg = c.arg /\ m.kind # "getstat"
      BY <1>3, <2>2
    <3> QED
      BY <1>2, <1>3, <3>1 DEF Answer
  <2> QED
    BY <2>1, <2>2
<1>5. m \in ResponseType
  BY <1>2, <1>3, <1>4 DEF ResponseType
<1> QED
  BY <1>5 DEF m

LEMMA TypesStep ==
  ASSUME TypeOK, [Next]_vars
  PROVE  TypeOK'
<1>1. ASSUME NEW r \in Remotes, SendPing(r) PROVE
        /\ ctx' \in [Remotes -> ContextType]
        /\ remote_rx' \in [Remotes -> Seq(CommandType \cup {Damaged})]
        /\ \A q \in Remotes : Len(remote_rx'[q]) <= RX_DEPTH
  <2>1. ctx[r].ping_seq_n \in Argument("ping") /\ "ping" \in Kinds
    BY DEF Argument, Kinds, TypeOK, ContextType
  <2> QED
    BY <1>1, <2>1, SendTypes DEF SendPing
<1>2. CASE ConsoleLine /\ ConsoleSend
  <2>1. \/ \E r \in Remotes : SendPing(r)
        \/ \E r \in Remotes, kind \in {"getstat", "getver", "stop"} : SendCommand(r, kind, 0)
        \/ \E r \in Remotes, v \in MoveValues : SendCommand(r, "move", v)
    BY <1>2 DEF ConsoleSend, TypeOK
  <2>2. \A kind \in {"getstat", "getver", "stop"} : kind \in Kinds /\ 0 \in Argument(kind)
    BY DEF Kinds, Argument
  <2>3. \A v \in MoveValues : v \in Argument("move") /\ "move" \in Kinds
    BY DEF Kinds, Argument
  <2>4. /\ ctx' \in [Remotes -> ContextType]
        /\ remote_rx' \in [Remotes -> Seq(CommandType \cup {Damaged})]
        /\ \A q \in Remotes : Len(remote_rx'[q]) <= RX_DEPTH
    BY <1>1, <2>1, <2>2, <2>3, SendTypes
  <2> QED
    BY <1>2, <2>4 DEF ConsoleSend, TypeOK
<1>3. CASE ConsoleLine /\ (ConsoleSet \/ Scan)
  <2>1. <<>> \in Seq(ResponseType \cup {Damaged}) /\ Len(<<>>) <= RX_DEPTH
    BY V1Assumption
  <2>2. CASE ConsoleSet
    BY <1>3, <2>2 DEF ConsoleSet, TypeOK
  <2>3. CASE Scan
    BY <1>3, <2>1, <2>3 DEF Scan, baseVars, TypeOK
  <2> QED
    BY <1>3, <2>2, <2>3
<1>4. CASE ConsoleLine /\ ResetStatistics
  <2>1. 0 \in Count /\ \A r \in Remotes : Pending(r) \in 0 .. 1
    BY V1Assumption DEF Count, Pending
  <2>2. ASSUME NEW r \in Remotes
        PROVE  [ctx[r] EXCEPT !.sent = 0, !.acked = 0, !.timeouts = 0, !.owed = Pending(r)]
                 \in ContextType
    <3> HIDE DEF Pending
    <3> QED
      BY <2>1 DEF TypeOK, ContextType
  <2>3. ctx' \in [Remotes -> ContextType]
    BY <1>4, <2>2 DEF ResetStatistics
  <2> QED
    BY <1>4, <2>3 DEF ResetStatistics, TypeOK
<1>5. CASE ConsoleDone \/ ResponsesDone \/ PingTimer
  BY <1>5 DEF ConsoleDone, ResponsesDone, PingTimer, TypeOK
<1>6. CASE ProcessResponse
  <2> DEFINE p == Head(base_rx)
  <2>1. /\ p \in ResponseType \cup {Damaged}
        /\ base_rx' \in Seq(ResponseType \cup {Damaged}) /\ Len(base_rx') <= RX_DEPTH
    BY <1>6, V1Assumption DEF ProcessResponse, TypeOK
  <2>2. CASE p = Damaged \/ ~Matches(p)
    BY <1>6, <2>1, <2>2 DEF ProcessResponse, TypeOK
  <2>3. CASE p # Damaged /\ Matches(p)
    <3>1. p \in ResponseType /\ p.source \in Remotes
      BY <2>1, <2>3 DEF ResponseType
    <3>2. ctx' = [ctx EXCEPT ![p.source] = Accepted(ctx[p.source], p)]
      BY <1>6, <2>3 DEF ProcessResponse
    <3>3. ctx' \in [Remotes -> ContextType]
      BY <3>1, <3>2, AcceptedTypes DEF TypeOK
    <3> QED
      BY <1>6, <2>1, <3>3 DEF ProcessResponse, TypeOK
  <2> QED
    BY <2>2, <2>3
<1>7. CASE TimeOuts
  <2>1. ctx' \in [Remotes -> ContextType]
    BY <1>7, TimeOutTypes DEF TimeOuts, TypeOK
  <2> QED
    BY <1>7, <2>1 DEF TimeOuts, TypeOK
<1>8. CASE PeriodicPing
  <2>1. CASE UNCHANGED <<ctx, remote_rx, ping_due>>
    BY <1>8, <2>1 DEF PeriodicPing, TypeOK
  <2>2. CASE SendPing(selected) /\ ping_due' = FALSE
    <3>1. selected \in Remotes
      BY DEF TypeOK
    <3>2. /\ ctx' \in [Remotes -> ContextType]
          /\ remote_rx' \in [Remotes -> Seq(CommandType \cup {Damaged})]
          /\ \A q \in Remotes : Len(remote_rx'[q]) <= RX_DEPTH
      BY <1>1, <2>2, <3>1
    <3> QED
      BY <1>8, <2>2, <3>2 DEF PeriodicPing, TypeOK
  <2> QED
    BY <1>8, <2>1, <2>2 DEF PeriodicPing
<1>9. CASE RestartBase
  <2>1. ctx' \in [Remotes -> ContextType]
    BY <1>9, FreshTypes DEF RestartBase
  <2>2. base_rx' \in Seq(ResponseType \cup {Damaged}) /\ Len(base_rx') <= RX_DEPTH
    BY <1>9, V1Assumption DEF RestartBase
  <2>3. course' \subseteq Course
    BY <1>9 DEF RestartBase, TypeOK, Course
  <2> QED
    BY <1>9, <2>1, <2>2, <2>3, V1Assumption DEF RestartBase, TypeOK
<1>10. ASSUME NEW r \in Remotes, HandleCommand(r) PROVE TypeOK'
  <2> DEFINE c == Head(remote_rx[r])
  <2>1. /\ remote_rx[r] \in Seq(CommandType \cup {Damaged}) /\ remote_rx[r] # <<>>
        /\ Len(remote_rx[r]) <= RX_DEPTH
    BY <1>10 DEF HandleCommand, TypeOK
  <2>2. /\ c \in CommandType \cup {Damaged}
        /\ Tail(remote_rx[r]) \in Seq(CommandType \cup {Damaged})
        /\ Len(Tail(remote_rx[r])) <= RX_DEPTH
    BY <2>1, V1Assumption
  <2>3. /\ remote_rx' \in [Remotes -> Seq(CommandType \cup {Damaged})]
        /\ \A q \in Remotes : Len(remote_rx'[q]) <= RX_DEPTH
    BY <1>10, <2>2 DEF HandleCommand, TypeOK
  <2>4. CASE UNCHANGED <<station, base_rx>>
    BY <1>10, <2>3, <2>4 DEF HandleCommand, baseVars, TypeOK
  <2>5. CASE /\ c # Damaged
             /\ station' = [station EXCEPT ![r] = Executed(station[r], c, IsRepeated(r, c))]
             /\ base_rx' \in Arrivals(base_rx, Response(r, c))
    <3>1. c \in CommandType /\ IsRepeated(r, c) \in BOOLEAN
      BY <2>2, <2>5 DEF IsRepeated
    <3>2. station' \in [Remotes -> StationType]
      BY <2>5, <3>1, ExecutedTypes DEF TypeOK
    <3>3. base_rx' \in Seq(ResponseType \cup {Damaged}) /\ Len(base_rx') <= RX_DEPTH
      BY <2>5, <3>1, ResponseTypes, ArrivalTypes DEF TypeOK
    <3> QED
      BY <1>10, <2>3, <3>2, <3>3 DEF HandleCommand, baseVars, TypeOK
  <2> QED
    BY <1>10, <2>4, <2>5 DEF HandleCommand
<1>11. ASSUME NEW r \in Remotes, RangeLedOff(r) PROVE TypeOK'
  BY <1>11 DEF RangeLedOff, baseVars, TypeOK, StationType
<1>12. ASSUME NEW r \in Remotes, RemoteLine(r) PROVE TypeOK'
  <2>1. <<>> \in Seq(CommandType \cup {Damaged}) /\ Len(<<>>) <= RX_DEPTH
    BY V1Assumption
  <2> QED
    BY <1>12, <2>1 DEF RemoteLine, baseVars, TypeOK
<1>13. ASSUME NEW r \in Remotes, Expire(r) PROVE TypeOK'
  <2>1. ctx' = [ctx EXCEPT ![r] = [ctx[r] EXCEPT !.expired = TRUE]]
    BY <1>13 DEF Expire
  <2>2. [ctx[r] EXCEPT !.expired = TRUE] \in ContextType
    BY DEF TypeOK, ContextType
  <2>3. ctx' \in [Remotes -> ContextType]
    BY <2>1, <2>2 DEF TypeOK
  <2>4. course' \subseteq Course
    BY <1>13 DEF Expire, TypeOK, Course
  <2> QED
    BY <1>13, <2>3, <2>4 DEF Expire, TypeOK
<1>14. ASSUME NEW r \in Remotes, RestartRemote(r) PROVE TypeOK'
  <2>1. <<>> \in Seq(CommandType \cup {Damaged}) /\ Len(<<>>) <= RX_DEPTH
    BY V1Assumption
  <2>2. course' \subseteq Course
    BY <1>14 DEF RestartRemote, TypeOK, Course
  <2> QED
    BY <1>14, <2>1, <2>2, FreshTypes DEF RestartRemote, baseVars, TypeOK
<1>15. CASE UNCHANGED vars
  BY <1>15 DEF vars, baseVars, TypeOK
<1> QED
  BY <1>2, <1>3, <1>4, <1>5, <1>6, <1>7, <1>8, <1>9, <1>10, <1>11, <1>12, <1>13, <1>14,
     <1>15 DEF Next, BaseLoop, ConsoleLine

\* Every variable keeps its type (main.c's structures, and one byte on the air).
THEOREM TypesKept == Spec => []TypeOK
<1>1. TypeOK /\ [Next]_vars => TypeOK'
  BY TypesStep
<1> QED
  BY InitTypes, <1>1, PTL DEF Spec

-----------------------------------------------------------------------------
\* The statistics

\* The counts of an exchange differ by nothing but a wrap of the counters.  The
\* equality of the remainders alone says too little about the next wrap.
Balanced(c) ==
  c.acked + c.timeouts + (IF c.waiting THEN 1 ELSE 0) - c.sent - c.owed
    \in {-COUNT_MOD, 0, COUNT_MOD}

LEMMA MoreWraps ==
  ASSUME NEW n \in Count
  PROVE  More(n) = IF n = COUNT_MOD - 1 THEN 0 ELSE n + 1
  BY V1Assumption DEF More, Count

LEMMA BalancedRemainders ==
  ASSUME NEW x \in 0 .. 2 * COUNT_MOD - 1, NEW y \in 0 .. COUNT_MOD,
         x - y \in {-COUNT_MOD, 0, COUNT_MOD}
  PROVE  x % COUNT_MOD = y % COUNT_MOD
<1>1. CASE x = y + COUNT_MOD
  BY <1>1, V1Assumption
<1>2. CASE y = x + COUNT_MOD
  BY <1>2, V1Assumption
<1>3. CASE x = y
  BY <1>3
<1> QED
  BY <1>1, <1>2, <1>3, V1Assumption

LEMMA BalanceShown ==
  ASSUME TypeOK, \A r \in Remotes : Balanced(ctx[r])
  PROVE  CountersBalance
<1> SUFFICES ASSUME NEW r \in Remotes
             PROVE  (ctx[r].acked + ctx[r].timeouts + Pending(r)) % COUNT_MOD
                      = (ctx[r].sent + ctx[r].owed) % COUNT_MOD
  BY DEF CountersBalance
<1> DEFINE x == ctx[r].acked + ctx[r].timeouts + Pending(r)
           y == ctx[r].sent + ctx[r].owed
<1>1. ctx[r] \in ContextType /\ Balanced(ctx[r])
  BY DEF TypeOK
<1>2. x \in 0 .. 2 * COUNT_MOD - 1 /\ y \in 0 .. COUNT_MOD
  BY <1>1, V1Assumption DEF ContextType, Count, Pending
<1>3. x - y \in {-COUNT_MOD, 0, COUNT_MOD}
  BY <1>1, V1Assumption DEF ContextType, Count, Pending, Balanced
<1> HIDE DEF x, y
<1>4. x % COUNT_MOD = y % COUNT_MOD
  BY <1>2, <1>3, BalancedRemainders
<1> QED
  BY <1>4 DEF x, y

\* A command is counted as sent when it becomes pending.
LEMMA SendBalances ==
  ASSUME NEW c \in ContextType, Balanced(c), ~c.waiting, NEW command
  PROVE  Balanced([c EXCEPT !.command = command, !.waiting = TRUE,
                            !.expired = FALSE, !.sent = More(c.sent)])
  BY MoreWraps, V1Assumption DEF Balanced, ContextType, Count

\* Its end is counted once, as acknowledged or as timed out.
LEMMA EndBalances ==
  ASSUME NEW c \in ContextType, Balanced(c), c.waiting, NEW p
  PROVE  Balanced(Accepted(c, p)) /\ Balanced(TimeOut(c))
<1>1. /\ Accepted(c, p).acked = More(c.acked) /\ ~Accepted(c, p).waiting
      /\ Accepted(c, p).timeouts = c.timeouts
      /\ Accepted(c, p).sent = c.sent /\ Accepted(c, p).owed = c.owed
  BY DEF Accepted, ContextType
<1>2. Balanced(Accepted(c, p))
  <2> HIDE DEF Accepted
  <2> QED
    BY <1>1, MoreWraps, V1Assumption DEF Balanced, ContextType, Count
<1>3. Balanced(TimeOut(c))
  BY MoreWraps, V1Assumption DEF Balanced, TimeOut, ContextType, Count
<1> QED
  BY <1>2, <1>3

LEMMA BalanceInit == Init => \A r \in Remotes : Balanced(ctx[r])
<1>1. Balanced(FreshContext)
  BY V1Assumption DEF FreshContext, Balanced
<1> QED
  BY <1>1 DEF Init, BaseInit

\* A step that leaves the counts of a context alone, or resets them.
LEMMA BalanceKept ==
  ASSUME NEW c \in ContextType, Balanced(c), NEW d,
         /\ d.waiting = c.waiting /\ d.acked = c.acked /\ d.timeouts = c.timeouts
         /\ d.sent = c.sent /\ d.owed = c.owed
  PROVE  Balanced(d)
  BY DEF Balanced

LEMMA SendKeepsBalance ==
  ASSUME TypeOK, \A q \in Remotes : Balanced(ctx[q]),
         NEW r \in Remotes, NEW kind, NEW arg, SendCommand(r, kind, arg)
  PROVE  \A q \in Remotes : Balanced(ctx'[q])
<1>1. CASE UNCHANGED ctx
  BY <1>1
<1>2. CASE ~ctx[r].waiting
  <2> DEFINE c == [ctx[r] EXCEPT !.command = Command(kind, arg), !.waiting = TRUE,
                                 !.expired = FALSE, !.sent = More(ctx[r].sent)]
  <2>1. ctx' = [ctx EXCEPT ![r] = c]
    BY <1>2 DEF SendCommand
  <2>2. Balanced(c)
    BY <1>2, SendBalances DEF TypeOK
  <2> HIDE DEF c
  <2> QED
    BY <2>1, <2>2 DEF TypeOK
<1> QED
  BY <1>1, <1>2 DEF SendCommand

LEMMA BalanceStep ==
  ASSUME TypeOK, \A q \in Remotes : Balanced(ctx[q]), [Next]_vars
  PROVE  \A q \in Remotes : Balanced(ctx'[q])
<1>1. ASSUME NEW r \in Remotes, NEW kind, NEW arg, SendCommand(r, kind, arg)
      PROVE  \A q \in Remotes : Balanced(ctx'[q])
  BY <1>1, SendKeepsBalance
<1>2. CASE ConsoleSend \/ PeriodicPing
  <2>1. selected \in Remotes
    BY DEF TypeOK
  <2> QED
    BY <1>1, <1>2, <2>1 DEF ConsoleSend, PeriodicPing, SendPing
<1>3. CASE ResetStatistics
  <2>1. ASSUME NEW q \in Remotes
        PROVE  Balanced([ctx[q] EXCEPT !.sent = 0, !.acked = 0, !.timeouts = 0,
                                       !.owed = Pending(q)])
    BY V1Assumption DEF Balanced, Pending, TypeOK, ContextType
  <2> QED
    BY <1>3, <2>1 DEF ResetStatistics
<1>4. CASE ProcessResponse
  <2> DEFINE p == Head(base_rx)
  <2>1. CASE UNCHANGED ctx
    BY <2>1
  <2>2. CASE p # Damaged /\ Matches(p)
    <3>1. p.source \in Remotes /\ ctx[p.source].waiting
      BY <1>4, <2>2 DEF ProcessResponse, Matches, TypeOK, ResponseType
    <3>2. ctx' = [ctx EXCEPT ![p.source] = Accepted(ctx[p.source], p)]
      BY <1>4, <2>2 DEF ProcessResponse
    <3>3. Balanced(Accepted(ctx[p.source], p))
      BY <3>1, EndBalances DEF TypeOK
    <3> QED
      BY <3>1, <3>2, <3>3 DEF TypeOK
  <2> QED
    BY <1>4, <2>1, <2>2 DEF ProcessResponse
<1>5. CASE TimeOuts
  <2>1. ASSUME NEW q \in Remotes
        PROVE  Balanced(TimeOut(ctx[q]))
    <3>1. CASE ctx[q].waiting
      BY <3>1, EndBalances DEF TypeOK
    <3>2. CASE ~ctx[q].waiting
      BY <3>2 DEF TimeOut
    <3> QED
      BY <3>1, <3>2
  <2> QED
    BY <1>5, <2>1 DEF TimeOuts
<1>6. ASSUME NEW r \in Remotes, Expire(r)
      PROVE  \A q \in Remotes : Balanced(ctx'[q])
  <2>1. ctx' = [ctx EXCEPT ![r] = [ctx[r] EXCEPT !.expired = TRUE]]
    BY <1>6 DEF Expire
  <2>2. Balanced([ctx[r] EXCEPT !.expired = TRUE])
    BY BalanceKept DEF TypeOK, ContextType
  <2> QED
    BY <2>1, <2>2 DEF TypeOK
<1>7. CASE RestartBase
  BY <1>7, V1Assumption DEF RestartBase, FreshContext, Balanced
<1>8. CASE UNCHANGED ctx
  BY <1>8
<1>9. ASSUME NEW r \in Remotes, HandleCommand(r) \/ RangeLedOff(r) \/ RemoteLine(r)
                                   \/ RestartRemote(r)
      PROVE  UNCHANGED ctx
  BY <1>9 DEF HandleCommand, RangeLedOff, RemoteLine, RestartRemote, baseVars
<1>10. CASE ConsoleDone \/ ResponsesDone \/ PingTimer \/ ConsoleSet \/ Scan \/ UNCHANGED vars
  BY <1>10 DEF ConsoleDone, ResponsesDone, PingTimer, ConsoleSet, Scan, vars, baseVars
<1> QED
  BY <1>2, <1>3, <1>4, <1>5, <1>6, <1>7, <1>8, <1>9, <1>10 DEF Next, BaseLoop, ConsoleLine

\* The statistics of every remote add up, however often the counters have
\* wrapped and whenever they were reset (main.c:609-625).
THEOREM StatisticsAddUp == Spec => []CountersBalance
<1> DEFINE Inv == TypeOK /\ \A q \in Remotes : Balanced(ctx[q])
<1>1. Init => Inv
  BY InitTypes, BalanceInit
<1>2. Inv /\ [Next]_vars => Inv'
  BY TypesStep, BalanceStep
<1>3. Inv => CountersBalance
  BY BalanceShown
<1> QED
  BY <1>1, <1>2, <1>3, PTL DEF Spec

-----------------------------------------------------------------------------
\* The ping sequence.  For a remote r, the number b that the base wants to get
\* answered, the number n that the remote has seen last, and the FIFOs A of
\* answers and C of commands.

Following(n)  == (n + 1) % SEQ_MOD
Recent(b, n)  == b \in {n, Following(n)}
Pings(C)      == {i \in DOMAIN C : C[i].kind = "ping"}
PingsOf(r, A) == {i \in Pings(A) : A[i].source = r}

\* No number older than the one before is left anywhere.
NumbersRecent(r, b, n, A, C) ==
  /\ Recent(b, n)
  /\ \A i \in PingsOf(r, A) : Recent(b, A[i].arg)
  /\ \A i \in Pings(C) : Recent(b, C[i].arg)

\* The pings under way, the answers before the commands, are first those with
\* the number before and then those with the current one.
OldOnesFirst(r, b, A, C) ==
  /\ \A i, j \in PingsOf(r, A) : i < j /\ A[i].arg = b => A[j].arg = b
  /\ \A i, j \in Pings(C) : i < j /\ C[i].arg = b => C[j].arg = b
  /\ \A i \in PingsOf(r, A), j \in Pings(C) : A[i].arg = b => C[j].arg = b

\* The remote has seen what it has answered; once it has seen the current number
\* it will not read an older one.
StationBetween(r, b, n, A, C) ==
  /\ \A i \in PingsOf(r, A) : A[i].arg = b => n = b
  /\ n = b => \A i \in Pings(C) : C[i].arg = b

Lockstep(r, b, n, A, C) ==
  /\ NumbersRecent(r, b, n, A, C)
  /\ OldOnesFirst(r, b, A, C)
  /\ StationBetween(r, b, n, A, C)

LEMMA FollowingWraps ==
  ASSUME NEW n \in Sequence
  PROVE  Following(n) = (IF n = SEQ_MOD - 1 THEN 0 ELSE n + 1) /\ Following(n) \in Sequence
  BY V1Assumption DEF Following, Sequence

Answers  == Seq(ResponseType \cup {Damaged})
Commands == Seq(CommandType \cup {Damaged})

LEMMA PingArguments ==
  ASSUME NEW r, NEW A \in Answers, NEW C \in Commands
  PROVE  /\ \A i \in PingsOf(r, A) : A[i].arg \in Sequence /\ A[i] \in ResponseType
         /\ \A i \in Pings(C) : C[i].arg \in Sequence /\ C[i] \in CommandType
<1>1. ASSUME NEW i \in PingsOf(r, A)
      PROVE  A[i].arg \in Sequence /\ A[i] \in ResponseType
  <2>1. A[i] \in ResponseType \cup {Damaged} /\ A[i].kind = "ping"
    BY DEF PingsOf, Pings, Answers
  <2> QED
    BY <2>1 DEF ResponseType, Damaged, Answer, Argument
<1>2. ASSUME NEW i \in Pings(C)
      PROVE  C[i].arg \in Sequence /\ C[i] \in CommandType
  <2>1. C[i] \in CommandType \cup {Damaged} /\ C[i].kind = "ping"
    BY DEF Pings, Commands
  <2> QED
    BY <2>1 DEF CommandType, Damaged, Argument
<1> QED
  BY <1>1, <1>2

\* The head of either FIFO goes.
LEMMA LockstepTails ==
  ASSUME NEW r, NEW b, NEW n, NEW A \in Answers, NEW C \in Commands,
         Lockstep(r, b, n, A, C)
  PROVE  /\ A # <<>> => Lockstep(r, b, n, Tail(A), C)
         /\ C # <<>> => Lockstep(r, b, n, A, Tail(C))
         /\ Lockstep(r, b, n, <<>>, C) /\ Lockstep(r, b, n, A, <<>>)
<1> USE DEF Lockstep, NumbersRecent, OldOnesFirst, StationBetween, PingsOf, Pings
<1>1. ASSUME A # <<>>
      PROVE  Lockstep(r, b, n, Tail(A), C)
  <2> DEFINE T == Tail(A)
  <2>1. /\ DOMAIN T = 1 .. Len(A) - 1 /\ DOMAIN A = 1 .. Len(A) /\ Len(A) \in Nat
        /\ \A i \in DOMAIN T : T[i] = A[i + 1]
    BY <1>1 DEF Answers
  <2>2. \A i \in DOMAIN T : i + 1 \in DOMAIN A /\ i \in Int
    BY <2>1
  <2>3. \A i, j \in DOMAIN T : i < j => i + 1 < j + 1
    BY <2>1
  <2> HIDE DEF T
  <2>4. NumbersRecent(r, b, n, T, C)
    BY <2>1, <2>2
  <2>5. OldOnesFirst(r, b, T, C)
    BY <2>1, <2>2, <2>3
  <2>6. StationBetween(r, b, n, T, C)
    BY <2>1, <2>2
  <2> QED
    BY <2>4, <2>5, <2>6 DEF T
<1>2. ASSUME C # <<>>
      PROVE  Lockstep(r, b, n, A, Tail(C))
  <2> DEFINE T == Tail(C)
  <2>1. /\ DOMAIN T = 1 .. Len(C) - 1 /\ DOMAIN C = 1 .. Len(C) /\ Len(C) \in Nat
        /\ \A i \in DOMAIN T : T[i] = C[i + 1]
    BY <1>2 DEF Commands
  <2>2. \A i \in DOMAIN T : i + 1 \in DOMAIN C /\ i \in Int
    BY <2>1
  <2>3. \A i, j \in DOMAIN T : i < j => i + 1 < j + 1
    BY <2>1
  <2> HIDE DEF T
  <2>4. NumbersRecent(r, b, n, A, T)
    BY <2>1, <2>2
  <2>5. OldOnesFirst(r, b, A, T)
    BY <2>1, <2>2, <2>3
  <2>6. StationBetween(r, b, n, A, T)
    BY <2>1, <2>2
  <2> QED
    BY <2>4, <2>5, <2>6 DEF T
<1>3. DOMAIN <<>> = {}
  OBVIOUS
<1> QED
  BY <1>1, <1>2, <1>3

\* A packet joins the commands: a damaged one, a command of another kind, or a
\* ping with the current number.
LEMMA LockstepSends ==
  ASSUME NEW r, NEW b, NEW n, NEW A \in Answers, NEW C \in Commands,
         Lockstep(r, b, n, A, C), NEW c \in CommandType \cup {Damaged},
         c.kind = "ping" => c.arg = b
  PROVE  Lockstep(r, b, n, A, Append(C, c))
<1> USE DEF Lockstep, NumbersRecent, OldOnesFirst, StationBetween, PingsOf, Pings
<1> DEFINE D == Append(C, c)
<1>1. /\ DOMAIN D = 1 .. Len(C) + 1 /\ DOMAIN C = 1 .. Len(C) /\ Len(C) \in Nat
      /\ \A i \in DOMAIN C : D[i] = C[i]
      /\ D[Len(C) + 1] = c
  BY DEF Commands
<1>2. \A i \in DOMAIN D : i \in DOMAIN C \/ i = Len(C) + 1
  BY <1>1
<1>3. \A i \in DOMAIN D : ~(Len(C) + 1 < i)
  BY <1>1
<1> HIDE DEF D
<1>4. NumbersRecent(r, b, n, A, D)
  BY <1>1, <1>2 DEF Recent
<1>5. OldOnesFirst(r, b, A, D)
  BY <1>1, <1>2, <1>3
<1>6. StationBetween(r, b, n, A, D)
  BY <1>1, <1>2
<1> QED
  BY <1>4, <1>5, <1>6 DEF D

\* The remote executes the ping at the head of its FIFO and answers it, and the
\* answer arrives intact.
LEMMA LockstepAnswers ==
  ASSUME NEW r, NEW b \in Sequence, NEW n \in Sequence, NEW A \in Answers, NEW C \in Commands,
         Lockstep(r, b, n, A, C), C # <<>>, C[1].kind = "ping",
         NEW p \in ResponseType, p.kind = "ping", p.arg = C[1].arg
  PROVE  /\ Lockstep(r, b, C[1].arg, A, Tail(C))
         /\ Lockstep(r, b, C[1].arg, Append(A, p), Tail(C))
<1> DEFINE k == C[1].arg
           B == Append(A, p)
<1>1. 1 \in Pings(C) /\ \A i \in DOMAIN C : i # 1 => 1 < i
  BY DEF Commands, Pings
<1>2. Recent(b, k)
  BY <1>1 DEF Lockstep, NumbersRecent
<1>3. k = b => \A j \in Pings(C) : C[j].arg = b
  BY <1>1 DEF Lockstep, OldOnesFirst, Pings
<1>4. \A i \in PingsOf(r, A) : A[i].arg = b => k = b
  BY <1>1 DEF Lockstep, OldOnesFirst, StationBetween
<1>5. Lockstep(r, b, k, A, C)
  BY <1>2, <1>3, <1>4 DEF Lockstep, NumbersRecent, OldOnesFirst, StationBetween
<1>6. Lockstep(r, b, k, A, Tail(C))
  BY <1>5, LockstepTails
<1>7. /\ DOMAIN B = 1 .. Len(A) + 1 /\ DOMAIN A = 1 .. Len(A) /\ Len(A) \in Nat
      /\ \A i \in DOMAIN A : B[i] = A[i]
      /\ B[Len(A) + 1] = p
  BY DEF Answers
<1>8. \A i \in DOMAIN B : i \in DOMAIN A \/ i = Len(A) + 1
  BY <1>7
<1>9. \A i \in DOMAIN B : ~(Len(A) + 1 < i)
  BY <1>7
<1> HIDE DEF B, k
<1>10. NumbersRecent(r, b, k, B, C)
  BY <1>2, <1>5, <1>7, <1>8 DEF k, Lockstep, NumbersRecent, OldOnesFirst, StationBetween, PingsOf, Pings
<1>11. OldOnesFirst(r, b, B, C)
  BY <1>3, <1>4, <1>5, <1>7, <1>8, <1>9 DEF k, Lockstep, NumbersRecent, OldOnesFirst, StationBetween, PingsOf, Pings
<1>12. StationBetween(r, b, k, B, C)
  BY <1>3, <1>5, <1>7, <1>8 DEF k, Lockstep, NumbersRecent, OldOnesFirst, StationBetween, PingsOf, Pings
<1>13. Lockstep(r, b, k, B, C) /\ B \in Answers
  BY <1>10, <1>11, <1>12 DEF Lockstep, B, Answers
<1>14. Lockstep(r, b, k, B, Tail(C))
  BY <1>13, LockstepTails
<1> QED
  BY <1>6, <1>14 DEF k, B

\* An answer that is not one to a ping, or is damaged, or comes from another
\* remote joins the answers.
LEMMA LockstepOthers ==
  ASSUME NEW r, NEW b, NEW n, NEW A \in Answers, NEW C \in Commands,
         Lockstep(r, b, n, A, C), NEW p \in ResponseType \cup {Damaged},
         p.kind = "ping" => p.source # r
  PROVE  Lockstep(r, b, n, Append(A, p), C)
<1> DEFINE B == Append(A, p)
<1>1. /\ DOMAIN B = 1 .. Len(A) + 1 /\ DOMAIN A = 1 .. Len(A) /\ Len(A) \in Nat
      /\ \A i \in DOMAIN A : B[i] = A[i]
      /\ B[Len(A) + 1] = p
  BY DEF Answers
<1>2. \A i \in DOMAIN B : i \in DOMAIN A \/ i = Len(A) + 1
  BY <1>1
<1> HIDE DEF B
<1>3. \A i \in PingsOf(r, B) : i \in PingsOf(r, A) /\ B[i] = A[i]
  BY <1>1, <1>2 DEF PingsOf, Pings
<1> QED
  BY <1>3 DEF B, Lockstep, NumbersRecent, OldOnesFirst, StationBetween

\* The base accepts the answer with the current number, which is the oldest of
\* those under way: all others have this number too.
LEMMA LockstepAccepts ==
  ASSUME NEW r, NEW b \in Sequence, NEW n \in Sequence, NEW A \in Answers, NEW C \in Commands,
         Lockstep(r, b, n, A, C), A # <<>>, 1 \in PingsOf(r, A), A[1].arg = b
  PROVE  Lockstep(r, Following(b), n, Tail(A), C)
<1>1. \A i \in DOMAIN A : i # 1 => 1 < i
  BY DEF Answers
<1>2. /\ n = b
      /\ \A i \in PingsOf(r, A) : A[i].arg = b
      /\ \A i \in Pings(C) : C[i].arg = b
  BY <1>1 DEF Lockstep, OldOnesFirst, StationBetween, PingsOf, Pings
<1>3. Recent(Following(b), b)
  BY DEF Recent
<1>4. Lockstep(r, Following(b), n, A, C)
  BY <1>2, <1>3 DEF Lockstep, NumbersRecent, OldOnesFirst, StationBetween
<1> QED
  BY <1>4, LockstepTails

LockstepAt(r) ==
  Lockstep(r, ctx[r].ping_seq_n, station[r].ping_seq_n, base_rx, remote_rx[r])

\* A ping is sent with the number that the base wants to get answered, and it
\* stays pending while this number does.
PendingPing(r) ==
  ctx[r].waiting => /\ ctx[r].command # NoCommand
                    /\ ctx[r].command.kind = "ping" => ctx[r].command.arg = ctx[r].ping_seq_n

PendingPings == \A r \in Remotes : PendingPing(r)
LockstepInv  == "restarted" \notin course => \A r \in Remotes : LockstepAt(r)

LEMMA LockstepTypes ==
  ASSUME TypeOK, NEW r \in Remotes
  PROVE  /\ ctx[r].ping_seq_n \in Sequence /\ station[r].ping_seq_n \in Sequence
         /\ base_rx \in Answers /\ remote_rx[r] \in Commands
  BY DEF TypeOK, ContextType, StationType, Answers, Commands

\* Nothing joins a FIFO, though either may be flushed.
LEMMA LockstepFlushed ==
  ASSUME TypeOK, NEW r \in Remotes, LockstepAt(r),
         base_rx' \in {base_rx, <<>>}, remote_rx'[r] \in {remote_rx[r], <<>>},
         ctx'[r].ping_seq_n = ctx[r].ping_seq_n,
         station'[r].ping_seq_n = station[r].ping_seq_n
  PROVE  LockstepAt(r)'
<1> DEFINE b == ctx[r].ping_seq_n
           n == station[r].ping_seq_n
<1>1. <<>> \in Answers /\ base_rx \in Answers /\ remote_rx[r] \in Commands
  BY LockstepTypes DEF Answers
<1>2. Lockstep(r, b, n, base_rx', remote_rx[r]) /\ base_rx' \in Answers
  BY <1>1, LockstepTails DEF LockstepAt
<1>3. Lockstep(r, b, n, base_rx', remote_rx'[r])
  BY <1>1, <1>2, LockstepTails
<1> QED
  BY <1>3 DEF LockstepAt

LEMMA LockstepInitially == Init => PendingPings /\ LockstepInv
<1> SUFFICES ASSUME Init, NEW r \in Remotes
             PROVE  PendingPing(r) /\ LockstepAt(r)
  BY DEF PendingPings, LockstepInv
<1>1. ctx[r] = FreshContext /\ station[r] = FreshStation /\ base_rx = <<>> /\ remote_rx[r] = <<>>
  BY DEF Init, BaseInit
<1>2. PendingPing(r)
  BY <1>1 DEF PendingPing, FreshContext
<1>3. Following(SEQ_MOD - 1) = 0
  BY FollowingWraps, V1Assumption DEF Sequence
<1>4. Lockstep(r, 0, SEQ_MOD - 1, <<>>, <<>>)
  BY <1>3 DEF Lockstep, NumbersRecent, OldOnesFirst, StationBetween, PingsOf, Pings, Recent
<1> QED
  BY <1>1, <1>2, <1>4 DEF LockstepAt, FreshContext, FreshStation

\* A ping that is sent has the current number, so it follows all others.
LEMMA LockstepSend ==
  ASSUME TypeOK, PendingPings, LockstepInv,
         NEW r \in Remotes, NEW kind \in Kinds, NEW arg \in Argument(kind),
         SendCommand(r, kind, arg), kind = "ping" => arg = ctx[r].ping_seq_n,
         UNCHANGED <<base_rx, station, course>>
  PROVE  PendingPings' /\ LockstepInv'
<1>1. CASE UNCHANGED <<ctx, remote_rx>>
  BY <1>1 DEF PendingPings, PendingPing, LockstepInv, LockstepAt
<1>2. CASE ~ctx[r].waiting /\ ~UNCHANGED <<ctx, remote_rx>>
  <2> DEFINE c == [ctx[r] EXCEPT !.command = Command(kind, arg), !.waiting = TRUE,
                                 !.expired = FALSE, !.sent = More(@)]
  <2>1. ctx' = [ctx EXCEPT ![r] = c]
    BY <1>2 DEF SendCommand
  <2>2. c.command = Command(kind, arg) /\ c.ping_seq_n = ctx[r].ping_seq_n
    BY DEF TypeOK, ContextType
  <2>3. PICK f \in Arrivals(remote_rx[r], Command(kind, arg)) :
          remote_rx' = [remote_rx EXCEPT ![r] = f]
    BY <1>2 DEF SendCommand
  <2> HIDE DEF c
  <2>4. PendingPings'
    <3>1. Command(kind, arg) # NoCommand
      BY DEF Command, NoCommand, Kinds
    <3> QED
      BY <2>1, <2>2, <3>1 DEF PendingPings, PendingPing, Command, TypeOK
  <2>5. ASSUME "restarted" \notin course, NEW q \in Remotes
        PROVE  LockstepAt(q)'
    <3>1. LockstepAt(q)
      BY <2>5 DEF LockstepInv
    <3>2. /\ ctx[q].ping_seq_n \in Sequence /\ station[q].ping_seq_n \in Sequence
          /\ base_rx \in Answers /\ remote_rx[q] \in Commands
      BY LockstepTypes
    <3>3. CASE q = r
      <4> DEFINE b == ctx[r].ping_seq_n
                 n == station[r].ping_seq_n
                 C == remote_rx[r]
      <4>1. Command(kind, arg) \in CommandType /\ Command(kind, arg).kind = kind
            /\ Command(kind, arg).arg = arg
        BY ArgumentIsInt DEF Command, CommandType
      <4>2. Lockstep(r, b, n, base_rx, Append(C, Command(kind, arg)))
        BY <3>1, <3>2, <3>3, <4>1, LockstepSends DEF LockstepAt
      <4>3. Lockstep(r, b, n, base_rx, Append(C, Damaged))
        <5>1. Damaged \in CommandType \cup {Damaged} /\ Damaged.kind # "ping"
          BY DEF Damaged
        <5> QED
          BY <3>1, <3>2, <3>3, <5>1, LockstepSends DEF LockstepAt
      <4>4. Lockstep(r, b, n, base_rx, f)
        BY <3>1, <3>3, <4>2, <4>3, ArrivalForms DEF LockstepAt
      <4>5. ctx'[r] = c /\ remote_rx'[r] = f
        BY <2>1, <2>3 DEF TypeOK
      <4> QED
        BY <2>2, <3>3, <4>4, <4>5 DEF LockstepAt
    <3>4. CASE q # r
      <4>1. ctx'[q] = ctx[q] /\ remote_rx'[q] = remote_rx[q]
        BY <2>1, <2>3, <3>4
      <4> QED
        BY <3>1, <4>1 DEF LockstepAt
    <3> QED
      BY <3>3, <3>4
  <2> QED
    BY <2>4, <2>5 DEF LockstepInv
<1> QED
  BY <1>1, <1>2 DEF SendCommand

\* Whatever the base sends goes through send_command(), pings with the number
\* of their context.
LEMMA Sends ==
  ASSUME TypeOK, ConsoleSend \/ PeriodicPing
  PROVE  \/ UNCHANGED <<ctx, remote_rx>>
         \/ \E r \in Remotes, kind \in Kinds : \E arg \in Argument(kind) :
              SendCommand(r, kind, arg) /\ (kind = "ping" => arg = ctx[r].ping_seq_n)
<1> USE DEF Kinds, Argument
<1>1. ASSUME NEW r \in Remotes, SendPing(r)
      PROVE  \E arg \in Argument("ping") :
               SendCommand(r, "ping", arg) /\ arg = ctx[r].ping_seq_n
  BY <1>1 DEF SendPing, TypeOK, ContextType
<1>2. ASSUME NEW r \in Remotes, NEW kind \in {"getstat", "getver", "stop"},
             SendCommand(r, kind, 0)
      PROVE  0 \in Argument(kind) /\ kind # "ping" /\ kind \in Kinds
  OBVIOUS
<1>3. ASSUME NEW r \in Remotes, NEW v \in MoveValues, SendCommand(r, "move", v)
      PROVE  v \in Argument("move")
  OBVIOUS
<1>4. selected \in Remotes
  BY DEF TypeOK
<1> HIDE DEF Argument
<1>5. "ping" \in Kinds /\ "move" \in Kinds /\ "move" # "ping"
  OBVIOUS
<1> HIDE DEF Kinds
<1>6. CASE PeriodicPing
  BY <1>1, <1>4, <1>5, <1>6 DEF PeriodicPing
<1>7. CASE ConsoleSend
  <2>1. CASE SendPing(selected)
    BY <1>1, <1>4, <1>5, <2>1
  <2>2. CASE \E r \in Remotes, kind \in {"getstat", "getver", "stop"} : SendCommand(r, kind, 0)
    BY <1>2, <2>2
  <2>3. CASE \E v \in MoveValues : SendCommand(selected, "move", v)
    BY <1>3, <1>4, <1>5, <2>3
  <2> QED
    BY <1>4, <1>7, <2>1, <2>2, <2>3 DEF ConsoleSend
<1> QED
  BY <1>6, <1>7

\* The base takes the oldest answer: only if it is the one to the pending ping
\* does the number advance, and then no older ping is left.
LEMMA LockstepResponse ==
  ASSUME TypeOK, PendingPings, LockstepInv, ProcessResponse
  PROVE  PendingPings' /\ LockstepInv'
<1> DEFINE p == Head(base_rx)
<1>1. /\ base_rx # <<>> /\ base_rx' = Tail(base_rx) /\ p \in ResponseType \cup {Damaged}
      /\ p = base_rx[1] /\ 1 \in DOMAIN base_rx
      /\ UNCHANGED <<station, remote_rx, course>>
  BY DEF ProcessResponse, TypeOK
<1>2. ASSUME NEW r \in Remotes, LockstepAt(r), ctx'[r].ping_seq_n = ctx[r].ping_seq_n
      PROVE  LockstepAt(r)'
  <2>1. Lockstep(r, ctx[r].ping_seq_n, station[r].ping_seq_n, Tail(base_rx), remote_rx[r])
    BY <1>1, <1>2, LockstepTypes, LockstepTails DEF LockstepAt
  <2> QED
    BY <1>1, <1>2, <2>1 DEF LockstepAt
<1>3. CASE p = Damaged \/ ~Matches(p)
  <2>1. ctx' = ctx
    BY <1>3 DEF ProcessResponse
  <2> QED
    BY <1>1, <1>2, <2>1 DEF PendingPings, PendingPing, LockstepInv
<1>4. CASE p # Damaged /\ Matches(p)
  <2>1. PICK q \in Remotes : q = p.source
    BY <1>1, <1>4 DEF ResponseType
  <2> DEFINE d == Accepted(ctx[q], p)
  <2>2. p \in ResponseType /\ ctx' = [ctx EXCEPT ![q] = d]
    BY <1>1, <1>4, <2>1 DEF ProcessResponse
  <2>3. /\ ~d.waiting
        /\ d.ping_seq_n = IF p.kind = "ping" THEN Following(ctx[q].ping_seq_n)
                                             ELSE ctx[q].ping_seq_n
    BY <2>2 DEF Accepted, Following, TypeOK, ContextType
  <2>4. p.kind = "ping" => p.arg = ctx[q].ping_seq_n
    BY <1>4, <2>1 DEF Matches, PendingPings, PendingPing
  <2> HIDE DEF d
  <2>5. ctx'[q] = d /\ \A r \in Remotes \ {q} : ctx'[r] = ctx[r]
    BY <2>2 DEF TypeOK
  <2>6. PendingPings'
    BY <2>3, <2>5 DEF PendingPings, PendingPing
  <2>7. ASSUME LockstepAt(q), p.kind = "ping"
        PROVE  LockstepAt(q)'
    <3>1. 1 \in PingsOf(q, base_rx)
      BY <1>1, <2>7, <2>1 DEF PingsOf, Pings
    <3>2. Lockstep(q, Following(ctx[q].ping_seq_n), station[q].ping_seq_n, Tail(base_rx),
                   remote_rx[q])
      BY <1>1, <2>2, <2>4, <2>7, <3>1, LockstepTypes, LockstepAccepts DEF LockstepAt
    <3> QED
      BY <1>1, <2>3, <2>5, <2>7, <3>2 DEF LockstepAt
  <2>8. ASSUME LockstepInv, "restarted" \notin course, NEW r \in Remotes
        PROVE  LockstepAt(r)'
    <3>1. LockstepAt(r)
      BY <2>8 DEF LockstepInv
    <3>2. CASE r = q /\ p.kind = "ping"
      BY <2>7, <3>1, <3>2
    <3>3. CASE ~(r = q /\ p.kind = "ping")
      BY <1>2, <2>3, <2>5, <3>1, <3>3
    <3> QED
      BY <3>2, <3>3
  <2> QED
    BY <1>1, <2>6, <2>8 DEF LockstepInv
<1> QED
  BY <1>3, <1>4

\* A remote takes its oldest command, executes it and answers.
LEMMA LockstepCommand ==
  ASSUME TypeOK, LockstepInv, NEW r \in Remotes, HandleCommand(r)
  PROVE  LockstepInv'
<1> DEFINE c == Head(remote_rx[r])
           p == Response(r, c)
<1>1. /\ remote_rx[r] # <<>> /\ remote_rx' = [remote_rx EXCEPT ![r] = Tail(remote_rx[r])]
      /\ c \in CommandType \cup {Damaged} /\ c = remote_rx[r][1]
      /\ UNCHANGED <<ctx, course>>
  BY DEF HandleCommand, TypeOK, baseVars
<1>2. remote_rx'[r] = Tail(remote_rx[r]) /\ \A q \in Remotes \ {r} : remote_rx'[q] = remote_rx[q]
  BY <1>1 DEF TypeOK
<1>3. CASE c = Damaged /\ UNCHANGED <<station, base_rx>>
  <2>1. ASSUME NEW q \in Remotes, LockstepAt(q)
        PROVE  LockstepAt(q)'
    <3>1. CASE q = r
      <4>1. Lockstep(r, ctx[r].ping_seq_n, station[r].ping_seq_n, base_rx, Tail(remote_rx[r]))
        BY <1>1, <2>1, <3>1, LockstepTypes, LockstepTails DEF LockstepAt
      <4> QED
        BY <1>1, <1>2, <1>3, <3>1, <4>1 DEF LockstepAt
    <3>2. CASE q # r
      BY <1>1, <1>2, <1>3, <2>1, <3>2 DEF LockstepAt
    <3> QED
      BY <3>1, <3>2
  <2> QED
    BY <1>1, <2>1 DEF LockstepInv
<1>4. CASE /\ c # Damaged
           /\ station' = [station EXCEPT ![r] = Executed(station[r], c, IsRepeated(r, c))]
           /\ base_rx' \in Arrivals(base_rx, p)
  <2> DEFINE n == IF c.kind = "ping" THEN c.arg ELSE station[r].ping_seq_n
             b == ctx[r].ping_seq_n
  <2>1. c \in CommandType /\ c.kind \in Kinds
    BY <1>1, <1>4 DEF CommandType
  <2>2. p \in ResponseType /\ p.source = r /\ p.kind = c.kind /\ (c.kind = "ping" => p.arg = c.arg)
    <3>1. p \in ResponseType
      BY <2>1, ResponseTypes
    <3> QED
      BY <3>1 DEF Response
  <2>3. station'[r].ping_seq_n = n /\ \A q \in Remotes \ {r} : station'[q] = station[q]
    BY <1>4, <2>1 DEF Executed, TypeOK, StationType
  <2>4. base_rx' = base_rx \/ base_rx' = Append(base_rx, p) \/ base_rx' = Append(base_rx, Damaged)
    BY <1>4, ArrivalForms
  <2>5. Damaged \in ResponseType \cup {Damaged} /\ Damaged.kind # "ping"
    BY DEF Damaged
  <2> HIDE DEF p
  <2>6. ASSUME NEW q \in Remotes, q # r, LockstepAt(q)
        PROVE  LockstepAt(q)'
    <3>1. Lockstep(q, ctx[q].ping_seq_n, station[q].ping_seq_n, base_rx', remote_rx[q])
      BY <2>2, <2>4, <2>5, <2>6, LockstepTypes, LockstepOthers DEF LockstepAt
    <3> QED
      BY <1>1, <1>2, <2>3, <2>6, <3>1 DEF LockstepAt
  <2>7. ASSUME LockstepAt(r)
        PROVE  LockstepAt(r)'
    <3> DEFINE A == base_rx
               C == remote_rx[r]
    <3>1. /\ b \in Sequence /\ station[r].ping_seq_n \in Sequence /\ A \in Answers
          /\ C \in Commands /\ Tail(C) \in Commands
      BY <1>1, LockstepTypes DEF Commands
    <3>2. Lockstep(r, b, n, A, Tail(C))
          /\ (c.kind = "ping" => Lockstep(r, b, n, Append(A, p), Tail(C)))
      <4>1. CASE c.kind = "ping"
        BY <1>1, <2>2, <2>7, <3>1, <4>1, LockstepAnswers DEF LockstepAt
      <4>2. CASE c.kind # "ping"
        BY <1>1, <2>7, <3>1, <4>2, LockstepTails DEF LockstepAt
      <4> QED
        BY <4>1, <4>2
    <3> HIDE DEF n
    <3>3. Lockstep(r, b, n, Append(A, Damaged), Tail(C))
      BY <2>5, <3>1, <3>2, LockstepOthers
    <3>4. c.kind # "ping" => Lockstep(r, b, n, Append(A, p), Tail(C))
      BY <2>2, <3>1, <3>2, LockstepOthers
    <3> QED
      BY <1>1, <1>2, <2>3, <2>4, <3>2, <3>3, <3>4 DEF LockstepAt
  <2> QED
    BY <1>1, <2>6, <2>7 DEF LockstepInv
<1> QED
  BY <1>3, <1>4 DEF HandleCommand

LEMMA LockstepStep == TypeOK /\ PendingPings /\ LockstepInv /\ [Next]_vars => PendingPings' /\ LockstepInv'
<1> SUFFICES ASSUME TypeOK, PendingPings, LockstepInv, [Next]_vars
             PROVE  PendingPings' /\ LockstepInv'
  OBVIOUS
<1>1. ASSUME \A r \in Remotes :
               /\ ctx'[r].ping_seq_n = ctx[r].ping_seq_n
               /\ ctx'[r].command = ctx[r].command
               /\ ctx'[r].waiting => ctx[r].waiting
      PROVE  PendingPings'
  BY <1>1 DEF PendingPings, PendingPing
<1>2. ASSUME \A r \in Remotes :
               /\ ctx'[r].ping_seq_n = ctx[r].ping_seq_n
               /\ station'[r].ping_seq_n = station[r].ping_seq_n
               /\ remote_rx'[r] \in {remote_rx[r], <<>>},
             base_rx' \in {base_rx, <<>>}, course \subseteq course'
      PROVE  LockstepInv'
  BY <1>2, LockstepFlushed DEF LockstepInv
<1>3. CASE ConsoleSend \/ PeriodicPing
  <2>1. UNCHANGED <<base_rx, station, course>>
    BY <1>3 DEF ConsoleSend, PeriodicPing
  <2>2. CASE UNCHANGED <<ctx, remote_rx>>
    BY <1>1, <1>2, <2>1, <2>2
  <2> QED
    BY <1>3, <2>1, <2>2, Sends, LockstepSend
<1>4. CASE ConsoleSet \/ ConsoleDone \/ ResponsesDone \/ PingTimer \/ Scan \/ UNCHANGED vars
  <2>1. UNCHANGED <<ctx, station, remote_rx, course>> /\ base_rx' \in {base_rx, <<>>}
    BY <1>4 DEF ConsoleSet, ConsoleDone, ResponsesDone, PingTimer, Scan, vars, baseVars
  <2> QED
    BY <1>1, <1>2, <2>1
<1>5. CASE ResetStatistics \/ TimeOuts
  <2>1. UNCHANGED <<station, remote_rx, course, base_rx>>
    BY <1>5 DEF ResetStatistics, TimeOuts
  <2>2. ASSUME NEW r \in Remotes
        PROVE  /\ ctx'[r].ping_seq_n = ctx[r].ping_seq_n
               /\ ctx'[r].command = ctx[r].command
               /\ ctx'[r].waiting => ctx[r].waiting
    <3>1. CASE ResetStatistics
      <4>1. ctx'[r] = [ctx[r] EXCEPT !.sent = 0, !.acked = 0, !.timeouts = 0, !.owed = Pending(r)]
        BY <3>1 DEF ResetStatistics
      <4> QED
        BY <4>1 DEF TypeOK, ContextType
    <3>2. CASE TimeOuts
      <4>1. ctx'[r] = TimeOut(ctx[r])
        BY <3>2 DEF TimeOuts
      <4> QED
        BY <4>1 DEF TimeOut, TypeOK, ContextType
    <3> QED
      BY <1>5, <3>1, <3>2
  <2> QED
    BY <1>1, <1>2, <2>1, <2>2
<1>6. CASE ProcessResponse
  BY <1>6, LockstepResponse
<1>7. CASE RestartBase
  <2>1. PendingPings'
    BY <1>7 DEF RestartBase, FreshContext, PendingPings, PendingPing
  <2>2. "restarted" \in course'
    BY <1>7 DEF RestartBase
  <2> QED
    BY <2>1, <2>2 DEF LockstepInv
<1>8. ASSUME NEW r \in Remotes, HandleCommand(r)
      PROVE  PendingPings' /\ LockstepInv'
  <2>1. UNCHANGED ctx
    BY <1>8 DEF HandleCommand, baseVars
  <2> QED
    BY <1>1, <1>8, <2>1, LockstepCommand
<1>9. ASSUME NEW r \in Remotes, RangeLedOff(r) \/ RemoteLine(r)
      PROVE  PendingPings' /\ LockstepInv'
  <2>1. UNCHANGED <<ctx, base_rx, course>>
    BY <1>9 DEF RangeLedOff, RemoteLine, baseVars
  <2>2. ASSUME NEW q \in Remotes
        PROVE  station'[q].ping_seq_n = station[q].ping_seq_n
    <3>1. CASE RangeLedOff(r)
      BY <3>1 DEF RangeLedOff, TypeOK, StationType
    <3>2. CASE RemoteLine(r)
      BY <3>2 DEF RemoteLine
    <3> QED
      BY <1>9, <3>1, <3>2
  <2>3. \A q \in Remotes : remote_rx'[q] \in {remote_rx[q], <<>>}
    BY <1>9 DEF RangeLedOff, RemoteLine, TypeOK
  <2> QED
    BY <1>1, <1>2, <2>1, <2>2, <2>3
<1>10. ASSUME NEW r \in Remotes, Expire(r)
       PROVE  PendingPings' /\ LockstepInv'
  <2>1. UNCHANGED <<station, remote_rx, base_rx>> /\ course \subseteq course'
    BY <1>10 DEF Expire
  <2>2. ASSUME NEW q \in Remotes
        PROVE  /\ ctx'[q].ping_seq_n = ctx[q].ping_seq_n
               /\ ctx'[q].command = ctx[q].command
               /\ ctx'[q].waiting => ctx[q].waiting
    BY <1>10 DEF Expire, TypeOK, ContextType
  <2> QED
    BY <1>1, <1>2, <2>1, <2>2
<1>11. ASSUME NEW r \in Remotes, RestartRemote(r)
       PROVE  PendingPings' /\ LockstepInv'
  <2>1. UNCHANGED ctx /\ "restarted" \in course'
    BY <1>11 DEF RestartRemote, baseVars
  <2> QED
    BY <1>1, <2>1 DEF LockstepInv
<1> QED
  BY <1>3, <1>4, <1>5, <1>6, <1>7, <1>8, <1>9, <1>10, <1>11
     DEF Next, BaseLoop, ConsoleLine

\* Until a station restarts, the number a remote has seen last is the one that
\* the base wants to get answered or the one before (main.c:344-376, 448-465).
THEOREM NeverOutOfStep == Spec => []SequenceLockstep
<1> DEFINE Inv == TypeOK /\ PendingPings /\ LockstepInv
<1>1. Init => Inv
  BY InitTypes, LockstepInitially
<1>2. Inv /\ [Next]_vars => Inv'
  BY TypesStep, LockstepStep
<1>3. Inv => SequenceLockstep
  BY DEF LockstepInv, LockstepAt, Lockstep, NumbersRecent, Recent, Following, SequenceLockstep
<1> QED
  BY <1>1, <1>2, <1>3, PTL DEF Spec

-----------------------------------------------------------------------------
\* The exchange.  For a remote r with the base's context d and its own context s,
\* and the FIFOs A of answers and C of its commands.

Open(d) == d.waiting /\ ~d.expired

\* The answer m is one to the pending command and says what is so now.
TellsNow(d, s, m) ==
  /\ m.kind = d.command.kind
  /\ m.kind = "ping" => m.arg = s.ping_seq_n
  /\ m.kind \in {"move", "getstat"} => m.arg = s.move_value
  /\ m.kind = "stop" => s.move_value = 0

\* Either the pending command is under way, or its answer, or neither; and
\* nothing else, nor anything past its deadline.
OneExchange(r, d, s, A, C) ==
  /\ \A i \in DOMAIN C : /\ i = 1 /\ AnswersOf(r, A) = {} /\ Open(d)
                         /\ C[i] \in {d.command, Damaged}
  /\ \A i, j \in AnswersOf(r, A) : i = j /\ Open(d) /\ TellsNow(d, s, A[i])

ExchangeAt(r) == OneExchange(r, ctx[r], station[r], base_rx, remote_rx[r])
ExchangeInv   == "late" \notin course => \A r \in Remotes : ExchangeAt(r)

\* Nothing that the exchange depends on changes.
LEMMA ExchangeSame ==
  ASSUME NEW r, NEW d, NEW s, NEW A, NEW C, OneExchange(r, d, s, A, C), NEW e, NEW t,
         e.waiting = d.waiting, e.expired = d.expired, e.command = d.command,
         t.ping_seq_n = s.ping_seq_n, t.move_value = s.move_value
  PROVE  OneExchange(r, e, t, A, C)
  BY DEF OneExchange, Open, TellsNow

\* The deadline passes, a timeout ends the exchange, or it was not open at all:
\* then nothing is under way, and nothing remains so whatever the contexts say.
LEMMA ExchangeClosed ==
  ASSUME NEW r, NEW d, NEW s, NEW A, NEW C, OneExchange(r, d, s, A, C), ~Open(d)
  PROVE  /\ DOMAIN C = {} /\ AnswersOf(r, A) = {}
         /\ \A e, t : OneExchange(r, e, t, A, C)
  BY DEF OneExchange

\* Either FIFO is flushed.
LEMMA ExchangeFlushed ==
  ASSUME NEW r, NEW d, NEW s, NEW A, NEW C, OneExchange(r, d, s, A, C)
  PROVE  OneExchange(r, d, s, <<>>, C) /\ OneExchange(r, d, s, A, <<>>)
         /\ \A e, t : OneExchange(r, e, t, <<>>, <<>>)
<1>1. DOMAIN <<>> = {}
  OBVIOUS
<1> QED
  BY <1>1 DEF OneExchange, AnswersOf

\* The base takes an answer, whoever it is from.
LEMMA ExchangeTail ==
  ASSUME NEW r, NEW d, NEW s, NEW A \in Answers, NEW C, OneExchange(r, d, s, A, C), A # <<>>
  PROVE  /\ OneExchange(r, d, s, Tail(A), C)
         /\ 1 \in AnswersOf(r, A) => \A e, t : OneExchange(r, e, t, Tail(A), C)
<1> DEFINE T == Tail(A)
<1>1. /\ DOMAIN T = 1 .. Len(A) - 1 /\ DOMAIN A = 1 .. Len(A) /\ Len(A) \in Nat
      /\ \A i \in DOMAIN T : T[i] = A[i + 1]
  BY DEF Answers
<1>2. \A i \in DOMAIN T : i \in Int /\ i + 1 \in DOMAIN A /\ i + 1 # 1
  BY <1>1
<1>3. \A i, j \in DOMAIN T : i + 1 = j + 1 => i = j
  BY <1>1
<1> HIDE DEF T
<1>4. \A i \in AnswersOf(r, T) : i + 1 \in AnswersOf(r, A) /\ T[i] = A[i + 1] /\ i + 1 # 1
  BY <1>1, <1>2 DEF AnswersOf
<1>5. \A i, j \in AnswersOf(r, T) : i = j /\ Open(d) /\ TellsNow(d, s, T[i])
  <2> SUFFICES ASSUME NEW i \in AnswersOf(r, T), NEW j \in AnswersOf(r, T)
               PROVE  i = j /\ Open(d) /\ TellsNow(d, s, T[i])
    OBVIOUS
  <2>1. i + 1 = j + 1 /\ Open(d) /\ TellsNow(d, s, A[i + 1])
    BY <1>4 DEF OneExchange
  <2> QED
    BY <1>3, <1>4, <2>1 DEF AnswersOf
<1>6. AnswersOf(r, A) = {} => AnswersOf(r, T) = {}
  BY <1>4
<1>7. OneExchange(r, d, s, T, C)
  BY <1>5, <1>6 DEF OneExchange
<1>8. ASSUME 1 \in AnswersOf(r, A)
      PROVE  DOMAIN C = {} /\ AnswersOf(r, T) = {}
  BY <1>4, <1>8 DEF OneExchange
<1> QED
  BY <1>7, <1>8 DEF OneExchange, T

\* A packet that is no answer of r joins the answers.
LEMMA ExchangeOthers ==
  ASSUME NEW r, NEW d, NEW s, NEW A \in Answers, NEW C, OneExchange(r, d, s, A, C),
         NEW m, m = Damaged \/ m.source # r
  PROVE  OneExchange(r, d, s, Append(A, m), C)
<1> DEFINE B == Append(A, m)
<1>1. /\ DOMAIN B = 1 .. Len(A) + 1 /\ DOMAIN A = 1 .. Len(A) /\ Len(A) \in Nat
      /\ \A i \in DOMAIN A : B[i] = A[i]
      /\ B[Len(A) + 1] = m
  BY DEF Answers
<1>2. \A i \in DOMAIN B : i \in DOMAIN A \/ i = Len(A) + 1
  BY <1>1
<1> HIDE DEF B
<1>3. \A i \in AnswersOf(r, B) : i \in AnswersOf(r, A) /\ B[i] = A[i]
  BY <1>1, <1>2 DEF AnswersOf
<1>4. AnswersOf(r, A) = {} => AnswersOf(r, B) = {}
  BY <1>3
<1> QED
  BY <1>3, <1>4 DEF B, OneExchange

\* The first answer of r joins the answers, when no command is left.
LEMMA ExchangeAnswer ==
  ASSUME NEW r, NEW d, NEW s, NEW A \in Answers, AnswersOf(r, A) = {}, Open(d),
         NEW m, TellsNow(d, s, m)
  PROVE  OneExchange(r, d, s, Append(A, m), <<>>)
<1> DEFINE B == Append(A, m)
<1>1. /\ DOMAIN B = 1 .. Len(A) + 1 /\ DOMAIN A = 1 .. Len(A) /\ Len(A) \in Nat
      /\ \A i \in DOMAIN A : B[i] = A[i]
      /\ B[Len(A) + 1] = m
  BY DEF Answers
<1>2. \A i \in DOMAIN B : i \in DOMAIN A \/ i = Len(A) + 1
  BY <1>1
<1> HIDE DEF B
<1>3. \A i \in AnswersOf(r, B) : i = Len(A) + 1 /\ B[i] = m
  BY <1>1, <1>2 DEF AnswersOf
<1>4. DOMAIN <<>> = {}
  OBVIOUS
<1> QED
  BY <1>3, <1>4 DEF B, OneExchange

LEMMA ShortSequences ==
  ASSUME NEW S, NEW q \in Seq(S), \A i \in DOMAIN q : i = 1
  PROVE  /\ DOMAIN q = {} => q = <<>>
         /\ q # <<>> => Tail(q) = <<>>
<1>1. Len(q) \in Nat /\ DOMAIN q = 1 .. Len(q)
  OBVIOUS
<1>2. Len(q) <= 1
  <2>1. CASE Len(q) >= 2
    <3>1. 2 \in DOMAIN q
      BY <1>1, <2>1
    <3> QED
      BY <3>1
  <2> QED
    BY <1>1, <2>1
<1>3. DOMAIN q = {} => Len(q) = 0
  BY <1>1
<1>4. q # <<>> => Tail(q) \in Seq(S) /\ Len(Tail(q)) = 0
  BY <1>1, <1>2, EmptySeq
<1> QED
  BY <1>3, <1>4, EmptySeq

LEMMA ExchangeInitially == Init => ExchangeInv
<1> SUFFICES ASSUME Init, NEW r \in Remotes PROVE ExchangeAt(r)
  BY DEF ExchangeInv
<1>1. base_rx = <<>> /\ remote_rx[r] = <<>>
  BY DEF Init, BaseInit
<1>2. DOMAIN <<>> = {}
  OBVIOUS
<1> QED
  BY <1>1, <1>2 DEF ExchangeAt, OneExchange, AnswersOf

\* A command is only sent when nothing of the exchange before is left.
LEMMA ExchangeSend ==
  ASSUME TypeOK, ExchangeInv, NEW r \in Remotes, NEW kind \in Kinds,
         NEW arg \in Argument(kind), SendCommand(r, kind, arg),
         UNCHANGED <<base_rx, station, course>>
  PROVE  ExchangeInv'
<1>1. CASE UNCHANGED <<ctx, remote_rx>>
  BY <1>1 DEF ExchangeInv, ExchangeAt
<1>2. CASE ~ctx[r].waiting /\ ~UNCHANGED <<ctx, remote_rx>>
  <2> DEFINE c == Command(kind, arg)
             d == [ctx[r] EXCEPT !.command = c, !.waiting = TRUE,
                                 !.expired = FALSE, !.sent = More(@)]
  <2>1. ctx' = [ctx EXCEPT ![r] = d]
    BY <1>2 DEF SendCommand
  <2>2. d.command = c /\ Open(d)
    BY DEF TypeOK, ContextType, Open
  <2>3. PICK f \in Arrivals(remote_rx[r], c) : remote_rx' = [remote_rx EXCEPT ![r] = f]
    BY <1>2 DEF SendCommand
  <2> HIDE DEF c, d
  <2>4. /\ ctx'[r] = d /\ remote_rx'[r] = f
        /\ \A q \in Remotes \ {r} : ctx'[q] = ctx[q] /\ remote_rx'[q] = remote_rx[q]
    BY <2>1, <2>3 DEF TypeOK
  <2>5. ASSUME ExchangeAt(r)
        PROVE  ExchangeAt(r)'
    <3>1. ~Open(ctx[r])
      BY <1>2 DEF Open
    <3>2. DOMAIN remote_rx[r] = {} /\ AnswersOf(r, base_rx) = {}
      BY <2>5, <3>1, ExchangeClosed DEF ExchangeAt
    <3>3. remote_rx[r] = <<>>
      <4>1. remote_rx[r] \in Seq(CommandType \cup {Damaged})
        BY DEF TypeOK
      <4> QED
        BY <3>2, <4>1, ShortSequences
    <3>4. f = <<>> \/ f = <<c>> \/ f = <<Damaged>>
      <4>1. Append(<<>>, c) = <<c>> /\ Append(<<>>, Damaged) = <<Damaged>>
        OBVIOUS
      <4> QED
        BY <2>3, <3>3, <4>1, ArrivalForms
    <3>5. \A i \in DOMAIN f : i = 1 /\ f[i] \in {c, Damaged}
      BY <3>4
    <3>6. OneExchange(r, d, station[r], base_rx, f)
      BY <2>2, <3>2, <3>5 DEF OneExchange
    <3> QED
      BY <2>4, <3>6 DEF ExchangeAt
  <2>6. ASSUME NEW q \in Remotes, q # r, ExchangeAt(q)
        PROVE  ExchangeAt(q)'
    BY <2>4, <2>6 DEF ExchangeAt
  <2> QED
    BY <2>5, <2>6 DEF ExchangeInv
<1> QED
  BY <1>1, <1>2 DEF SendCommand

\* Accepting the answer leaves nothing of the exchange; an answer that is not
\* accepted goes.
LEMMA ExchangeResponse ==
  ASSUME TypeOK, ExchangeInv, ProcessResponse
  PROVE  ExchangeInv'
<1> DEFINE p == Head(base_rx)
<1>1. /\ base_rx # <<>> /\ base_rx' = Tail(base_rx) /\ p \in ResponseType \cup {Damaged}
      /\ p = base_rx[1] /\ 1 \in DOMAIN base_rx
      /\ UNCHANGED <<station, remote_rx, course>>
  BY DEF ProcessResponse, TypeOK
<1>2. base_rx \in Answers
  BY DEF TypeOK, Answers
<1>3. ASSUME NEW r \in Remotes, ExchangeAt(r),
             ctx'[r] = ctx[r] \/ 1 \in AnswersOf(r, base_rx)
      PROVE  ExchangeAt(r)'
  <2>1. OneExchange(r, ctx'[r], station[r], Tail(base_rx), remote_rx[r])
    BY <1>1, <1>2, <1>3, ExchangeTail DEF ExchangeAt
  <2> QED
    BY <1>1, <2>1 DEF ExchangeAt
<1>4. ASSUME NEW r \in Remotes, ctx'[r] # ctx[r]
      PROVE  1 \in AnswersOf(r, base_rx)
  <2>1. /\ p # Damaged /\ p.source \in Remotes
        /\ ctx' = [ctx EXCEPT ![p.source] = Accepted(ctx[p.source], p)]
    BY <1>1, <1>4 DEF ProcessResponse, ResponseType
  <2>2. p.source = r
    BY <1>4, <2>1 DEF TypeOK
  <2> QED
    BY <1>1, <2>1, <2>2 DEF AnswersOf
<1> QED
  BY <1>1, <1>3, <1>4 DEF ExchangeInv

\* A remote that executes the pending command answers with what is so then.
LEMMA ExchangeCommand ==
  ASSUME TypeOK, ExchangeInv, NEW r \in Remotes, HandleCommand(r)
  PROVE  ExchangeInv'
<1> DEFINE c == Head(remote_rx[r])
           p == Response(r, c)
<1>1. /\ remote_rx[r] # <<>> /\ remote_rx' = [remote_rx EXCEPT ![r] = Tail(remote_rx[r])]
      /\ remote_rx[r] \in Seq(CommandType \cup {Damaged})
      /\ c \in CommandType \cup {Damaged} /\ c = remote_rx[r][1] /\ 1 \in DOMAIN remote_rx[r]
      /\ UNCHANGED <<ctx, course>>
  BY DEF HandleCommand, TypeOK, baseVars
<1>2. /\ remote_rx'[r] = Tail(remote_rx[r])
      /\ \A q \in Remotes \ {r} : remote_rx'[q] = remote_rx[q]
  BY <1>1 DEF TypeOK
<1>3. base_rx \in Answers
  BY DEF TypeOK, Answers
<1>4. ASSUME ExchangeAt(r)
      PROVE  /\ Tail(remote_rx[r]) = <<>> /\ AnswersOf(r, base_rx) = {}
             /\ Open(ctx[r]) /\ c \in {ctx[r].command, Damaged}
  <2>1. \A i \in DOMAIN remote_rx[r] : i = 1
    BY <1>4 DEF ExchangeAt, OneExchange
  <2>2. Tail(remote_rx[r]) = <<>>
    BY <1>1, <2>1, ShortSequences
  <2> QED
    BY <1>1, <1>4, <2>2 DEF ExchangeAt, OneExchange
<1>5. CASE c = Damaged /\ UNCHANGED <<station, base_rx>>
  <2>1. ASSUME ExchangeAt(r)
        PROVE  ExchangeAt(r)'
    <3>1. OneExchange(r, ctx[r], station[r], base_rx, <<>>)
      BY <2>1, ExchangeFlushed DEF ExchangeAt
    <3> QED
      BY <1>1, <1>2, <1>4, <1>5, <2>1, <3>1 DEF ExchangeAt
  <2>2. ASSUME NEW q \in Remotes, q # r, ExchangeAt(q)
        PROVE  ExchangeAt(q)'
    BY <1>1, <1>2, <1>5, <2>2 DEF ExchangeAt
  <2> QED
    BY <1>1, <2>1, <2>2 DEF ExchangeInv
<1>6. CASE /\ c # Damaged
           /\ station' = [station EXCEPT ![r] = Executed(station[r], c, IsRepeated(r, c))]
           /\ base_rx' \in Arrivals(base_rx, p)
  <2> DEFINE s == Executed(station[r], c, IsRepeated(r, c))
  <2>1. c \in CommandType /\ c.kind \in Kinds
    BY <1>1, <1>6 DEF CommandType
  <2>2. p.source = r /\ p.kind = c.kind
        /\ p.arg = IF c.kind = "getstat" THEN station[r].move_value ELSE c.arg
    BY DEF Response
  <2>3. /\ c.kind = "ping" => s.ping_seq_n = c.arg
        /\ c.kind = "move" => s.move_value = c.arg
        /\ c.kind = "stop" => s.move_value = 0
        /\ c.kind = "getstat" => s.move_value = station[r].move_value
    BY DEF Executed, TypeOK, StationType
  <2> HIDE DEF s, p, c
  <2>4. station'[r] = s /\ \A q \in Remotes \ {r} : station'[q] = station[q]
    BY <1>6 DEF TypeOK, s
  <2>5. base_rx' = base_rx \/ base_rx' = Append(base_rx, p) \/ base_rx' = Append(base_rx, Damaged)
    BY <1>6, ArrivalForms
  <2>6. ASSUME ExchangeAt(r)
        PROVE  ExchangeAt(r)'
    <3>1. TellsNow(ctx[r], s, p)
      BY <1>4, <1>6, <2>2, <2>3, <2>6 DEF TellsNow
    <3>2. OneExchange(r, ctx[r], s, base_rx, <<>>)
      <4>1. DOMAIN <<>> = {}
        OBVIOUS
      <4> QED
        BY <1>4, <2>6, <4>1 DEF OneExchange
    <3>3. OneExchange(r, ctx[r], s, Append(base_rx, Damaged), <<>>)
      BY <1>3, <3>2, ExchangeOthers
    <3>4. OneExchange(r, ctx[r], s, Append(base_rx, p), <<>>)
      BY <1>3, <1>4, <2>6, <3>1, ExchangeAnswer
    <3> QED
      BY <1>1, <1>2, <1>4, <2>4, <2>5, <2>6, <3>2, <3>3, <3>4 DEF ExchangeAt
  <2>7. ASSUME NEW q \in Remotes, q # r, ExchangeAt(q)
        PROVE  ExchangeAt(q)'
    <3>1. OneExchange(q, ctx[q], station[q], base_rx', remote_rx[q])
      BY <1>3, <2>2, <2>5, <2>7, ExchangeOthers DEF ExchangeAt
    <3> QED
      BY <1>1, <1>2, <2>4, <2>7, <3>1 DEF ExchangeAt
  <2> QED
    BY <1>1, <2>6, <2>7 DEF ExchangeInv
<1> QED
  BY <1>5, <1>6 DEF HandleCommand

LEMMA ExchangeStep == TypeOK /\ ExchangeInv /\ [Next]_vars => ExchangeInv'
<1> SUFFICES ASSUME TypeOK, ExchangeInv, [Next]_vars
             PROVE  ExchangeInv'
  OBVIOUS
<1>1. CASE ConsoleSend \/ PeriodicPing
  <2>1. UNCHANGED <<base_rx, station, course>>
    BY <1>1 DEF ConsoleSend, PeriodicPing
  <2>2. CASE UNCHANGED <<ctx, remote_rx>>
    BY <2>1, <2>2 DEF ExchangeInv, ExchangeAt
  <2> QED
    BY <1>1, <2>1, <2>2, Sends, ExchangeSend
<1>2. CASE ConsoleSet \/ ConsoleDone \/ ResponsesDone \/ PingTimer \/ UNCHANGED vars
  <2>1. UNCHANGED <<ctx, station, remote_rx, course, base_rx>>
    BY <1>2 DEF ConsoleSet, ConsoleDone, ResponsesDone, PingTimer, vars, baseVars
  <2> QED
    BY <2>1 DEF ExchangeInv, ExchangeAt
<1>3. CASE Scan
  BY <1>3, ExchangeFlushed DEF Scan, baseVars, ExchangeInv, ExchangeAt
<1>4. CASE ResetStatistics
  <2>1. UNCHANGED <<station, remote_rx, course, base_rx>>
    BY <1>4 DEF ResetStatistics
  <2>2. ASSUME NEW r \in Remotes
        PROVE  /\ ctx'[r].waiting = ctx[r].waiting /\ ctx'[r].expired = ctx[r].expired
               /\ ctx'[r].command = ctx[r].command
    <3>1. ctx'[r] = [ctx[r] EXCEPT !.sent = 0, !.acked = 0, !.timeouts = 0, !.owed = Pending(r)]
      BY <1>4 DEF ResetStatistics
    <3> QED
      BY <3>1 DEF TypeOK, ContextType
  <2> QED
    BY <2>1, <2>2, ExchangeSame DEF ExchangeInv, ExchangeAt
<1>5. CASE TimeOuts
  <2>1. UNCHANGED <<station, remote_rx, course, base_rx>>
    BY <1>5 DEF TimeOuts
  <2>2. ASSUME NEW r \in Remotes, Open(ctx[r])
        PROVE  ctx'[r] = ctx[r]
    BY <1>5, <2>2 DEF TimeOuts, TimeOut, Open
  <2> QED
    BY <2>1, <2>2, ExchangeClosed DEF ExchangeInv, ExchangeAt
<1>6. CASE ProcessResponse
  BY <1>6, ExchangeResponse
<1>7. CASE RestartBase
  <2>1. "late" \notin course' => \A r \in Remotes : Quiet(r)
    BY <1>7 DEF RestartBase
  <2>2. course \subseteq course' /\ base_rx' = <<>> /\ UNCHANGED <<station, remote_rx>>
    BY <1>7 DEF RestartBase
  <2> QED
    BY <2>1, <2>2, ExchangeFlushed DEF ExchangeInv, ExchangeAt, Quiet
<1>8. ASSUME NEW r \in Remotes, HandleCommand(r)
      PROVE  ExchangeInv'
  BY <1>8, ExchangeCommand
<1>9. ASSUME NEW r \in Remotes, RangeLedOff(r) \/ RemoteLine(r)
      PROVE  ExchangeInv'
  <2>1. UNCHANGED <<ctx, base_rx, course>>
    BY <1>9 DEF RangeLedOff, RemoteLine, baseVars
  <2>2. CASE RangeLedOff(r)
    <3>1. UNCHANGED remote_rx
      BY <2>2 DEF RangeLedOff
    <3>2. \A q \in Remotes : /\ station'[q].ping_seq_n = station[q].ping_seq_n
                             /\ station'[q].move_value = station[q].move_value
      BY <2>2 DEF RangeLedOff, TypeOK, StationType
    <3> QED
      BY <2>1, <3>1, <3>2, ExchangeSame DEF ExchangeInv, ExchangeAt
  <2>3. CASE UNCHANGED station /\ remote_rx' = [remote_rx EXCEPT ![r] = <<>>]
    <3>1. \A q \in Remotes : remote_rx'[q] \in {remote_rx[q], <<>>}
      BY <2>3 DEF TypeOK
    <3> QED
      BY <2>1, <2>3, <3>1, ExchangeFlushed DEF ExchangeInv, ExchangeAt
  <2> QED
    BY <1>9, <2>2, <2>3 DEF RemoteLine
<1>10. ASSUME NEW r \in Remotes, Expire(r)
       PROVE  ExchangeInv'
  <2>1. /\ UNCHANGED <<station, remote_rx, base_rx>> /\ course \subseteq course'
        /\ "late" \notin course' => Quiet(r)
    BY <1>10 DEF Expire
  <2>2. \A q \in Remotes \ {r} : ctx'[q] = ctx[q]
    BY <1>10 DEF Expire, TypeOK
  <2>3. ASSUME Quiet(r), ExchangeAt(r)
        PROVE  ExchangeAt(r)'
    BY <2>1, <2>3, ExchangeFlushed DEF Quiet, ExchangeAt
  <2>4. ASSUME NEW q \in Remotes, q # r, ExchangeAt(q)
        PROVE  ExchangeAt(q)'
    BY <2>1, <2>2, <2>4 DEF ExchangeAt
  <2> QED
    BY <2>1, <2>3, <2>4 DEF ExchangeInv
<1>11. ASSUME NEW r \in Remotes, RestartRemote(r)
       PROVE  ExchangeInv'
  <2>1. /\ UNCHANGED <<ctx, base_rx>> /\ course \subseteq course'
        /\ "late" \notin course' => base_rx = <<>>
    BY <1>11 DEF RestartRemote, baseVars
  <2>2. /\ remote_rx'[r] = <<>>
        /\ \A q \in Remotes \ {r} : remote_rx'[q] = remote_rx[q] /\ station'[q] = station[q]
    BY <1>11 DEF RestartRemote, TypeOK
  <2>3. ASSUME base_rx = <<>>, ExchangeAt(r)
        PROVE  ExchangeAt(r)'
    BY <2>1, <2>2, <2>3, ExchangeFlushed DEF ExchangeAt
  <2>4. ASSUME NEW q \in Remotes, q # r, ExchangeAt(q)
        PROVE  ExchangeAt(q)'
    BY <2>1, <2>2, <2>4 DEF ExchangeAt
  <2> QED
    BY <2>1, <2>3, <2>4 DEF ExchangeInv
<1> QED
  BY <1>1, <1>2, <1>3, <1>4, <1>5, <1>6, <1>7, <1>8, <1>9, <1>10, <1>11
     DEF Next, BaseLoop, ConsoleLine

-----------------------------------------------------------------------------
\* What an accepted answer says

\* Only process_base_responses() accepts an answer: the oldest, when it is one
\* to the pending command.
LEMMA AnswerAccepted ==
  ASSUME TypeOK, [Next]_vars, NEW r \in Remotes, Answered(r)
  PROVE  /\ 1 \in AnswersOf(r, base_rx) /\ Matches(base_rx[1])
         /\ base_rx[1] \in ResponseType
         /\ ctx'[r] = Accepted(ctx[r], base_rx[1])
<1>1. pc = "responses" /\ pc' = "responses" /\ ctx'[r].waiting # ctx[r].waiting
  BY DEF Answered
<1>2. CASE ConsoleLine \/ PeriodicPing \/ RestartBase \/ TimeOuts
  BY <1>1, <1>2 DEF ConsoleLine, PeriodicPing, RestartBase, TimeOuts
<1>3. CASE ConsoleDone \/ ResponsesDone \/ PingTimer \/ UNCHANGED vars
  BY <1>1, <1>3 DEF ConsoleDone, ResponsesDone, PingTimer, vars, baseVars
<1>4. ASSUME NEW q \in Remotes, HandleCommand(q) \/ RangeLedOff(q) \/ RemoteLine(q)
                                  \/ RestartRemote(q)
      PROVE  FALSE
  BY <1>1, <1>4 DEF HandleCommand, RangeLedOff, RemoteLine, RestartRemote, baseVars
<1>5. ASSUME NEW q \in Remotes, Expire(q)
      PROVE  FALSE
  <2>1. ctx'[r].waiting = ctx[r].waiting
    BY <1>5 DEF Expire, TypeOK, ContextType
  <2> QED
    BY <1>1, <2>1
<1>6. CASE ProcessResponse
  <2> DEFINE p == base_rx[1]
  <2>1. /\ p = Head(base_rx) /\ 1 \in DOMAIN base_rx
        /\ p \in ResponseType \cup {Damaged}
    BY <1>6 DEF ProcessResponse, TypeOK
  <2> HIDE DEF p
  <2>2. /\ p # Damaged /\ Matches(p)
        /\ ctx' = [ctx EXCEPT ![p.source] = Accepted(ctx[p.source], p)]
    BY <1>1, <1>6, <2>1 DEF ProcessResponse
  <2>3. p \in ResponseType /\ p.source \in Remotes
    BY <2>1, <2>2 DEF ResponseType
  <2>4. p.source = r
    BY <1>1, <2>2, <2>3 DEF TypeOK
  <2> QED
    BY <2>1, <2>2, <2>3, <2>4 DEF p, AnswersOf, TypeOK
<1> QED
  BY <1>2, <1>3, <1>4, <1>5, <1>6 DEF Next, BaseLoop

\* Without a late exchange the accepted answer is the one to the pending command,
\* and tells what is so now.
LEMMA AnswerTells ==
  ASSUME TypeOK, ExchangeInv, [Next]_vars, NEW r \in Remotes, Answered(r), "late" \notin course
  PROVE  TellsNow(ctx[r], station[r], base_rx[1])
<1>1. 1 \in AnswersOf(r, base_rx)
  BY AnswerAccepted
<1>2. OneExchange(r, ctx[r], station[r], base_rx, remote_rx[r])
  BY DEF ExchangeInv, ExchangeAt
<1> QED
  BY <1>1, <1>2 DEF OneExchange

\* One answered ping after restarts brings base and remote together again
\* (main.c:824-826 with 332-376 and 447-465).
THEOREM PingRegainsLockstep == Spec => LockstepRegained
<1> DEFINE Inv == TypeOK /\ PendingPings /\ LockstepInv /\ ExchangeInv
<1>1. Init => Inv
  BY InitTypes, LockstepInitially, ExchangeInitially
<1>2. Inv /\ [Next]_vars => Inv'
  BY TypesStep, LockstepStep, ExchangeStep
<1>3. ASSUME TypeOK, PendingPings, ExchangeInv, [Next]_vars, NEW r \in Remotes,
             Answered(r), "late" \notin course, ctx[r].command.kind = "ping"
      PROVE  ctx'[r].ping_seq_n = (station[r].ping_seq_n + 1) % SEQ_MOD
  <2> DEFINE p == base_rx[1]
  <2>1. /\ p.kind = "ping" /\ p.arg = station[r].ping_seq_n
        /\ p.source = r /\ Matches(p)
    BY <1>3, AnswerTells, AnswerAccepted DEF TellsNow, AnswersOf
  <2>2. p.arg = ctx[r].ping_seq_n
    BY <1>3, <2>1 DEF Matches, PendingPings, PendingPing
  <2>3. ctx'[r] = Accepted(ctx[r], p)
    BY <1>3, AnswerAccepted
  <2> HIDE DEF p
  <2>4. Accepted(ctx[r], p).ping_seq_n = (ctx[r].ping_seq_n + 1) % SEQ_MOD
    <3>1. ctx[r] \in ContextType
      BY <1>3 DEF TypeOK
    <3> QED
      BY <2>1, <3>1 DEF Accepted, ContextType
  <2> QED
    BY <2>1, <2>2, <2>3, <2>4
<1>4. Inv /\ [Next]_vars
      => [\A r \in Remotes :
            Answered(r) /\ "late" \notin course /\ ctx[r].command.kind = "ping"
            => ctx'[r].ping_seq_n = (station[r].ping_seq_n + 1) % SEQ_MOD]_vars
  BY <1>3
<1> QED
  BY <1>1, <1>2, <1>4, PTL DEF Spec, LockstepRegained

\* The movement that an accepted answer reports is the remote's present one
\* (main.c:332-376 with 466-475).
THEOREM AnswersTellTheMovement == Spec => AnswerIsCurrent
<1> DEFINE Inv == TypeOK /\ ExchangeInv
<1>1. Init => Inv
  BY InitTypes, ExchangeInitially
<1>2. Inv /\ [Next]_vars => Inv'
  BY TypesStep, ExchangeStep
<1>3. ASSUME TypeOK, ExchangeInv, [Next]_vars, NEW r \in Remotes, Answered(r),
             "late" \notin course, ctx[r].command.kind \in {"move", "stop", "getstat"}
      PROVE  ctx'[r].move_value = station[r].move_value
  <2> DEFINE p == base_rx[1]
  <2>1. TellsNow(ctx[r], station[r], p) /\ ctx'[r] = Accepted(ctx[r], p)
    BY <1>3, AnswerTells, AnswerAccepted
  <2> HIDE DEF p
  <2>2. ctx'[r].move_value = IF p.kind \in {"move", "getstat"} THEN p.arg ELSE 0
    BY <1>3, <2>1 DEF TellsNow, Accepted, TypeOK, ContextType
  <2> QED
    BY <1>3, <2>1, <2>2 DEF TellsNow
<1>4. Inv /\ [Next]_vars
      => [\A r \in Remotes :
            Answered(r) /\ "late" \notin course
              /\ ctx[r].command.kind \in {"move", "stop", "getstat"}
            => ctx'[r].move_value = station[r].move_value]_vars
  BY <1>3
<1> QED
  BY <1>1, <1>2, <1>4, PTL DEF Spec, AnswerIsCurrent
-----------------------------------------------------------------------------
\* The link implements V1Exchange

ExchangeStuttersOrMoves == Exchange!Next \/ UNCHANGED Exchange!exchangeVars

\* What V1Exchange sees of a context and of a station, its packets aside.
SameNumbers(q) ==
  /\ ctx'[q].ping_seq_n = ctx[q].ping_seq_n /\ ctx'[q].move_value = ctx[q].move_value
  /\ station'[q].ping_seq_n = station[q].ping_seq_n
  /\ station'[q].move_value = station[q].move_value

LEMMA SeenSame ==
  ASSUME course' = course, \A q \in Remotes : SameNumbers(q) /\ Asked(q)' = Asked(q) /\ Packet(q)' = Packet(q)
  PROVE  UNCHANGED Exchange!exchangeVars
  BY DEF Exchange!exchangeVars, SameNumbers

\* What is under way to or from one remote changes.
LEMMA PacketBecomes ==
  ASSUME NEW r \in Remotes, NEW p, course' = course,
         \A q \in Remotes \ {r} : Packet(q)' = Packet(q),
         "late" \notin course => Packet(r)' = p
  PROVE  Exchange!Becomes(r, p)
<1>1. CASE "late" \in course
  <2>1. \A q \in Remotes : Packet(q)' = Packet(q)
    BY <1>1 DEF Packet
  <2> QED
    BY <1>1, <2>1 DEF Exchange!Becomes, Exchange!Late
<1>2. CASE "late" \notin course
  <2>1. [q \in Remotes |-> Packet(q)]' = [[q \in Remotes |-> Packet(q)] EXCEPT ![r] = p]
    BY <1>2
  <2> QED
    BY <1>2, <2>1 DEF Exchange!Becomes, Exchange!Late
<1> QED
  BY <1>1, <1>2

\* While nothing has gone astray the packets are those of one exchange.
LEMMA PacketForms ==
  ASSUME ExchangeInv, NEW r \in Remotes, "late" \notin course
  PROVE  /\ Packet(r) = "answer" <=> AnswersOf(r, base_rx) # {}
         /\ Intact(remote_rx[r]) # {} => Packet(r) = "command"
         /\ ~Open(ctx[r]) => Packet(r) = "none"
         /\ AnswersOf(r, base_rx) # {} => DOMAIN remote_rx[r] = {}
         /\ AnswersOf(r, base_rx) = {} => Packet(r) \in {"command", "none"}
         /\ Packet(r) \in {"command", "answer", "none"}
<1>1. OneExchange(r, ctx[r], station[r], base_rx, remote_rx[r])
  BY DEF ExchangeInv, ExchangeAt
<1>2. AnswersOf(r, base_rx) # {} => DOMAIN remote_rx[r] = {}
  BY <1>1 DEF OneExchange
<1>3. Intact(remote_rx[r]) # {} => AnswersOf(r, base_rx) = {}
  BY <1>2 DEF Intact
<1>4. ~Open(ctx[r]) => DOMAIN remote_rx[r] = {} /\ AnswersOf(r, base_rx) = {}
  BY <1>1, ExchangeClosed
<1>5. ~Open(ctx[r]) => Intact(remote_rx[r]) = {}
  BY <1>4 DEF Intact
<1> QED
  BY <1>2, <1>3, <1>4, <1>5 DEF Packet

LEMMA AnswersTail ==
  ASSUME NEW r, NEW A \in Answers, A # <<>>, 1 \notin AnswersOf(r, A)
  PROVE  AnswersOf(r, Tail(A)) = {} <=> AnswersOf(r, A) = {}
<1> DEFINE T == Tail(A)
<1>1. /\ DOMAIN T = 1 .. Len(A) - 1 /\ DOMAIN A = 1 .. Len(A) /\ Len(A) \in Nat
      /\ \A i \in DOMAIN T : T[i] = A[i + 1]
  BY DEF Answers
<1>2. \A i \in DOMAIN T : i \in Int /\ i + 1 \in DOMAIN A
  BY <1>1
<1>3. \A i \in DOMAIN A : i # 1 => i - 1 \in DOMAIN T /\ (i - 1) + 1 = i
  BY <1>1
<1> HIDE DEF T
<1>4. \A i \in AnswersOf(r, T) : i + 1 \in AnswersOf(r, A)
  BY <1>1, <1>2 DEF AnswersOf
<1>5. \A i \in AnswersOf(r, A) : i - 1 \in AnswersOf(r, T)
  <2> SUFFICES ASSUME NEW i \in AnswersOf(r, A)
               PROVE  i - 1 \in AnswersOf(r, T)
    OBVIOUS
  <2>1. i \in DOMAIN A /\ i # 1 /\ A[i] # Damaged /\ A[i].source = r
    BY DEF AnswersOf
  <2>2. i - 1 \in DOMAIN T /\ T[i - 1] = A[i]
    BY <1>1, <1>3, <2>1
  <2> QED
    BY <2>1, <2>2 DEF AnswersOf
<1> QED
  BY <1>4, <1>5 DEF T

LEMMA AnswersAppend ==
  ASSUME NEW r, NEW A \in Answers, NEW m, m = Damaged \/ m.source # r
  PROVE  AnswersOf(r, Append(A, m)) = {} <=> AnswersOf(r, A) = {}
<1> DEFINE B == Append(A, m)
<1>1. /\ DOMAIN B = 1 .. Len(A) + 1 /\ DOMAIN A = 1 .. Len(A) /\ Len(A) \in Nat
      /\ \A i \in DOMAIN A : B[i] = A[i] /\ i \in DOMAIN B
      /\ B[Len(A) + 1] = m
  BY DEF Answers
<1>2. \A i \in DOMAIN B : i \in DOMAIN A \/ i = Len(A) + 1
  BY <1>1
<1> HIDE DEF B
<1>3. AnswersOf(r, B) = AnswersOf(r, A)
  BY <1>1, <1>2 DEF AnswersOf
<1> QED
  BY <1>3 DEF B

\* Commands are requests.
LEMMA RequestForms ==
  ASSUME NEW c \in CommandType
  PROVE  c \in Exchange!Requests /\ c # NoCommand /\ c.kind # "none"
<1>1. c \in [kind : Kinds, arg : Int] /\ c.arg \in Argument(c.kind)
  BY DEF CommandType
<1>2. CASE c.kind = "ping"
  <2>1. c \in [kind : {"ping"}, arg : Sequence]
    BY <1>1, <1>2 DEF Argument
  <2> QED
    BY <1>2, <2>1 DEF Exchange!Requests, Exchange!Numbers, Sequence, NoCommand, Command
<1>3. CASE c.kind = "move"
  <2>1. c \in [kind : {"move"}, arg : MoveValues]
    BY <1>1, <1>3 DEF Argument
  <2> QED
    BY <1>3, <2>1 DEF Exchange!Requests, NoCommand, Command
<1>4. CASE c.kind \in {"stop", "getstat", "getver"}
  <2>1. c \in [kind : {"stop", "getstat", "getver"}, arg : {0}]
    BY <1>1, <1>4 DEF Argument
  <2> QED
    BY <1>4, <2>1 DEF Exchange!Requests, NoCommand, Command
<1> QED
  BY <1>1, <1>2, <1>3, <1>4 DEF Kinds

LEMMA ExchangeStarts == Init => Exchange!Init
<1> SUFFICES ASSUME Init PROVE Exchange!Init
  OBVIOUS
<1>1. /\ \A r \in Remotes : ctx[r] = FreshContext /\ station[r] = FreshStation
      /\ base_rx = <<>> /\ \A r \in Remotes : remote_rx[r] = <<>>
      /\ course = {}
  BY DEF Init, BaseInit
<1>2. DOMAIN <<>> = {}
  OBVIOUS
<1>3. \A r \in Remotes : Packet(r) = "none"
  BY <1>1, <1>2 DEF Packet, AnswersOf, Intact
<1>4. /\ FreshContext.waiting = FALSE /\ FreshContext.ping_seq_n = 0
      /\ FreshContext.move_value = 0
      /\ FreshStation.ping_seq_n = SEQ_MOD - 1 /\ FreshStation.move_value = 0
  BY DEF FreshContext, FreshStation
<1>5. \A r \in Remotes : /\ Asked(r) = NoCommand
                         /\ ctx[r].ping_seq_n = 0 /\ ctx[r].move_value = 0
                         /\ station[r].ping_seq_n = SEQ_MOD - 1 /\ station[r].move_value = 0
  BY <1>1, <1>4 DEF Asked
<1> QED
  BY <1>1, <1>3, <1>5 DEF Exchange!Init, Exchange!Everywhere, Exchange!Nothing, NoCommand, Command

\* send_command() asks, or does nothing.
LEMMA SendAsks ==
  ASSUME TypeOK, ExchangeInv, NEW r \in Remotes, NEW kind \in Kinds,
         NEW arg \in Argument(kind), SendCommand(r, kind, arg),
         kind = "ping" => arg = ctx[r].ping_seq_n,
         UNCHANGED <<base_rx, station, course>>
  PROVE  ExchangeStuttersOrMoves
<1>1. CASE UNCHANGED <<ctx, remote_rx>>
  <2>1. \A q \in Remotes : SameNumbers(q) /\ Asked(q)' = Asked(q) /\ Packet(q)' = Packet(q)
    BY <1>1 DEF SameNumbers, Asked, Packet
  <2> QED
    BY <2>1, SeenSame DEF ExchangeStuttersOrMoves
<1>2. CASE ~ctx[r].waiting /\ ~UNCHANGED <<ctx, remote_rx>>
  <2> DEFINE c == Command(kind, arg)
             d == [ctx[r] EXCEPT !.command = c, !.waiting = TRUE,
                                 !.expired = FALSE, !.sent = More(@)]
  <2>1. ctx' = [ctx EXCEPT ![r] = d]
    BY <1>2 DEF SendCommand
  <2>2. /\ d.command = c /\ d.waiting = TRUE
        /\ d.ping_seq_n = ctx[r].ping_seq_n /\ d.move_value = ctx[r].move_value
    BY DEF TypeOK, ContextType
  <2>3. PICK f \in Arrivals(remote_rx[r], c) : remote_rx' = [remote_rx EXCEPT ![r] = f]
    BY <1>2 DEF SendCommand
  <2>4. c \in CommandType /\ c.kind = kind /\ c.arg = arg
    BY ArgumentIsInt DEF Command, CommandType
  <2> HIDE DEF c, d
  <2>5. /\ ctx'[r] = d
        /\ \A q \in Remotes \ {r} : ctx'[q] = ctx[q] /\ remote_rx'[q] = remote_rx[q]
    BY <2>1, <2>3 DEF TypeOK
  <2>6. /\ Asked(r) = NoCommand /\ Asked(r)' = c
        /\ \A q \in Remotes \ {r} : Asked(q)' = Asked(q)
    BY <1>2, <2>2, <2>5 DEF Asked
  <2>7. \A q \in Remotes : SameNumbers(q)
    BY <2>2, <2>5 DEF SameNumbers
  <2>8. \A q \in Remotes \ {r} : Packet(q)' = Packet(q)
    BY <2>5 DEF Packet
  <2>9. \E p \in {"command", "none"} : Exchange!Becomes(r, p)
    <3>1. "late" \notin course => Packet(r)' \in {"command", "none"}
      <4>1. ASSUME "late" \notin course
            PROVE  AnswersOf(r, base_rx) = {}
        BY <1>2, <4>1, PacketForms DEF Open
      <4> QED
        BY <4>1 DEF Packet
    <3>2. CASE "late" \notin course
      BY <2>8, <3>1, <3>2, PacketBecomes
    <3>3. CASE "late" \in course
      BY <2>8, <3>3, PacketBecomes
    <3> QED
      BY <3>2, <3>3
  <2>10. Exchange!Ask(r, c)
    <3>1. [q \in Remotes |-> Asked(q)]' = [[q \in Remotes |-> Asked(q)] EXCEPT ![r] = c]
      BY <2>6
    <3>2. [q \in Remotes |-> Asked(q)][r] = Exchange!Nothing
      BY <2>6 DEF Exchange!Nothing, NoCommand, Command
    <3>3. c.kind = "ping" => c.arg = [q \in Remotes |-> ctx[q].ping_seq_n][r]
      BY <2>4
    <3> QED
      BY <2>7, <2>9, <3>1, <3>2, <3>3 DEF Exchange!Ask, SameNumbers
  <2> QED
    BY <2>4, <2>10, RequestForms DEF ExchangeStuttersOrMoves, Exchange!Next
<1> QED
  BY <1>1, <1>2 DEF SendCommand

\* The base takes an answer to what it asked, or one that it does not wait for.
LEMMA ResponseHeard ==
  ASSUME TypeOK, PendingPings, LockstepInv, ExchangeInv, ProcessResponse
  PROVE  ExchangeStuttersOrMoves
<1> DEFINE p == base_rx[1]
<1>1. /\ base_rx # <<>> /\ base_rx' = Tail(base_rx) /\ p \in ResponseType \cup {Damaged}
      /\ p = Head(base_rx) /\ 1 \in DOMAIN base_rx
      /\ UNCHANGED <<station, remote_rx, course>>
  BY DEF ProcessResponse, TypeOK
<1>2. base_rx \in Answers
  BY DEF TypeOK, Answers
<1>3. ctx' = IF p = Damaged \/ ~Matches(p) THEN ctx
             ELSE [ctx EXCEPT ![p.source] = Accepted(ctx[p.source], p)]
  BY <1>1 DEF ProcessResponse
<1> HIDE DEF p
<1>4. \A q \in Remotes : 1 \in AnswersOf(q, base_rx) <=> p # Damaged /\ p.source = q
  BY <1>1 DEF AnswersOf, p
<1>5. ASSUME NEW q \in Remotes, p = Damaged \/ p.source # q
      PROVE  Packet(q)' = Packet(q)
  <2>1. AnswersOf(q, base_rx') = {} <=> AnswersOf(q, base_rx) = {}
    BY <1>1, <1>2, <1>4, <1>5, AnswersTail
  <2> QED
    BY <1>1, <2>1 DEF Packet
<1>6. ASSUME NEW r \in Remotes, p # Damaged, p.source = r, "late" \notin course
      PROVE  Packet(r) = "answer" /\ Packet(r)' = "none"
  <2>1. 1 \in AnswersOf(r, base_rx)
    BY <1>4, <1>6
  <2>2. Packet(r) = "answer" /\ DOMAIN remote_rx[r] = {}
    BY <1>6, <2>1, PacketForms
  <2>3. \A e, t : OneExchange(r, e, t, Tail(base_rx), remote_rx[r])
    BY <1>1, <1>2, <1>6, <2>1, ExchangeTail DEF ExchangeInv, ExchangeAt
  <2>4. AnswersOf(r, Tail(base_rx)) = {}
    <3>1. OneExchange(r, FreshContext, FreshStation, Tail(base_rx), remote_rx[r])
      BY <2>3
    <3>2. ~Open(FreshContext)
      BY DEF Open, FreshContext
    <3> QED
      BY <3>1, <3>2 DEF OneExchange
  <2>5. Intact(remote_rx[r]) = {}
    BY <2>2 DEF Intact
  <2> QED
    BY <1>1, <1>6, <2>2, <2>4, <2>5 DEF Packet
<1>7. CASE p = Damaged
  <2>1. \A q \in Remotes : SameNumbers(q) /\ Asked(q)' = Asked(q) /\ Packet(q)' = Packet(q)
    BY <1>1, <1>3, <1>5, <1>7 DEF SameNumbers, Asked
  <2> QED
    BY <1>1, <2>1, SeenSame DEF ExchangeStuttersOrMoves
<1>8. CASE p # Damaged /\ ~Matches(p)
  <2>1. PICK r \in Remotes : r = p.source
    BY <1>1, <1>8 DEF ResponseType
  <2>2. \A q \in Remotes : SameNumbers(q) /\ Asked(q)' = Asked(q)
    BY <1>1, <1>3, <1>8 DEF SameNumbers, Asked
  <2>3. CASE "late" \in course
    <3>1. \A q \in Remotes : Packet(q)' = Packet(q)
      BY <1>1, <2>3 DEF Packet
    <3> QED
      BY <1>1, <2>2, <3>1, SeenSame DEF ExchangeStuttersOrMoves
  <2>4. CASE "late" \notin course
    <3>1. Packet(r) = "answer" /\ Packet(r)' = "none"
      BY <1>6, <1>8, <2>1, <2>4
    <3>2. \A q \in Remotes \ {r} : Packet(q)' = Packet(q)
      BY <1>5, <2>1
    <3>3. [q \in Remotes |-> Packet(q)]'
            = [[q \in Remotes |-> Packet(q)] EXCEPT ![r] = "none"]
      BY <3>1, <3>2
    <3>4. Exchange!Lose(r)
      BY <1>1, <2>1, <2>2, <3>1, <3>3 DEF Exchange!Lose, SameNumbers
    <3> QED
      BY <2>1, <3>4 DEF ExchangeStuttersOrMoves, Exchange!Next
  <2> QED
    BY <2>3, <2>4
<1>9. CASE p # Damaged /\ Matches(p)
  <2>1. /\ p \in ResponseType /\ p.source \in Remotes
        /\ p.kind \in Kinds /\ p.arg \in Answer(p.kind)
    BY <1>1, <1>9 DEF ResponseType
  <2>2. PICK r \in Remotes : r = p.source
    BY <2>1
  <2> DEFINE e == Accepted(ctx[r], p)
  <2>3. /\ ctx[r].waiting /\ p.kind = ctx[r].command.kind
        /\ p.kind \notin {"getstat", "getver"} => p.arg = ctx[r].command.arg
    BY <1>9, <2>2 DEF Matches
  <2>4. ctx' = [ctx EXCEPT ![r] = e]
    BY <1>3, <1>9, <2>2
  <2>5. /\ e.waiting = FALSE
        /\ e.ping_seq_n = IF p.kind = "ping" THEN (ctx[r].ping_seq_n + 1) % SEQ_MOD
                                             ELSE ctx[r].ping_seq_n
        /\ e.move_value = IF p.kind \in {"move", "getstat"} THEN p.arg
                          ELSE IF p.kind = "stop" THEN 0 ELSE ctx[r].move_value
    BY <2>1 DEF Accepted, TypeOK, ContextType
  <2>6. 1 \in AnswersOf(r, base_rx)
    BY <1>4, <1>9, <2>2
  <2> HIDE DEF e
  <2>7. ctx'[r] = e /\ \A q \in Remotes \ {r} : ctx'[q] = ctx[q]
    BY <2>1, <2>4 DEF TypeOK
  <2>8. /\ Asked(r) = ctx[r].command /\ Asked(r)' = NoCommand
        /\ \A q \in Remotes \ {r} : Asked(q)' = Asked(q)
    BY <2>3, <2>5, <2>7 DEF Asked
  <2>9. ctx[r].command.kind \in Kinds /\ ctx[r].command # NoCommand
    BY <2>1, <2>3 DEF NoCommand, Command, Kinds
  <2>10. Exchange!Becomes(r, "none")
    <3>1. \A q \in Remotes \ {r} : Packet(q)' = Packet(q)
      BY <1>5, <2>2
    <3>2. "late" \notin course => Packet(r)' = "none"
      BY <1>6, <1>9, <2>1, <2>2
    <3> QED
      BY <1>1, <2>1, <3>1, <3>2, PacketBecomes
  <2>11. "late" \notin course => Packet(r) = "answer" /\ TellsNow(ctx[r], station[r], p)
    <3> SUFFICES ASSUME "late" \notin course
                 PROVE  Packet(r) = "answer" /\ TellsNow(ctx[r], station[r], p)
      OBVIOUS
    <3>1. OneExchange(r, ctx[r], station[r], base_rx, remote_rx[r])
      BY <2>1 DEF ExchangeInv, ExchangeAt
    <3> QED
      BY <1>6, <1>9, <2>1, <2>6, <2>2, <3>1 DEF OneExchange, p
  <2>12. \A q \in Remotes : /\ station'[q] = station[q]
                            /\ q # r => ctx'[q].ping_seq_n = ctx[q].ping_seq_n
                                        /\ ctx'[q].move_value = ctx[q].move_value
    BY <1>1, <2>7
  <2> DEFINE asked  == [q \in Remotes |-> Asked(q)]
             packet == [q \in Remotes |-> Packet(q)]
             number == [q \in Remotes |-> ctx[q].ping_seq_n]
             told   == [q \in Remotes |-> ctx[q].move_value]
             seen   == [q \in Remotes |-> station[q].ping_seq_n]
             moving == [q \in Remotes |-> station[q].move_value]
  <2>13. /\ asked[r] = ctx[r].command /\ packet[r] = Packet(r)
         /\ seen[r] = station[r].ping_seq_n /\ number[r] = ctx[r].ping_seq_n
         /\ moving[r] = station[r].move_value
    BY <2>1, <2>8
  <2>14. asked' = [asked EXCEPT ![r] = Exchange!Nothing]
    BY <2>8 DEF Exchange!Nothing, NoCommand, Command
  <2>15. UNCHANGED <<seen, moving, course>>
    BY <1>1
  <2>16. asked[r] # Exchange!Nothing /\ ("late" \notin course => packet[r] = "answer")
    BY <2>9, <2>11, <2>13 DEF Exchange!Nothing, NoCommand, Command
  <2>17. ASSUME p.kind = "ping"
         PROVE  /\ ~("late" \in course /\ "restarted" \in course) => seen[r] = number[r]
                /\ number' = [number EXCEPT ![r] = (@ + 1) % SEQ_MOD]
                /\ UNCHANGED told
    <3>1. p.arg = ctx[r].ping_seq_n
      BY <2>1, <2>3, <2>17 DEF PendingPings, PendingPing
    <3>2. "late" \notin course => p.arg = station[r].ping_seq_n
      BY <2>11, <2>17 DEF TellsNow
    <3>3. "restarted" \notin course => station[r].ping_seq_n = ctx[r].ping_seq_n
      <4>1. 1 \in PingsOf(r, base_rx) /\ base_rx[1].arg = ctx[r].ping_seq_n
        BY <2>6, <2>17, <3>1 DEF p, PingsOf, Pings, AnswersOf
      <4> QED
        BY <2>1, <4>1 DEF LockstepInv, LockstepAt, Lockstep, StationBetween
    <3>4. number' = [number EXCEPT ![r] = (@ + 1) % SEQ_MOD]
      BY <2>5, <2>7, <2>12, <2>17
    <3>5. UNCHANGED told
      BY <2>5, <2>7, <2>12, <2>17
    <3> HIDE DEF told, number
    <3> QED
      BY <2>13, <3>1, <3>2, <3>3, <3>4, <3>5
  <2>18. ASSUME p.kind \in {"move", "stop", "getstat"}
         PROVE  /\ \E m \in Exchange!Movements :
                     /\ p.kind # "getstat" => m = ctx[r].command.arg
                     /\ "late" \in course \/ m = moving[r]
                     /\ told' = [told EXCEPT ![r] = m]
                /\ UNCHANGED number
    <3>1. e.move_value = p.arg
      BY <2>1, <2>5, <2>18 DEF Answer, Argument
    <3>2. p.arg \in Exchange!Movements
      BY <2>1, <2>18 DEF Answer, Argument, Exchange!Movements
    <3>3. "late" \notin course => p.arg = station[r].move_value
      BY <2>1, <2>11, <2>18 DEF TellsNow, Answer, Argument
    <3>4. told' = [told EXCEPT ![r] = p.arg]
      BY <2>7, <2>12, <3>1
    <3>5. UNCHANGED number
      BY <2>5, <2>7, <2>12, <2>18
    <3> HIDE DEF told, number, moving
    <3> QED
      BY <2>3, <2>13, <2>18, <3>2, <3>3, <3>4, <3>5
  <2>19. ASSUME p.kind = "getver"
         PROVE  UNCHANGED <<number, told>>
    BY <2>5, <2>7, <2>12, <2>19
  <2>20. p.kind \in {"ping", "getver", "move", "stop", "getstat"}
    BY <2>1 DEF Kinds
  <2>21. Exchange!Hear(r)
    <3>1. asked[r].kind = p.kind /\ asked[r].arg = ctx[r].command.arg
      BY <2>3, <2>13
    <3> HIDE DEF asked, packet, number, told, seen, moving
    <3>2. CASE p.kind = "ping"
      <4>1. asked[r].kind = "ping"
        BY <3>1, <3>2
      <4> QED
        BY <2>10, <2>14, <2>15, <2>16, <2>17, <3>2, <4>1
           DEF Exchange!Hear, Exchange!Late, asked, packet, number, told, seen, moving
    <3>3. CASE p.kind \in {"move", "stop", "getstat"}
      <4>1. asked[r].kind \in {"move", "stop", "getstat"}
        BY <3>1, <3>3
      <4>2. /\ \E m \in Exchange!Movements :
                 /\ asked[r].kind # "getstat" => m = asked[r].arg
                 /\ "late" \in course \/ m = moving[r]
                 /\ told' = [told EXCEPT ![r] = m]
            /\ UNCHANGED number
        BY <2>18, <3>1, <3>3
      <4> QED
        BY <2>10, <2>14, <2>15, <2>16, <4>1, <4>2
           DEF Exchange!Hear, Exchange!Late, asked, packet, number, told, seen, moving
    <3>4. CASE p.kind = "getver"
      <4>1. asked[r].kind = "getver" /\ UNCHANGED <<number, told>>
        BY <2>19, <3>1, <3>4
      <4> QED
        BY <2>10, <2>14, <2>15, <2>16, <4>1
           DEF Exchange!Hear, Exchange!Late, asked, packet, number, told, seen, moving
    <3> QED
      BY <2>20, <3>2, <3>3, <3>4
  <2> QED
    BY <2>1, <2>21 DEF ExchangeStuttersOrMoves, Exchange!Next
<1> QED
  BY <1>7, <1>8, <1>9

\* A remote carries out a command, or drops a damaged one.
LEMMA CommandObeyed ==
  ASSUME TypeOK, LockstepInv, PendingPings, ExchangeInv,
         NEW r \in Remotes, HandleCommand(r)
  PROVE  ExchangeStuttersOrMoves
<1>1. PICK c \in CommandType \cup {Damaged} : c = remote_rx[r][1] /\ c = Head(remote_rx[r])
  BY DEF HandleCommand, TypeOK
<1>2. /\ remote_rx[r] # <<>> /\ remote_rx' = [remote_rx EXCEPT ![r] = Tail(remote_rx[r])]
      /\ remote_rx[r] \in Seq(CommandType \cup {Damaged})
      /\ 1 \in DOMAIN remote_rx[r]
      /\ UNCHANGED <<ctx, course>>
  BY DEF HandleCommand, TypeOK, baseVars
<1>3. /\ remote_rx'[r] = Tail(remote_rx[r])
      /\ \A q \in Remotes \ {r} : remote_rx'[q] = remote_rx[q]
  BY <1>2 DEF TypeOK
<1>4. base_rx \in Answers
  BY DEF TypeOK, Answers
<1>5. \A q \in Remotes : Asked(q)' = Asked(q)
  BY <1>2 DEF Asked
<1>6. ASSUME "late" \notin course
      PROVE  /\ remote_rx'[r] = <<>> /\ AnswersOf(r, base_rx) = {}
             /\ Open(ctx[r]) /\ c \in {ctx[r].command, Damaged}
  <2>1. OneExchange(r, ctx[r], station[r], base_rx, remote_rx[r])
    BY <1>6 DEF ExchangeInv, ExchangeAt
  <2>2. \A i \in DOMAIN remote_rx[r] : i = 1
    BY <2>1 DEF OneExchange
  <2>3. Tail(remote_rx[r]) = <<>>
    BY <1>2, <2>2, ShortSequences
  <2> QED
    BY <1>1, <1>2, <1>3, <2>1, <2>3 DEF OneExchange
<1>7. DOMAIN <<>> = {}
  OBVIOUS
<1>8. CASE c = Damaged /\ UNCHANGED <<station, base_rx>>
  <2>1. \A q \in Remotes : SameNumbers(q)
    BY <1>2, <1>8 DEF SameNumbers
  <2>2. \A q \in Remotes \ {r} : Packet(q)' = Packet(q)
    BY <1>2, <1>3, <1>8 DEF Packet
  <2>3. Packet(r)' = Packet(r)
    <3>1. CASE "late" \in course
      BY <1>2, <3>1 DEF Packet
    <3>2. CASE "late" \notin course
      <4>1. \A i \in DOMAIN remote_rx[r] : i = 1
        BY <3>2 DEF ExchangeInv, ExchangeAt, OneExchange
      <4>2. Intact(remote_rx[r]) = {} /\ Intact(remote_rx'[r]) = {}
        BY <1>1, <1>6, <1>7, <1>8, <3>2, <4>1 DEF Intact
      <4> QED
        BY <1>2, <1>8, <4>2 DEF Packet
    <3> QED
      BY <3>1, <3>2
  <2> QED
    BY <1>2, <1>5, <2>1, <2>2, <2>3, SeenSame DEF ExchangeStuttersOrMoves
<1>9. CASE /\ c # Damaged
           /\ station' = [station EXCEPT ![r] = Executed(station[r], c, IsRepeated(r, c))]
           /\ base_rx' \in Arrivals(base_rx, Response(r, c))
  <2> DEFINE s == Executed(station[r], c, IsRepeated(r, c))
  <2>1. c \in CommandType /\ c.kind \in Kinds
    BY <1>9 DEF CommandType
  <2>2. Response(r, c).source = r
    BY DEF Response
  <2>3. /\ s.ping_seq_n = IF c.kind = "ping" THEN c.arg ELSE station[r].ping_seq_n
        /\ s.move_value = IF c.kind = "move" THEN c.arg
                          ELSE IF c.kind = "stop" THEN 0 ELSE station[r].move_value
    BY <2>1 DEF Executed, Kinds, TypeOK, StationType
  <2> HIDE DEF s
  <2>4. station'[r] = s /\ \A q \in Remotes \ {r} : station'[q] = station[q]
    BY <1>9 DEF TypeOK, s
  <2>5. \/ base_rx' = base_rx \/ base_rx' = Append(base_rx, Response(r, c))
        \/ base_rx' = Append(base_rx, Damaged)
    BY <1>9, ArrivalForms
  <2>6. ASSUME NEW q \in Remotes \ {r}
        PROVE  Packet(q)' = Packet(q)
    <3>1. AnswersOf(q, base_rx') = {} <=> AnswersOf(q, base_rx) = {}
      BY <1>4, <2>2, <2>5, AnswersAppend
    <3> QED
      BY <1>2, <1>3, <3>1 DEF Packet
  <2>7. "late" \notin course => Packet(r) = "command" /\ Packet(r)' \in {"answer", "none"}
    <3> SUFFICES ASSUME "late" \notin course
                 PROVE  Packet(r) = "command" /\ Packet(r)' \in {"answer", "none"}
      OBVIOUS
    <3>1. 1 \in Intact(remote_rx[r])
      BY <1>1, <1>2, <1>9 DEF Intact
    <3>2. Intact(remote_rx'[r]) = {}
      BY <1>6, <1>7 DEF Intact
    <3> QED
      BY <1>2, <3>1, <3>2, PacketForms DEF Packet
  <2>8. \E p \in {"answer", "none"} : Exchange!Becomes(r, p)
    <3>1. CASE "late" \in course
      BY <1>2, <2>6, <3>1, PacketBecomes
    <3>2. CASE "late" \notin course /\ Packet(r)' = "answer"
      BY <1>2, <2>6, <3>2, PacketBecomes
    <3>3. CASE "late" \notin course /\ Packet(r)' = "none"
      BY <1>2, <2>6, <3>3, PacketBecomes
    <3> QED
      BY <2>7, <3>1, <3>2, <3>3
  <2>9. "late" \notin course => Asked(r) = c
    BY <1>6, <1>9 DEF Asked, Open
  <2>10. c.kind = "ping" /\ "restarted" \notin course
         => c.arg \in {station[r].ping_seq_n, ctx[r].ping_seq_n}
    <3> SUFFICES ASSUME c.kind = "ping", "restarted" \notin course
                 PROVE  c.arg \in {station[r].ping_seq_n, ctx[r].ping_seq_n}
      OBVIOUS
    <3> DEFINE b == ctx[r].ping_seq_n
               n == station[r].ping_seq_n
    <3>1. Lockstep(r, b, n, base_rx, remote_rx[r])
      BY DEF LockstepInv, LockstepAt
    <3>2. 1 \in Pings(remote_rx[r]) /\ remote_rx[r][1].arg = c.arg
      BY <1>1, <1>2 DEF Pings
    <3>3. b \in Sequence /\ n \in Sequence /\ c.arg \in Sequence
      BY <2>1, LockstepTypes DEF CommandType, Argument
    <3> HIDE DEF b, n
    <3>4. Recent(b, n) /\ Recent(b, c.arg) /\ (n = b => c.arg = b)
      BY <3>1, <3>2 DEF Lockstep, NumbersRecent, StationBetween
    <3>5. Following(n) = (IF n = SEQ_MOD - 1 THEN 0 ELSE n + 1)
          /\ Following(c.arg) = (IF c.arg = SEQ_MOD - 1 THEN 0 ELSE c.arg + 1)
      BY <3>3, FollowingWraps
    <3>6. Following(n) = Following(c.arg) => n = c.arg
      BY <3>3, <3>5, V1Assumption DEF Sequence
    <3>7. c.arg \in {n, b}
      BY <3>4, <3>6 DEF Recent
    <3> QED
      BY <3>7 DEF b, n
  <2> DEFINE seen   == [q \in Remotes |-> station[q].ping_seq_n]
             moving == [q \in Remotes |-> station[q].move_value]
  <2>11. seen' = [seen EXCEPT ![r] = IF c.kind = "ping" THEN c.arg ELSE @]
    BY <2>3, <2>4
  <2>12. moving' = [moving EXCEPT ![r] = CASE c.kind = "move" -> c.arg
                                           [] c.kind = "stop" -> 0
                                           [] OTHER -> @]
    <3>1. moving[r] = station[r].move_value
      OBVIOUS
    <3>2. (CASE c.kind = "move" -> c.arg [] c.kind = "stop" -> 0 [] OTHER -> moving[r])
            = s.move_value
      BY <2>3, <3>1
    <3>3. moving' = [moving EXCEPT ![r] = s.move_value]
      BY <2>4
    <3> HIDE DEF moving
    <3> QED
      BY <3>2, <3>3
  <2>13. seen[r] = station[r].ping_seq_n
    OBVIOUS
  <2> DEFINE asked  == [q \in Remotes |-> Asked(q)]
             packet == [q \in Remotes |-> Packet(q)]
             number == [q \in Remotes |-> ctx[q].ping_seq_n]
             told   == [q \in Remotes |-> ctx[q].move_value]
  <2>14. asked[r] = Asked(r) /\ packet[r] = Packet(r) /\ number[r] = ctx[r].ping_seq_n
    OBVIOUS
  <2>15. UNCHANGED <<asked, number, told, course>>
    BY <1>2, <1>5
  <2> HIDE DEF asked, packet, number, told, seen, moving
  <2>16. "late" \notin course => packet[r] = "command" /\ c = asked[r]
    BY <2>7, <2>9, <2>14
  <2>17. c.kind = "ping" /\ "restarted" \notin course => c.arg \in {seen[r], number[r]}
    BY <2>10, <2>13, <2>14
  <2>18. Exchange!Obey(r, c)
    BY <2>8, <2>11, <2>12, <2>15, <2>16, <2>17
       DEF Exchange!Obey, Exchange!Late, asked, packet, number, told, seen, moving
  <2> QED
    BY <2>1, <2>18, RequestForms DEF ExchangeStuttersOrMoves, Exchange!Next
<1> QED
  BY <1>1, <1>8, <1>9 DEF HandleCommand

\* The base gives up what has passed its deadline.
LEMMA TimeOutsGiveUp ==
  ASSUME TypeOK, ExchangeInv, TimeOuts
  PROVE  ExchangeStuttersOrMoves
<1> DEFINE Silent == {q \in Remotes : ctx[q].waiting /\ ctx[q].expired}
<1>1. UNCHANGED <<base_rx, station, remote_rx, course>>
  BY DEF TimeOuts
<1>2. \A q \in Remotes : ctx'[q] = TimeOut(ctx[q])
  BY DEF TimeOuts
<1>3. ASSUME NEW q \in Remotes
      PROVE  SameNumbers(q) /\ Asked(q)' = IF q \in Silent THEN NoCommand ELSE Asked(q)
  BY <1>1, <1>2 DEF SameNumbers, Asked, TimeOut, TypeOK, ContextType
<1>4. \A q \in Remotes : Packet(q)' = Packet(q)
  BY <1>1 DEF Packet
<1>5. ASSUME NEW q \in Silent
      PROVE  "late" \in course \/ Packet(q) = "none"
  BY PacketForms DEF Open
<1>6. Exchange!GiveUp
  <2> DEFINE packet == [q \in Remotes |-> Packet(q)]
             asked  == [q \in Remotes |-> Asked(q)]
  <2>1. Silent \in SUBSET {q \in Remotes : "late" \in course \/ packet[q] = "none"}
    BY <1>5
  <2>2. asked' = [q \in Remotes |-> IF q \in Silent THEN Exchange!Nothing ELSE asked[q]]
    BY <1>3 DEF Exchange!Nothing, NoCommand, Command
  <2>3. UNCHANGED packet
    BY <1>4
  <2> HIDE DEF Silent, asked, packet
  <2>4. \E Gone \in SUBSET {q \in Remotes : "late" \in course \/ packet[q] = "none"} :
          asked' = [q \in Remotes |-> IF q \in Gone THEN Exchange!Nothing ELSE asked[q]]
    BY <2>1, <2>2
  <2> QED
    BY <1>1, <1>3, <2>3, <2>4 DEF Exchange!GiveUp, Exchange!Late, SameNumbers, asked, packet
<1> QED
  BY <1>6 DEF ExchangeStuttersOrMoves, Exchange!Next

\* The base's own scan is refused while something is pending: nothing intact is
\* flushed, unless the exchange has gone astray.
LEMMA ScanUnseen ==
  ASSUME TypeOK, ExchangeInv, Scan
  PROVE  ExchangeStuttersOrMoves
<1>1. UNCHANGED <<ctx, station, remote_rx, course>> /\ base_rx' = <<>>
  BY DEF Scan, baseVars
<1>2. ASSUME NEW q \in Remotes
      PROVE  Packet(q)' = Packet(q)
  <2>1. CASE "late" \in course
    BY <1>1, <2>1 DEF Packet
  <2>2. CASE "late" \notin course
    <3>1. ~Open(ctx[q])
      BY DEF Scan, Open
    <3>2. AnswersOf(q, base_rx) = {}
      BY <2>2, <3>1, PacketForms
    <3>3. AnswersOf(q, base_rx') = {}
      BY <1>1 DEF AnswersOf
    <3> QED
      BY <1>1, <3>2, <3>3 DEF Packet
  <2> QED
    BY <2>1, <2>2
<1>3. \A q \in Remotes : SameNumbers(q) /\ Asked(q)' = Asked(q)
  BY <1>1 DEF SameNumbers, Asked
<1> QED
  BY <1>1, <1>2, <1>3, SeenSame DEF ExchangeStuttersOrMoves

\* The scan of a remote loses what it was asked.
LEMMA RemoteLineUnseen ==
  ASSUME TypeOK, ExchangeInv, NEW r \in Remotes, RangeLedOff(r) \/ RemoteLine(r)
  PROVE  ExchangeStuttersOrMoves
<1>1. UNCHANGED <<ctx, base_rx, course>>
  BY DEF RangeLedOff, RemoteLine, baseVars
<1>2. ASSUME NEW q \in Remotes
      PROVE  SameNumbers(q) /\ Asked(q)' = Asked(q)
  <2>1. Asked(q)' = Asked(q)
    BY <1>1 DEF Asked
  <2> DEFINE Same == /\ station'[q].ping_seq_n = station[q].ping_seq_n
                     /\ station'[q].move_value = station[q].move_value
  <2>2. ASSUME RangeLedOff(r) PROVE Same
    BY <2>2 DEF RangeLedOff, TypeOK, StationType
  <2>3. ASSUME RemoteLine(r) PROVE Same
    BY <2>3 DEF RemoteLine
  <2>4. Same
    BY <2>2, <2>3
  <2> QED
    BY <1>1, <2>1, <2>4 DEF SameNumbers
<1>3. CASE UNCHANGED remote_rx
  <2>1. \A q \in Remotes : Packet(q)' = Packet(q)
    BY <1>1, <1>3 DEF Packet
  <2> QED
    BY <1>1, <1>2, <2>1, SeenSame DEF ExchangeStuttersOrMoves
<1>4. CASE remote_rx' = [remote_rx EXCEPT ![r] = <<>>]
  <2>1. remote_rx'[r] = <<>> /\ \A q \in Remotes \ {r} : remote_rx'[q] = remote_rx[q]
    BY <1>4 DEF TypeOK
  <2>2. \A q \in Remotes \ {r} : Packet(q)' = Packet(q)
    BY <1>1, <2>1 DEF Packet
  <2>3. Intact(remote_rx'[r]) = {}
    BY <2>1 DEF Intact
  <2>4. CASE Packet(r)' = Packet(r)
    <3>1. \A q \in Remotes : Packet(q)' = Packet(q)
      BY <2>2, <2>4
    <3> QED
      BY <1>1, <1>2, <3>1, SeenSame DEF ExchangeStuttersOrMoves
  <2>5. CASE Packet(r)' # Packet(r)
    <3>1. Packet(r) = "command" /\ Packet(r)' = "none"
      BY <1>1, <2>3, <2>5 DEF Packet
    <3>2. [q \in Remotes |-> Packet(q)]'
            = [[q \in Remotes |-> Packet(q)] EXCEPT ![r] = "none"]
      BY <2>2, <3>1
    <3>3. Exchange!Lose(r)
      BY <1>1, <1>2, <3>1, <3>2 DEF Exchange!Lose, SameNumbers
    <3> QED
      BY <3>3 DEF ExchangeStuttersOrMoves, Exchange!Next
  <2> QED
    BY <2>4, <2>5
<1> QED
  BY <1>3, <1>4 DEF RangeLedOff, RemoteLine

\* A deadline that passes while packets are under way sends the exchange astray.
LEMMA ExpiryDelays ==
  ASSUME TypeOK, PendingPings, NEW r \in Remotes, Expire(r)
  PROVE  ExchangeStuttersOrMoves
<1>1. UNCHANGED <<base_rx, station, remote_rx>> /\ ctx[r].waiting
  BY DEF Expire
<1>2. ASSUME NEW q \in Remotes
      PROVE  SameNumbers(q) /\ Asked(q)' = Asked(q)
  <2>1. /\ ctx'[q].waiting = ctx[q].waiting /\ ctx'[q].command = ctx[q].command
        /\ ctx'[q].ping_seq_n = ctx[q].ping_seq_n /\ ctx'[q].move_value = ctx[q].move_value
    BY DEF Expire, TypeOK, ContextType
  <2> QED
    BY <1>1, <2>1 DEF SameNumbers, Asked
<1>3. course' = course \/ course' = course \cup {"late"}
  BY DEF Expire
<1>4. CASE course' = course
  <2>1. \A q \in Remotes : Packet(q)' = Packet(q)
    BY <1>1, <1>4 DEF Packet
  <2> QED
    BY <1>2, <1>4, <2>1, SeenSame DEF ExchangeStuttersOrMoves
<1>5. CASE course' = course \cup {"late"}
  <2>1. \A q \in Remotes : Packet(q)' = "unknown"
    BY <1>5 DEF Packet
  <2>2. Exchange!Overtaken
    BY <1>5, <2>1 DEF Exchange!Overtaken, Exchange!Everywhere
  <2>3. [q \in Remotes |-> Asked(q)][r] # Exchange!Nothing
    BY <1>1 DEF Asked, PendingPings, PendingPing, Exchange!Nothing, NoCommand, Command
  <2>4. Exchange!Delay
    BY <1>2, <2>2, <2>3 DEF Exchange!Delay, SameNumbers
  <2> QED
    BY <2>4 DEF ExchangeStuttersOrMoves, Exchange!Next
<1> QED
  BY <1>3, <1>4, <1>5

LEMMA BaseRestarts ==
  ASSUME TypeOK, ExchangeInv, RestartBase
  PROVE  ExchangeStuttersOrMoves
<1>1. /\ base_rx' = <<>> /\ UNCHANGED <<station, remote_rx>>
      /\ \A q \in Remotes : ctx'[q] = FreshContext
  BY DEF RestartBase
<1>2. FreshContext.waiting = FALSE /\ FreshContext.ping_seq_n = 0 /\ FreshContext.move_value = 0
  BY DEF FreshContext
<1>3. \A q \in Remotes : /\ Asked(q)' = Exchange!Nothing
                         /\ ctx'[q].ping_seq_n = 0 /\ ctx'[q].move_value = 0
  BY <1>1, <1>2 DEF Asked, Exchange!Nothing, NoCommand, Command
<1>4. \/ course' = course \cup {"restarted"} /\ \A q \in Remotes : Quiet(q)
      \/ course' = course \cup {"restarted", "late"}
  BY DEF RestartBase
<1>5. CASE "late" \in course'
  <2>1. course' = course \cup {"restarted", "late"}
    BY <1>4, <1>5
  <2>2. \A q \in Remotes : Packet(q)' = "unknown"
    BY <1>5 DEF Packet
  <2> QED
    BY <1>1, <1>3, <2>1, <2>2
       DEF ExchangeStuttersOrMoves, Exchange!Next, Exchange!RestartBase, Exchange!Everywhere
<1>6. CASE "late" \notin course'
  <2>1. /\ course' = course \cup {"restarted"} /\ "late" \notin course
        /\ \A q \in Remotes : Quiet(q)
    BY <1>4, <1>6
  <2>2. DOMAIN <<>> = {}
    OBVIOUS
  <2>3. \A q \in Remotes : Packet(q) = "none" /\ Packet(q)' = "none"
    BY <1>1, <1>6, <2>1, <2>2 DEF Packet, Quiet, AnswersOf, Intact
  <2> QED
    BY <1>1, <1>3, <2>1, <2>3
       DEF ExchangeStuttersOrMoves, Exchange!Next, Exchange!RestartBase, Exchange!Everywhere
<1> QED
  BY <1>5, <1>6

LEMMA RemoteRestarts ==
  ASSUME TypeOK, ExchangeInv, NEW r \in Remotes, RestartRemote(r)
  PROVE  ExchangeStuttersOrMoves
<1>1. /\ UNCHANGED <<ctx, base_rx>>
      /\ station' = [station EXCEPT ![r] = FreshStation]
      /\ remote_rx' = [remote_rx EXCEPT ![r] = <<>>]
  BY DEF RestartRemote, baseVars
<1>2. /\ station'[r] = FreshStation /\ remote_rx'[r] = <<>>
      /\ \A q \in Remotes \ {r} : station'[q] = station[q] /\ remote_rx'[q] = remote_rx[q]
  BY <1>1 DEF TypeOK
<1>3. FreshStation.ping_seq_n = SEQ_MOD - 1 /\ FreshStation.move_value = 0
  BY DEF FreshStation
<1>4. \A q \in Remotes : Asked(q)' = Asked(q)
  BY <1>1 DEF Asked
<1> DEFINE seen   == [q \in Remotes |-> station[q].ping_seq_n]
           moving == [q \in Remotes |-> station[q].move_value]
<1>5. seen' = [seen EXCEPT ![r] = SEQ_MOD - 1] /\ moving' = [moving EXCEPT ![r] = 0]
  BY <1>2, <1>3
<1> HIDE DEF seen, moving
<1>6. \/ course' = course \cup {"restarted"} /\ base_rx = <<>>
      \/ course' = course \cup {"restarted", "late"}
  BY DEF RestartRemote
<1>7. CASE "late" \in course'
  <2>1. course' = course \cup {"restarted", "late"}
    BY <1>6, <1>7
  <2>2. \A q \in Remotes : Packet(q)' = "unknown"
    BY <1>7 DEF Packet
  <2>3. Exchange!RestartRemote(r)
    BY <1>1, <1>4, <1>5, <2>1, <2>2
       DEF Exchange!RestartRemote, Exchange!Everywhere, seen, moving
  <2> QED
    BY <2>3 DEF ExchangeStuttersOrMoves, Exchange!Next
<1>8. CASE "late" \notin course'
  <2>1. course' = course \cup {"restarted"} /\ "late" \notin course /\ base_rx = <<>>
    BY <1>6, <1>8
  <2>2. DOMAIN <<>> = {}
    OBVIOUS
  <2>3. \A q \in Remotes : AnswersOf(q, base_rx) = {} /\ AnswersOf(q, base_rx') = {}
    BY <1>1, <2>1, <2>2 DEF AnswersOf
  <2>4. Intact(remote_rx'[r]) = {}
    BY <1>2, <2>2 DEF Intact
  <2>5. /\ \A q \in Remotes : Packet(q) # "answer"
        /\ Packet(r)' = "none" /\ \A q \in Remotes \ {r} : Packet(q)' = Packet(q)
    BY <1>2, <1>8, <2>1, <2>3, <2>4 DEF Packet
  <2>6. [q \in Remotes |-> Packet(q)]' = [[q \in Remotes |-> Packet(q)] EXCEPT ![r] = "none"]
    BY <2>5
  <2>7. Exchange!RestartRemote(r)
    BY <1>1, <1>4, <1>5, <2>1, <2>5, <2>6
       DEF Exchange!RestartRemote, Exchange!Late, seen, moving
  <2> QED
    BY <2>7 DEF ExchangeStuttersOrMoves, Exchange!Next
<1> QED
  BY <1>7, <1>8

LEMMA ExchangeSimulated ==
  TypeOK /\ PendingPings /\ LockstepInv /\ ExchangeInv /\ [Next]_vars => ExchangeStuttersOrMoves
<1> SUFFICES ASSUME TypeOK, PendingPings, LockstepInv, ExchangeInv, [Next]_vars
             PROVE  ExchangeStuttersOrMoves
  OBVIOUS
<1>1. ASSUME UNCHANGED <<base_rx, station, remote_rx, course>>,
             \A q \in Remotes : SameNumbers(q) /\ Asked(q)' = Asked(q)
      PROVE  ExchangeStuttersOrMoves
  <2>1. \A q \in Remotes : Packet(q)' = Packet(q)
    BY <1>1 DEF Packet
  <2> QED
    BY <1>1, <2>1, SeenSame DEF ExchangeStuttersOrMoves
<1>2. ASSUME UNCHANGED <<ctx, base_rx, station, remote_rx, course>>
      PROVE  ExchangeStuttersOrMoves
  BY <1>1, <1>2 DEF SameNumbers, Asked
<1>3. CASE ConsoleSend \/ PeriodicPing
  <2>1. UNCHANGED <<base_rx, station, course>>
    BY <1>3 DEF ConsoleSend, PeriodicPing
  <2>2. CASE UNCHANGED <<ctx, remote_rx>>
    BY <1>2, <2>1, <2>2
  <2> QED
    BY <1>3, <2>1, <2>2, Sends, SendAsks
<1>4. CASE ConsoleSet \/ ConsoleDone \/ ResponsesDone \/ PingTimer \/ UNCHANGED vars
  BY <1>2, <1>4 DEF ConsoleSet, ConsoleDone, ResponsesDone, PingTimer, vars, baseVars
<1>5. CASE ResetStatistics
  <2>1. UNCHANGED <<station, remote_rx, course, base_rx>>
    BY <1>5 DEF ResetStatistics
  <2>2. ASSUME NEW q \in Remotes
        PROVE  SameNumbers(q) /\ Asked(q)' = Asked(q)
    <3>1. ctx'[q] = [ctx[q] EXCEPT !.sent = 0, !.acked = 0, !.timeouts = 0, !.owed = Pending(q)]
      BY <1>5 DEF ResetStatistics
    <3>2. /\ ctx'[q].waiting = ctx[q].waiting /\ ctx'[q].command = ctx[q].command
          /\ ctx'[q].ping_seq_n = ctx[q].ping_seq_n /\ ctx'[q].move_value = ctx[q].move_value
      BY <3>1 DEF TypeOK, ContextType
    <3> QED
      BY <2>1, <3>2 DEF SameNumbers, Asked
  <2> QED
    BY <1>1, <2>1, <2>2
<1>6. CASE Scan
  BY <1>6, ScanUnseen
<1>7. CASE ProcessResponse
  BY <1>7, ResponseHeard
<1>8. CASE TimeOuts
  BY <1>8, TimeOutsGiveUp
<1>9. CASE RestartBase
  BY <1>9, BaseRestarts
<1>10. ASSUME NEW r \in Remotes,
              HandleCommand(r) \/ RangeLedOff(r) \/ RemoteLine(r) \/ Expire(r) \/ RestartRemote(r)
       PROVE  ExchangeStuttersOrMoves
  BY <1>10, CommandObeyed, RemoteLineUnseen, ExpiryDelays, RemoteRestarts
<1> QED
  BY <1>3, <1>4, <1>5, <1>6, <1>7, <1>8, <1>9, <1>10 DEF Next, BaseLoop, ConsoleLine

\* The link implements V1Exchange: a command is carried out at most once, and
\* what is accepted as its answer was said by the remote when it carried it out,
\* unless a deadline or a restart overtakes a packet (main.c:220-255, 313-408,
\* 412-497).
THEOREM LinkImplementsExchange == Spec => ImplementsExchange
<1> DEFINE Inv == TypeOK /\ PendingPings /\ LockstepInv /\ ExchangeInv
<1>1. Init => Inv
  BY InitTypes, LockstepInitially, ExchangeInitially
<1>2. Inv /\ [Next]_vars => Inv'
  BY TypesStep, LockstepStep, ExchangeStep
<1>3. Inv /\ [Next]_vars => [Exchange!Next]_(Exchange!exchangeVars)
  BY ExchangeSimulated DEF ExchangeStuttersOrMoves
<1> QED
  BY <1>1, <1>2, <1>3, ExchangeStarts, PTL DEF Spec, ImplementsExchange, Exchange!Spec
=============================================================================
