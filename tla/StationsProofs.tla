--------------------------- MODULE StationsProofs ---------------------------
(***************************************************************************)
(* Theorems about a station that runs the V1 or the BasicRF firmware over  *)
(* its nRF24 driver, for every depth of the chip's FIFOs, every power      *)
(* level, any channels scanned and any number of packets.                  *)
(*                                                                         *)
(* What the program is about to do is todo.  A plan says which exchanges   *)
(* may stand in it with how many others behind them, so that the length of *)
(* todo is the place of the program in a routine; the invariants say what  *)
(* the chip is set to at each place.                                       *)
(*                                                                         *)
(* In this order:                                                          *)
(*   plans      what may be left of each routine, and at which place       *)
(*   effects    what each exchange does to the chip                        *)
(*   place      StationInv: the place of the program and the chip there    *)
(*   heard      HeardInv: where the packets are that the chip took in      *)
(*   sent       SentInv: when a transmission and a TX_DS are whose         *)
(*   answered   AckInv: what is being acknowledged while a remote answers  *)
(* Each of the last three rests on StationInv; the last on HeardInv too.   *)
(***************************************************************************)
EXTENDS Stations, TLAPS, SequenceTheorems, FiniteSetTheorems

IsList(s) == \E S : s \in Seq(S)

\* s is what is left of a routine that keeps to the plan.
OnWay(s, plan) == IsList(s) /\ \A i \in 1 .. Len(s) : s[i] \in plan[Len(s) - i]

Clears == {Clear(f) : f \in SUBSET IRQ_MASK}

\* Exchanges that the end of a send puts in front of StartListening, and a scan.
ListenSize(fw) == IF fw = "V1" THEN 7 ELSE 5

EndPlan(fw, r, j) ==
  IF j = ListenSize(fw) /\ r # "ok" THEN {FlushTx}
  ELSE IF j <= ListenSize(fw) + 1 THEN Clears
  ELSE {}

ScanPlan == Clears \cup {CE(TRUE), CE(FALSE), FlushRx, Write("CONFIG", PRX)}
                   \cup {Write("RF_CH", ch) : ch \in 0 .. 125}

\* StartListening, behind the end of a send with result r, a scan or nothing.
ListenPlan(fw, own, r) ==
  [j \in Nat |->
     IF j = 0 THEN {CE(TRUE)}
     ELSE IF j = 1 THEN {Write("CONFIG", PRX)}
     ELSE IF j = 2 THEN Clears
     ELSE IF j = 3 THEN {Write("RX_ADDR_P0", own)}
     ELSE IF j = 4 THEN {CE(FALSE)}
     ELSE IF j = 5 /\ fw = "V1" THEN {Write("RF_CH", RF_CHANNEL)}
     ELSE IF j = 6 /\ fw = "V1" THEN {CE(FALSE)}
     ELSE IF r = "boot" THEN {}
     ELSE IF r = "scan" THEN ScanPlan
     ELSE EndPlan(fw, r, j)]

Powers == {Write("RF_SETUP", 2 * l) : l \in Level}

TunePlan ==
  [j \in Nat |->
     IF j = 0 THEN {CE(TRUE)}
     ELSE IF j = 1 THEN Powers
     ELSE IF j = 2 THEN {CE(FALSE)}
     ELSE {}]

NoPlan == [j \in Nat |-> {}]

\* SendStart, behind the guard time and a change of power.
SendPlan(to, p) ==
  [j \in Nat |->
     IF j = 0 THEN {Poll}
     ELSE IF j = 1 THEN {CE(FALSE)}
     ELSE IF j = 2 THEN {CE(TRUE)}
     ELSE IF j = 3 THEN {Payload(p)}
     ELSE IF j = 4 THEN {FlushTx}
     ELSE IF j = 5 THEN {Clear(IRQ_MASK)}
     ELSE IF j = 6 THEN {Write("RX_ADDR_P0", to)}
     ELSE IF j = 7 THEN {Write("TX_ADDR", to)}
     ELSE IF j = 8 THEN {Write("CONFIG", PTX)}
     ELSE IF j = 9 THEN {CE(FALSE)}
     ELSE IF j = 10 THEN {Guard}
     ELSE IF j > 10 /\ j <= 13 THEN TunePlan[j - 11]
     ELSE {}]

ClearPlan == [j \in Nat |-> IF j = 0 THEN {Clear({"RX_DR"})} ELSE {}]

CheckPlan(fw, j) ==
  IF j = 0 THEN {Expect("RX_PW_P0", PayloadSize(fw))}
  ELSE IF fw = "V1"
    THEN IF j = 1 THEN {Expect("RF_SETUP", 0)}
         ELSE IF j = 2 THEN {Expect("RF_CH", RF_CHANNEL)}
         ELSE IF j = 3 THEN {Expect("SETUP_RETR", 47)}
         ELSE IF j = 4 THEN {Expect("SETUP_AW", 3)}
         ELSE IF j = 5 THEN {Expect("EN_RXADDR", 1)}
         ELSE {Expect("EN_AA", 1)}
  ELSE IF j = 1 THEN {Expect("RF_CH", RF_CHANNEL)}
  ELSE {Expect("SETUP_AW", 3)}

CheckSize(fw) == IF fw = "V1" THEN 7 ELSE 3

\* What nrf24_init() does but for the flush of the receive FIFO.
BootRegisters ==
  {Write(r, v) : r \in {"EN_AA", "EN_RXADDR", "SETUP_AW", "SETUP_RETR",
                        "RF_CH", "RF_SETUP", "RX_PW_P0"}, v \in 0 .. 255}
BootOthers ==
  {CE(FALSE), FlushTx, Write("CONFIG", Down), Write("CONFIG", PTX),
   Write("DYNPD", 0), Write("FEATURE", 0)}
BootWrites == BootOthers \cup Clears \cup BootRegisters

\* nrf24_init(), which checks what it has written.
BootPlan(fw) ==
  [j \in Nat |->
     IF j < CheckSize(fw) THEN CheckPlan(fw, j)
     ELSE IF j = CheckSize(fw) + 2 THEN {FlushRx}
     ELSE IF j < CheckSize(fw) + 15 THEN BootWrites
     ELSE {}]

-----------------------------------------------------------------------------
\* Lists

LEMMA TailOnWay ==
  ASSUME NEW s, NEW plan, OnWay(s, plan), s # <<>>
  PROVE  /\ Len(s) \in Nat \ {0} /\ Len(Tail(s)) = Len(s) - 1
         /\ Head(s) \in plan[Len(s) - 1] /\ OnWay(Tail(s), plan)
<1>1. PICK S : s \in Seq(S)
  BY DEF OnWay, IsList
<1>2. /\ Len(s) \in Nat \ {0} /\ Tail(s) \in Seq(S) /\ Len(Tail(s)) = Len(s) - 1
      /\ Head(s) = s[1] /\ \A i \in 1 .. Len(s) - 1 : Tail(s)[i] = s[i + 1]
  BY <1>1, HeadTailProperties, EmptySeq
<1>3. Head(s) \in plan[Len(s) - 1]
  BY <1>2 DEF OnWay
<1>4. ASSUME NEW i \in 1 .. Len(Tail(s))
      PROVE  Tail(s)[i] \in plan[Len(Tail(s)) - i]
  <2>1. i + 1 \in 1 .. Len(s) /\ Len(s) - (i + 1) = Len(Tail(s)) - i
    BY <1>2
  <2>2. s[i + 1] \in plan[Len(s) - (i + 1)]
    BY <2>1 DEF OnWay
  <2> QED
    BY <1>2, <2>1, <2>2
<1> QED
  BY <1>2, <1>3, <1>4 DEF OnWay, IsList

LEMMA ConcatOnWay ==
  ASSUME NEW a, IsList(a), NEW b, NEW plan, OnWay(b, plan),
         \A i \in 1 .. Len(a) : a[i] \in plan[(Len(a) - i) + Len(b)]
  PROVE  OnWay(a \o b, plan) /\ Len(a \o b) = Len(a) + Len(b)
<1>1. PICK S, T : a \in Seq(S) /\ b \in Seq(T)
  BY DEF OnWay, IsList
<1>2. a \in Seq(S \cup T) /\ b \in Seq(S \cup T)
  BY <1>1
<1>3. /\ a \o b \in Seq(S \cup T) /\ Len(a \o b) = Len(a) + Len(b)
      /\ \A i \in 1 .. Len(a) + Len(b) :
           (a \o b)[i] = IF i <= Len(a) THEN a[i] ELSE b[i - Len(a)]
  BY <1>2, ConcatProperties
<1>4. Len(a) \in Nat /\ Len(b) \in Nat
  BY <1>2
<1>5. ASSUME NEW i \in 1 .. Len(a) + Len(b)
      PROVE  (a \o b)[i] \in plan[(Len(a) + Len(b)) - i]
  <2>1. CASE i <= Len(a)
    <3>1. i \in 1 .. Len(a) /\ (Len(a) + Len(b)) - i = (Len(a) - i) + Len(b)
      BY <1>4, <2>1
    <3> QED
      BY <1>3, <2>1, <3>1
  <2>2. CASE ~(i <= Len(a))
    <3>1. i - Len(a) \in 1 .. Len(b) /\ (Len(a) + Len(b)) - i = Len(b) - (i - Len(a))
      BY <1>4, <2>2
    <3>2. b[i - Len(a)] \in plan[Len(b) - (i - Len(a))]
      BY <3>1 DEF OnWay
    <3> QED
      BY <1>3, <2>2, <3>1, <3>2
  <2> QED
    BY <2>1, <2>2
<1> QED
  BY <1>3, <1>5 DEF OnWay, IsList

LEMMA EmptyOnWay == \A plan : OnWay(<<>>, plan) /\ Len(<<>>) = 0
<1>1. <<>> \in Seq({}) /\ Len(<<>>) = 0
  BY EmptySeq
<1> QED
  BY <1>1 DEF OnWay, IsList

LEMMA NoneLeft ==
  ASSUME NEW s, NEW plan, OnWay(s, plan)
  PROVE  Len(s) \in Nat /\ (s = <<>> <=> Len(s) = 0)
  BY EmptySeq DEF OnWay, IsList

LEMMA OneOnWay ==
  ASSUME NEW plan, NEW b, OnWay(b, plan), NEW x \in plan[Len(b)]
  PROVE  OnWay(<<x>> \o b, plan) /\ Len(<<x>> \o b) = Len(b) + 1
<1> DEFINE a == <<x>>
<1>1. a \in Seq({x}) /\ Len(a) = 1 /\ a[1] = x
  OBVIOUS
<1> HIDE DEF a
<1>2. IsList(a) /\ Len(b) \in Nat
  BY <1>1 DEF IsList, OnWay
<1>3. \A i \in 1 .. Len(a) : a[i] \in plan[(Len(a) - i) + Len(b)]
  BY <1>1, <1>2
<1>4. OnWay(a \o b, plan) /\ Len(a \o b) = Len(a) + Len(b)
  BY <1>2, <1>3, ConcatOnWay
<1> QED
  BY <1>1, <1>2, <1>4 DEF a

LEMMA TwoOnWay ==
  ASSUME NEW plan, NEW b, OnWay(b, plan), NEW x \in plan[Len(b) + 1], NEW y \in plan[Len(b)]
  PROVE  OnWay(<<x, y>> \o b, plan) /\ Len(<<x, y>> \o b) = Len(b) + 2
<1> DEFINE a == <<x, y>>
<1>1. a \in Seq({x, y}) /\ Len(a) = 2 /\ a[1] = x /\ a[2] = y
  OBVIOUS
<1> HIDE DEF a
<1>2. IsList(a) /\ Len(b) \in Nat
  BY <1>1 DEF IsList, OnWay
<1>3. \A i \in 1 .. Len(a) : a[i] \in plan[(Len(a) - i) + Len(b)]
  BY <1>1, <1>2
<1>4. OnWay(a \o b, plan) /\ Len(a \o b) = Len(a) + Len(b)
  BY <1>2, <1>3, ConcatOnWay
<1> QED
  BY <1>1, <1>2, <1>4 DEF a

LEMMA AppendOne ==
  ASSUME NEW x, NEW y
  PROVE  Append(<<>>, y) = <<y>> /\ Append(<<x>>, y) = <<x, y>>
<1> DEFINE S == {x, y}
           a == Append(<<x>>, y)
           b == Append(<<>>, y)
           c == <<x, y>>
           d == <<y>>
<1>1. /\ a \in Seq(S) /\ Len(a) = 2 /\ a[1] = x /\ a[2] = y
      /\ b \in Seq(S) /\ Len(b) = 1 /\ b[1] = y
      /\ c \in Seq(S) /\ Len(c) = 2 /\ c[1] = x /\ c[2] = y
      /\ d \in Seq(S) /\ Len(d) = 1 /\ d[1] = y
  OBVIOUS
<1> HIDE DEF a, b, c, d
<1>2. a = c
  <2>1. \A i \in 1 .. Len(a) : a[i] = c[i]
    BY <1>1
  <2> QED
    BY <1>1, <2>1, SeqEqual
<1>3. b = d
  <2>1. \A i \in 1 .. Len(b) : b[i] = d[i]
    BY <1>1
  <2> QED
    BY <1>1, <2>1, SeqEqual
<1> QED
  BY <1>2, <1>3 DEF a, b, c, d

LEMMA FiveOnWay ==
  ASSUME NEW plan, NEW x4 \in plan[4], NEW x3 \in plan[3], NEW x2 \in plan[2],
         NEW x1 \in plan[1], NEW x0 \in plan[0]
  PROVE  OnWay(<<x4, x3, x2, x1, x0>>, plan) /\ Len(<<x4, x3, x2, x1, x0>>) = 5
<1> DEFINE a == <<x4, x3, x2, x1, x0>>
<1>1. /\ a \in Seq({x4, x3, x2, x1, x0}) /\ Len(a) = 5
      /\ a[1] = x4 /\ a[2] = x3 /\ a[3] = x2 /\ a[4] = x1 /\ a[5] = x0
  OBVIOUS
<1> HIDE DEF a
<1>2. \A i \in 1 .. 5 : a[i] \in plan[5 - i]
  BY <1>1
<1>3. OnWay(a, plan) /\ Len(a) = 5
  BY <1>1, <1>2 DEF OnWay, IsList
<1> QED
  BY <1>3 DEF a

-----------------------------------------------------------------------------
\* The routines keep to their plans

LEMMA ListenOnWay ==
  ASSUME NEW fw \in Firmware, NEW own, NEW r
  PROVE  /\ OnWay(StartListening(fw, own), ListenPlan(fw, own, r))
         /\ Len(StartListening(fw, own)) = ListenSize(fw)
<1> DEFINE flags == IF fw = "V1" THEN IRQ_MASK ELSE {"RX_DR"}
           b == <<CE(FALSE), Write("RX_ADDR_P0", own), Clear(flags), Write("CONFIG", PRX), CE(TRUE)>>
           plan == ListenPlan(fw, own, r)
<1>1. Clear(flags) \in Clears
  BY DEF Clears, IRQ_MASK
<1>2. /\ plan[0] = {CE(TRUE)} /\ plan[1] = {Write("CONFIG", PRX)} /\ plan[2] = Clears
      /\ plan[3] = {Write("RX_ADDR_P0", own)} /\ plan[4] = {CE(FALSE)}
  BY DEF ListenPlan
<1>3. fw = "V1" => plan[5] = {Write("RF_CH", RF_CHANNEL)} /\ plan[6] = {CE(FALSE)}
  BY DEF ListenPlan
<1>4. StartListening(fw, own) = SetChannel(fw) \o b
  BY DEF StartListening
<1> HIDE DEF plan
<1>5. OnWay(b, plan) /\ Len(b) = 5
  <2> HIDE DEF flags
  <2> QED
    BY <1>1, <1>2, FiveOnWay
<1> HIDE DEF b
<1>6. CASE fw = "V1"
  <2>1. SetChannel(fw) = <<CE(FALSE), Write("RF_CH", RF_CHANNEL)>> /\ ListenSize(fw) = 7
    BY <1>6 DEF SetChannel, ListenSize
  <2>2. CE(FALSE) \in plan[Len(b) + 1] /\ Write("RF_CH", RF_CHANNEL) \in plan[Len(b)]
    <3>1. 5 + 1 = 6
      OBVIOUS
    <3> QED
      BY <1>3, <1>5, <1>6, <3>1
  <2>3. OnWay(SetChannel(fw) \o b, plan) /\ Len(SetChannel(fw) \o b) = Len(b) + 2
    BY <1>5, <2>1, <2>2, TwoOnWay
  <2> QED
    BY <1>4, <1>5, <2>1, <2>3 DEF plan
<1>7. CASE fw = "BasicRF"
  <2>1. SetChannel(fw) = <<>> /\ ListenSize(fw) = 5
    BY <1>7 DEF SetChannel, ListenSize
  <2>2. <<>> \o b = b
    BY <1>5, ConcatEmptySeq DEF OnWay, IsList
  <2> QED
    BY <1>4, <1>5, <2>1, <2>2 DEF plan
<1> QED
  BY <1>6, <1>7 DEF Firmware

LEMMA EndOnWay ==
  ASSUME NEW fw \in Firmware, NEW own, NEW r \in {"ok", "max_retries", "timeout"}
  PROVE  /\ OnWay(SendEnd(fw, r) \o StartListening(fw, own), ListenPlan(fw, own, r))
         /\ Len(SendEnd(fw, r) \o StartListening(fw, own)) > ListenSize(fw)
<1> DEFINE b == StartListening(fw, own)
           plan == ListenPlan(fw, own, r)
           n == ListenSize(fw)
<1>1. OnWay(b, plan) /\ Len(b) = n /\ n \in {5, 7}
  BY ListenOnWay DEF ListenSize
<1>2. /\ r = "ok" => plan[n] = Clears
      /\ r # "ok" => plan[n] = {FlushTx} /\ plan[n + 1] = Clears
  <2>1. n \in Nat /\ n + 1 \in Nat /\ plan[n] = EndPlan(fw, r, n) /\ plan[n + 1] = EndPlan(fw, r, n + 1)
    BY DEF ListenPlan, ListenSize, Firmware
  <2> QED
    BY <2>1 DEF EndPlan
<1>3. \A f \in SUBSET IRQ_MASK : Clear(f) \in Clears
  BY DEF Clears
<1>4. {"TX_DS"} \in SUBSET IRQ_MASK /\ {"MAX_RT"} \in SUBSET IRQ_MASK /\ IRQ_MASK \in SUBSET IRQ_MASK
  BY DEF IRQ_MASK
<1> HIDE DEF plan, b, n
<1>5. CASE r = "ok"
  <2>1. PICK f \in SUBSET IRQ_MASK : SendEnd(fw, r) = <<Clear(f)>>
    BY <1>4, <1>5 DEF SendEnd
  <2>2. OnWay(SendEnd(fw, r) \o b, plan) /\ Len(SendEnd(fw, r) \o b) > n
    BY <1>1, <1>2, <1>3, <1>5, <2>1, OneOnWay
  <2> QED
    BY <2>2 DEF plan, b, n
<1>6. CASE r = "max_retries" \/ (r = "timeout" /\ fw = "V1")
  <2>1. PICK f \in SUBSET IRQ_MASK : SendEnd(fw, r) = Append(<<Clear(f)>>, FlushTx)
    BY <1>4, <1>6 DEF SendEnd
  <2>2. Append(<<Clear(f)>>, FlushTx) = <<Clear(f), FlushTx>>
    BY AppendOne
  <2>3. Clear(f) \in plan[Len(b) + 1] /\ FlushTx \in plan[Len(b)]
    BY <1>1, <1>2, <1>3, <1>6
  <2>4. OnWay(SendEnd(fw, r) \o b, plan) /\ Len(SendEnd(fw, r) \o b) = n + 2
    BY <1>1, <2>1, <2>2, <2>3, TwoOnWay
  <2> QED
    BY <1>1, <2>4 DEF plan, b, n
<1>7. CASE r = "timeout" /\ fw = "BasicRF"
  <2>1. SendEnd(fw, r) = Append(<<>>, FlushTx)
    BY <1>7 DEF SendEnd
  <2>2. Append(<<>>, FlushTx) = <<FlushTx>>
    BY AppendOne
  <2>3. OnWay(SendEnd(fw, r) \o b, plan) /\ Len(SendEnd(fw, r) \o b) > n
    BY <1>1, <1>2, <1>7, <2>1, <2>2, OneOnWay
  <2> QED
    BY <2>3 DEF plan, b, n
<1> QED
  BY <1>5, <1>6, <1>7 DEF Firmware

LEMMA ScanOnWay ==
  ASSUME NEW own
  PROVE  /\ OnWay(Scan \o StartListening("V1", own), ListenPlan("V1", own, "scan"))
         /\ Len(Scan \o StartListening("V1", own)) >= 7
<1> DEFINE b == StartListening("V1", own)
           plan == ListenPlan("V1", own, "scan")
<1>1. OnWay(b, plan) /\ Len(b) = 7
  BY ListenOnWay DEF ListenSize, Firmware
<1>2. ASSUME NEW j \in Nat, j >= 7
      PROVE  plan[j] = ScanPlan
  <2>1. j # 0 /\ j # 1 /\ j # 2 /\ j # 3 /\ j # 4 /\ j # 5 /\ j # 6
    BY <1>2
  <2> QED
    BY <2>1 DEF ListenPlan
<1> HIDE DEF plan, b
<1>3. Len(Scanned) \in Nat /\ \A i \in 1 .. Len(Scanned) : Scanned[i] \in 0 .. 125
  <2>1. Scanned \in Seq(0 .. 125)
    BY ChipAssumption
  <2> QED
    BY <2>1, LenProperties
<1>4. ASSUME NEW i \in 1 .. 7 * Len(Scanned)
      PROVE  Scan[i] \in ScanPlan
  <2>1. PICK k \in 1 .. 7, ch \in 0 .. 125 : Scan[i] = MeasureChannelNoise(ch)[k]
    <3>1. (i + 6) \div 7 \in 1 .. Len(Scanned) /\ ((i - 1) % 7) + 1 \in 1 .. 7
      BY <1>3
    <3>2. Scan[i] = MeasureChannelNoise(Scanned[(i + 6) \div 7])[((i - 1) % 7) + 1]
      BY DEF Scan
    <3> QED
      BY <1>3, <3>1, <3>2
  <2>2. Clear({"RX_DR"}) \in Clears
    BY DEF Clears, IRQ_MASK
  <2>3. MeasureChannelNoise(ch)[k] \in
          {CE(FALSE), Write("RF_CH", ch), Write("CONFIG", PRX), CE(TRUE), FlushRx, Clear({"RX_DR"})}
    <3> DEFINE s == MeasureChannelNoise(ch)
    <3>1. /\ s[1] = CE(FALSE) /\ s[2] = Write("RF_CH", ch) /\ s[3] = Write("CONFIG", PRX)
          /\ s[4] = CE(TRUE) /\ s[5] = CE(FALSE) /\ s[6] = FlushRx /\ s[7] = Clear({"RX_DR"})
      BY DEF MeasureChannelNoise
    <3> HIDE DEF s
    <3>2. s[k] \in {s[1], s[2], s[3], s[4], s[5], s[6], s[7]}
      OBVIOUS
    <3>3. s[k] \in {CE(FALSE), Write("RF_CH", ch), Write("CONFIG", PRX), CE(TRUE), FlushRx, Clear({"RX_DR"})}
      BY <3>1, <3>2
    <3> QED
      BY <3>3 DEF s
  <2> QED
    BY <2>1, <2>2, <2>3 DEF ScanPlan
<1>5. Scan \in Seq(ScanPlan) /\ Len(Scan) = 7 * Len(Scanned)
  <2>1. 7 * Len(Scanned) \in Nat
    BY <1>3
  <2>2. Scan = [i \in 1 .. 7 * Len(Scanned) |-> Scan[i]]
    BY DEF Scan
  <2> QED
    BY <1>4, <2>1, <2>2
<1>6. \A i \in 1 .. Len(Scan) : Scan[i] \in plan[(Len(Scan) - i) + Len(b)]
  BY <1>1, <1>2, <1>3, <1>4, <1>5
<1>7. OnWay(Scan \o b, plan) /\ Len(Scan \o b) = Len(Scan) + Len(b)
  BY <1>1, <1>5, <1>6, ConcatOnWay DEF IsList
<1>8. Len(Scan \o b) >= 7
  BY <1>1, <1>3, <1>5, <1>7
<1> QED
  BY <1>7, <1>8 DEF plan, b

LEMMA TuneOnWay ==
  ASSUME NEW l \in Level
  PROVE  OnWay(SetTxPower(l, TRUE), TunePlan) /\ Len(SetTxPower(l, TRUE)) = 3
<1> DEFINE b == <<CE(TRUE)>>
<1>1. /\ TunePlan[0] = {CE(TRUE)} /\ TunePlan[2] = {CE(FALSE)}
      /\ Write("RF_SETUP", 2 * l) \in TunePlan[1]
  BY DEF TunePlan, Powers
<1>2. b \in Seq({CE(TRUE)}) /\ Len(b) = 1 /\ b[1] = CE(TRUE)
  OBVIOUS
<1>3. SetTxPower(l, TRUE) = <<CE(FALSE), Write("RF_SETUP", 2 * l)>> \o b
  BY DEF SetTxPower
<1> HIDE DEF b
<1>4. OnWay(b, TunePlan)
  <2>1. ASSUME NEW i \in 1 .. Len(b)
        PROVE  b[i] \in TunePlan[Len(b) - i]
    <3>1. i = 1 /\ Len(b) - i = 0
      BY <1>2
    <3> QED
      BY <1>1, <1>2, <3>1
  <2>2. IsList(b)
    BY <1>2 DEF IsList
  <2> QED
    BY <2>1, <2>2 DEF OnWay
<1>5. Len(b) + 1 = 2 /\ Len(b) + 2 = 3
  BY <1>2
<1>6. CE(FALSE) \in TunePlan[Len(b) + 1] /\ Write("RF_SETUP", 2 * l) \in TunePlan[Len(b)]
  BY <1>1, <1>2, <1>5
<1>7. /\ OnWay(<<CE(FALSE), Write("RF_SETUP", 2 * l)>> \o b, TunePlan)
      /\ Len(<<CE(FALSE), Write("RF_SETUP", 2 * l)>> \o b) = Len(b) + 2
  BY <1>4, <1>6, TwoOnWay
<1> QED
  BY <1>3, <1>5, <1>7

LEMMA SendOnWay ==
  ASSUME NEW to, NEW p
  PROVE  OnWay(SendStart(to, p), SendPlan(to, p)) /\ Len(SendStart(to, p)) = 10
<1> DEFINE s == SendStart(to, p)
           plan == SendPlan(to, p)
<1>1. /\ s[1] = CE(FALSE) /\ s[2] = Write("CONFIG", PTX) /\ s[3] = Write("TX_ADDR", to)
      /\ s[4] = Write("RX_ADDR_P0", to) /\ s[5] = Clear(IRQ_MASK) /\ s[6] = FlushTx
      /\ s[7] = Payload(p) /\ s[8] = CE(TRUE) /\ s[9] = CE(FALSE) /\ s[10] = Poll
      /\ Len(s) = 10
  BY DEF SendStart
<1>2. s \in Seq({s[1], s[2], s[3], s[4], s[5], s[6], s[7], s[8], s[9], s[10]})
  BY DEF SendStart
<1>3. /\ plan[0] = {Poll} /\ plan[1] = {CE(FALSE)} /\ plan[2] = {CE(TRUE)}
      /\ plan[3] = {Payload(p)} /\ plan[4] = {FlushTx} /\ plan[5] = {Clear(IRQ_MASK)}
      /\ plan[6] = {Write("RX_ADDR_P0", to)} /\ plan[7] = {Write("TX_ADDR", to)}
      /\ plan[8] = {Write("CONFIG", PTX)} /\ plan[9] = {CE(FALSE)}
  BY DEF SendPlan
<1> HIDE DEF s, plan
<1>4. /\ s[1] \in plan[9] /\ s[2] \in plan[8] /\ s[3] \in plan[7] /\ s[4] \in plan[6]
      /\ s[5] \in plan[5] /\ s[6] \in plan[4] /\ s[7] \in plan[3] /\ s[8] \in plan[2]
      /\ s[9] \in plan[1] /\ s[10] \in plan[0]
  BY <1>1, <1>3
<1>5. \A i \in 1 .. 10 : s[i] \in plan[10 - i]
  BY <1>4
<1>6. OnWay(s, plan)
  BY <1>1, <1>2, <1>5 DEF OnWay, IsList
<1> QED
  BY <1>1, <1>6 DEF s, plan

LEMMA AnswerOnWay ==
  ASSUME NEW to, NEW p
  PROVE  /\ OnWay(<<Guard>> \o SendStart(to, p), SendPlan(to, p))
         /\ Len(<<Guard>> \o SendStart(to, p)) = 11
<1>1. SendPlan(to, p)[10] = {Guard}
  BY DEF SendPlan
<1>2. OnWay(SendStart(to, p), SendPlan(to, p)) /\ Len(SendStart(to, p)) = 10
  BY SendOnWay
<1>3. Guard \in SendPlan(to, p)[Len(SendStart(to, p))]
  BY <1>1, <1>2
<1>4. /\ OnWay(<<Guard>> \o SendStart(to, p), SendPlan(to, p))
      /\ Len(<<Guard>> \o SendStart(to, p)) = Len(SendStart(to, p)) + 1
  BY <1>2, <1>3, OneOnWay
<1> QED
  BY <1>2, <1>4

LEMMA TunedAnswerOnWay ==
  ASSUME NEW to, NEW p, NEW l \in Level
  PROVE  /\ OnWay(SetTxPower(l, TRUE) \o (<<Guard>> \o SendStart(to, p)), SendPlan(to, p))
         /\ Len(SetTxPower(l, TRUE) \o (<<Guard>> \o SendStart(to, p))) = 14
<1> DEFINE a == SetTxPower(l, TRUE)
           b == <<Guard>> \o SendStart(to, p)
           plan == SendPlan(to, p)
<1>1. OnWay(a, TunePlan) /\ Len(a) = 3
  BY TuneOnWay
<1>2. OnWay(b, plan) /\ Len(b) = 11
  BY AnswerOnWay
<1>3. plan[11] = TunePlan[0] /\ plan[12] = TunePlan[1] /\ plan[13] = TunePlan[2]
  BY DEF SendPlan
<1> HIDE DEF a, b, plan
<1>4. \A i \in 1 .. Len(a) : a[i] \in plan[(Len(a) - i) + Len(b)]
  BY <1>1, <1>2, <1>3 DEF OnWay
<1>5. IsList(a)
  BY <1>1 DEF OnWay
<1>6. OnWay(a \o b, plan) /\ Len(a \o b) = Len(a) + Len(b)
  BY <1>2, <1>4, <1>5, ConcatOnWay
<1>7. Len(a \o b) = 14
  BY <1>1, <1>2, <1>6
<1> QED
  BY <1>6, <1>7 DEF a, b, plan

LEMMA ClearOnWay == OnWay(<<Clear({"RX_DR"})>>, ClearPlan) /\ Len(<<Clear({"RX_DR"})>>) = 1
<1> DEFINE b == <<Clear({"RX_DR"})>>
<1>1. b \in Seq({Clear({"RX_DR"})}) /\ Len(b) = 1 /\ b[1] = Clear({"RX_DR"})
  OBVIOUS
<1>2. ClearPlan[0] = {Clear({"RX_DR"})}
  BY DEF ClearPlan
<1> HIDE DEF b
<1>3. OnWay(b, ClearPlan)
  BY <1>1, <1>2 DEF OnWay, IsList
<1> QED
  BY <1>1, <1>3 DEF b

LEMMA CheckOnWay ==
  ASSUME NEW fw \in Firmware
  PROVE  OnWay(CheckConfig(fw), BootPlan(fw)) /\ Len(CheckConfig(fw)) = CheckSize(fw)
<1> DEFINE s == CheckConfig(fw)
           plan == BootPlan(fw)
<1>1. \A j \in Nat : j < CheckSize(fw) => plan[j] = CheckPlan(fw, j)
  BY DEF BootPlan
<1>2. CASE fw = "V1"
  <2>1. /\ s[1] = Expect("EN_AA", 1) /\ s[2] = Expect("EN_RXADDR", 1)
        /\ s[3] = Expect("SETUP_AW", 3) /\ s[4] = Expect("SETUP_RETR", 47)
        /\ s[5] = Expect("RF_CH", RF_CHANNEL) /\ s[6] = Expect("RF_SETUP", 0)
        /\ s[7] = Expect("RX_PW_P0", PayloadSize(fw)) /\ Len(s) = 7
        /\ s \in Seq({s[1], s[2], s[3], s[4], s[5], s[6], s[7]})
    BY <1>2 DEF CheckConfig
  <2>2. CheckSize(fw) = 7
    BY <1>2 DEF CheckSize
  <2> HIDE DEF s, plan
  <2>3. ASSUME NEW i \in 1 .. 7
        PROVE  s[i] \in plan[7 - i]
    <3>1. 7 - i \in Nat /\ plan[7 - i] = CheckPlan(fw, 7 - i)
      BY <1>1, <2>2
    <3> QED
      BY <1>2, <2>1, <3>1 DEF CheckPlan
  <2>4. OnWay(s, plan)
    BY <2>1, <2>3 DEF OnWay, IsList
  <2> QED
    BY <2>1, <2>2, <2>4 DEF s, plan
<1>3. CASE fw = "BasicRF"
  <2>1. /\ s[1] = Expect("SETUP_AW", 3) /\ s[2] = Expect("RF_CH", RF_CHANNEL)
        /\ s[3] = Expect("RX_PW_P0", PayloadSize(fw)) /\ Len(s) = 3
        /\ s \in Seq({s[1], s[2], s[3]})
    BY <1>3 DEF CheckConfig
  <2>2. CheckSize(fw) = 3
    BY <1>3 DEF CheckSize
  <2> HIDE DEF s, plan
  <2>3. ASSUME NEW i \in 1 .. 3
        PROVE  s[i] \in plan[3 - i]
    <3>1. 3 - i \in Nat /\ plan[3 - i] = CheckPlan(fw, 3 - i)
      BY <1>1, <2>2
    <3> QED
      BY <1>3, <2>1, <3>1 DEF CheckPlan
  <2>4. OnWay(s, plan)
    BY <2>1, <2>3 DEF OnWay, IsList
  <2> QED
    BY <2>1, <2>2, <2>4 DEF s, plan
<1> QED
  BY <1>2, <1>3 DEF Firmware

LEMMA BootOnWay ==
  ASSUME NEW fw \in Firmware
  PROVE  /\ OnWay(Configure(fw) \o CheckConfig(fw), BootPlan(fw))
         /\ Len(Configure(fw) \o CheckConfig(fw)) = 15 + CheckSize(fw)
<1> DEFINE a == Configure(fw)
           b == CheckConfig(fw)
           plan == BootPlan(fw)
           n == CheckSize(fw)
<1>1. OnWay(b, plan) /\ Len(b) = n /\ n \in Nat
  BY CheckOnWay DEF CheckSize
<1>2. plan[n + 2] = {FlushRx}
  BY DEF BootPlan, CheckSize
<1>3. ASSUME NEW j \in Nat, j >= n, j # n + 2, j < n + 15
      PROVE  plan[j] = BootWrites
  <2>1. ~(j < n)
    BY <1>1, <1>3
  <2> QED
    BY <1>3, <2>1 DEF BootPlan
<1>4. /\ a[1] = CE(FALSE) /\ a[2] = Write("CONFIG", Down) /\ a[3] = Write("EN_AA", 1)
      /\ a[4] = Write("EN_RXADDR", 1) /\ a[5] = Write("SETUP_AW", 3)
      /\ a[6] = Write("SETUP_RETR", 47) /\ a[7] = Write("RF_CH", RF_CHANNEL)
      /\ a[8] = Write("RF_SETUP", 0) /\ a[9] = Write("RX_PW_P0", PayloadSize(fw))
      /\ a[10] = Write("DYNPD", 0) /\ a[11] = Write("FEATURE", 0) /\ a[12] = Clear(IRQ_MASK)
      /\ a[13] = FlushRx /\ a[14] = FlushTx /\ a[15] = Write("CONFIG", PTX) /\ Len(a) = 15
  BY DEF Configure
<1>5. a \in Seq({a[1], a[2], a[3], a[4], a[5], a[6], a[7], a[8], a[9], a[10], a[11], a[12],
                 a[13], a[14], a[15]})
  BY DEF Configure
<1> HIDE DEF a, b, plan, n
<1>6. ASSUME NEW i \in 1 .. 15, i # 13
      PROVE  a[i] \in BootWrites
  <2>1. PayloadSize(fw) \in 0 .. 255 /\ RF_CHANNEL \in 0 .. 255
    BY DEF PayloadSize, RF_CHANNEL
  <2>2. /\ CE(FALSE) \in BootWrites /\ FlushTx \in BootWrites
        /\ Write("CONFIG", Down) \in BootWrites /\ Write("CONFIG", PTX) \in BootWrites
        /\ Write("DYNPD", 0) \in BootWrites /\ Write("FEATURE", 0) \in BootWrites
    BY DEF BootWrites, BootOthers
  <2>3. i \in {1, 2, 10, 11, 14, 15} => a[i] \in BootWrites
    BY <1>4, <2>2
  <2>4. i = 12 => a[i] \in BootWrites
    <3>1. IRQ_MASK \in SUBSET IRQ_MASK
      OBVIOUS
    <3>2. Clear(IRQ_MASK) \in Clears
      BY <3>1 DEF Clears
    <3>3. Clear(IRQ_MASK) \in BootWrites
      BY <3>2 DEF BootWrites
    <3> QED
      BY <1>4, <3>3
  <2>5. i \in 3 .. 9 => a[i] \in BootWrites
    <3>1. ASSUME NEW r \in {"EN_AA", "EN_RXADDR", "SETUP_AW", "SETUP_RETR",
                            "RF_CH", "RF_SETUP", "RX_PW_P0"}, NEW v \in 0 .. 255
          PROVE  Write(r, v) \in BootWrites
      <4>1. Write(r, v) \in BootRegisters
        BY DEF BootRegisters
      <4> QED
        BY <4>1 DEF BootWrites
    <3>2. /\ a[3] \in BootWrites /\ a[4] \in BootWrites /\ a[5] \in BootWrites /\ a[6] \in BootWrites
          /\ a[7] \in BootWrites /\ a[8] \in BootWrites /\ a[9] \in BootWrites
      BY <1>4, <2>1, <3>1
    <3> QED
      BY <3>2
  <2> QED
    BY <1>6, <2>3, <2>4, <2>5
<1>7. ASSUME NEW i \in 1 .. Len(a)
      PROVE  a[i] \in plan[(Len(a) - i) + Len(b)]
  <2>1. CASE i = 13
    BY <1>1, <1>2, <1>4, <2>1
  <2>2. CASE i # 13
    <3>1. /\ (Len(a) - i) + Len(b) \in Nat /\ (Len(a) - i) + Len(b) >= n
          /\ (Len(a) - i) + Len(b) # n + 2 /\ (Len(a) - i) + Len(b) < n + 15
      BY <1>1, <1>4, <2>2
    <3> QED
      BY <1>3, <1>4, <1>6, <2>2, <3>1
  <2> QED
    BY <2>1, <2>2
<1>8. IsList(a)
  BY <1>5 DEF IsList
<1>9. OnWay(a \o b, plan) /\ Len(a \o b) = Len(a) + Len(b)
  BY <1>1, <1>7, <1>8, ConcatOnWay
<1> QED
  BY <1>1, <1>4, <1>9 DEF a, b, plan, n

-----------------------------------------------------------------------------
\* The inductive invariant

Registers == {"CONFIG", "EN_AA", "EN_RXADDR", "SETUP_AW", "SETUP_RETR", "RF_CH", "RF_SETUP",
              "RX_PW_P0", "DYNPD", "FEATURE", "RX_ADDR_P0", "TX_ADDR"}
Values == 0 .. 255 \cup {"none", "base", "remote"}
Packets == [to : {"base", "remote"}, kind : {"ping", "reply", "bad"}, seq : Nat]
Chips == [reg : [Registers -> Values], flags : SUBSET IRQ_MASK, rx : Seq(Packets), tx : Seq(Nat),
          ce : BOOLEAN, on : BOOLEAN, sending : BOOLEAN, acking : Seq(Packets)]
Airs == [strays : Nat, far_got : SUBSET Nat, far_sent : SUBSET Nat, heard : SUBSET Packets,
         acked : SUBSET Packets, read : SUBSET Packets, scanned : SUBSET Packets,
         raised : BOOLEAN]

TypeInv ==
  /\ firmware \in Firmware /\ role \in {"base", "remote"}
  /\ chip \in Chips /\ (chip.sending => chip.tx # <<>>)
  /\ doing \in Activities /\ sound \in BOOLEAN
  /\ packet \in Packets \cup {NoPacket}
  /\ result \in {"none", "ok", "max_retries", "timeout"}
  /\ next_sequence \in Nat /\ waiting \in BOOLEAN
  /\ air \in Airs

\* nrf24_send() before and after its outcome.
Sending == doing \in {"send", "reply"} /\ result = "none"
Closing == doing \in {"send", "reply"} /\ result # "none"
Sequence == IF doing = "reply" THEN packet.seq ELSE next_sequence

PlanOf ==
  IF doing = "boot" THEN BootPlan(firmware)
  ELSE IF doing = "start" THEN ListenPlan(firmware, Own, "boot")
  ELSE IF doing = "scan" THEN ListenPlan(firmware, Own, "scan")
  ELSE IF doing = "tune" THEN TunePlan
  ELSE IF doing \in {"await", "read"} THEN ClearPlan
  ELSE IF Sending THEN SendPlan(Far, Sequence)
  ELSE IF Closing THEN ListenPlan(firmware, Own, result)
  ELSE NoPlan

PlaceInv ==
  /\ OnWay(todo, PlanOf)
  /\ Sending => todo # <<>>
  /\ doing = "scan" => firmware = "V1"
  /\ doing = "reply" => role = "remote"
  /\ doing = "send" => role = "base"

Left == Len(todo)

\* What the checks at the end of nrf24_init() have shown, unless the power went
\* meanwhile: then the last of them fails.
CheckedInv ==
  /\ ~chip.ce
  /\ Left = 0 /\ sound => chip.on /\ chip.reg.RX_PW_P0 = PayloadSize(firmware)
  /\ sound /\ chip.on /\ chip.reg.RX_PW_P0 = PayloadSize(firmware) =>
       /\ firmware = "BasicRF" /\ Left <= 1 => chip.reg.RF_CH = RF_CHANNEL
       /\ firmware = "V1" =>
            /\ Left <= 6 => chip.reg.EN_AA = 1
            /\ Left <= 5 => chip.reg.EN_RXADDR = 1
            /\ Left <= 4 => chip.reg.SETUP_AW = 3
            /\ Left <= 3 => chip.reg.SETUP_RETR = 47

\* What is set for good.
WiredInv ==
  /\ chip.on /\ chip.reg.RX_PW_P0 = PayloadSize(firmware)
  /\ firmware = "BasicRF" => chip.reg.RF_CH = RF_CHANNEL
  /\ firmware = "V1" => /\ chip.reg.EN_AA = 1 /\ chip.reg.EN_RXADDR = 1
                        /\ chip.reg.SETUP_AW = 3 /\ chip.reg.SETUP_RETR = 47

\* The receiver, at every place of the program.
Tuned == /\ chip.reg.CONFIG = PRX /\ chip.reg.RX_ADDR_P0 = Own
EarInv ==
  /\ chip.reg.CONFIG = PRX => chip.reg.RX_ADDR_P0 = Own
  /\ doing \in {"idle", "await", "read"} => Tuned /\ chip.reg.RF_CH = RF_CHANNEL /\ chip.ce
  /\ doing = "tune" => Tuned /\ chip.reg.RF_CH = RF_CHANNEL /\ (Left = 0 => chip.ce)
  /\ doing = "scan" => Tuned
  /\ doing \in {"start", "scan"} \/ Closing =>
       /\ Left <= 5 => chip.reg.RF_CH = RF_CHANNEL
       /\ Left <= 3 => chip.reg.RX_ADDR_P0 = Own
       /\ Left <= 1 => chip.reg.CONFIG = PRX
       /\ Left = 0 => chip.ce
  /\ Sending => /\ Left <= 8 => chip.reg.CONFIG = PTX
                /\ Left >= 10 => chip.reg.CONFIG = PRX

ChipInv ==
  /\ chip.reg.DYNPD = 0 /\ chip.reg.FEATURE = 0
  /\ doing = "boot" => CheckedInv
  /\ doing \notin {"boot", "dead"} => WiredInv
  /\ EarInv

StationInv == TypeInv /\ PlaceInv /\ ChipInv

\* What was heard.
HeardInv ==
  /\ \A p \in air.heard : p.to = Own /\ (p.kind # "bad" => p.seq \in air.far_sent)
  /\ air.read \subseteq air.heard
  /\ NothingDropped
  /\ doing = "boot" => air.heard = {} /\ (chip.rx # <<>> => chip.on /\ Left > CheckSize(firmware) + 2)
  /\ doing # "boot" => ToSet(chip.rx) \subseteq air.heard
  /\ packet # NoPacket => packet \in air.read
  /\ CompletedWasAnswered

\* What was sent.
SentInv ==
  /\ chip.sending => \/ Sending /\ Left <= 2
                     \/ Closing /\ result # "ok" /\ Left > ListenSize(firmware)
  /\ Sending /\ Left <= 4 => ToSet(chip.tx) \subseteq {Sequence}
  /\ Sending /\ Left <= 5 /\ "TX_DS" \in chip.flags =>
       Left <= 2 /\ ~chip.sending /\ Sequence \in air.far_got
  /\ OkMeansReceived

\* What is being acknowledged while a remote answers.
AckInv ==
  /\ role = "remote" => \E k \in Nat : air.far_sent = 1 .. k
  /\ doing = "reply" => packet.kind = "ping" /\ packet.seq \in air.far_sent
  /\ Sending /\ ~air.raised => Left <= 11
  /\ doing = "reply" /\ ~air.raised /\ (Sending => Left <= 10) => chip.acking # <<packet>>

-----------------------------------------------------------------------------
\* What the exchanges do

LEMMA DoubleLevel ==
  ASSUME NEW l \in Level
  PROVE  2 * l \in Values
<1>1. l \in 0 .. 3
  BY ChipAssumption
<1>2. 2 * l \in 0 .. 255
  BY <1>1
<1> QED
  BY <1>2 DEF Values

LEMMA ResetEffect ==
  ASSUME NEW b \in BOOLEAN
  PROVE  /\ ResetChip(b) \in Chips /\ ResetChip(b).reg = ResetRegisters
         /\ ResetRegisters \in [Registers -> Values]
<1>1. ResetRegisters \in [Registers -> Values]
  BY DEF ResetRegisters, Registers, Values
<1>2. <<>> \in Seq(Packets) /\ <<>> \in Seq(Nat)
  OBVIOUS
<1> QED
  BY <1>1, <1>2 DEF ResetChip, Chips, IRQ_MASK

LEMMA OffEffect ==
  ASSUME NEW c, NEW x, ~c.on, x[1] # "ce"
  PROVE  OnChip(c, x) = c
  BY DEF OnChip

LEMMA CeEffect ==
  ASSUME NEW c \in Chips, NEW h \in BOOLEAN, NEW d, d = OnChip(c, CE(h))
  PROVE  /\ d \in Chips /\ d.ce = h
         /\ d.reg = c.reg /\ d.flags = c.flags /\ d.rx = c.rx /\ d.tx = c.tx /\ (d.on <=> c.on)
         /\ d.acking = IF h THEN c.acking ELSE <<>>
         /\ d.sending <=> (c.sending \/ (h /\ c.on /\ c.reg.CONFIG = PTX /\ c.tx # <<>>))
<1>1. d = [c EXCEPT !.ce = h, !.acking = IF h THEN c.acking ELSE <<>>,
             !.sending = c.sending \/ (h /\ c.on /\ c.reg.CONFIG = PTX /\ c.tx # <<>>)]
  BY DEF OnChip, CE, Chips
<1>2. <<>> \in Seq(Packets)
  OBVIOUS
<1> QED
  BY <1>1, <1>2 DEF Chips

LEMMA WriteEffect ==
  ASSUME NEW c \in Chips, c.on, NEW r \in Registers, NEW v \in Values,
         NEW d, d = OnChip(c, Write(r, v))
  PROVE  /\ d \in Chips /\ d.reg[r] = v /\ \A q \in Registers \ {r} : d.reg[q] = c.reg[q]
         /\ d.ce = c.ce /\ d.flags = c.flags /\ d.rx = c.rx /\ d.tx = c.tx /\ (d.on <=> c.on)
         /\ d.acking = c.acking
         /\ d.sending <=> (c.sending /\ ~(r = "CONFIG" /\ v # PTX))
<1>1. d = [c EXCEPT !.reg = [c.reg EXCEPT ![r] = v],
                    !.sending = c.sending /\ ~(r = "CONFIG" /\ v # PTX)]
  BY DEF OnChip, Write, Chips
<1>2. /\ [c.reg EXCEPT ![r] = v] \in [Registers -> Values]
      /\ [c.reg EXCEPT ![r] = v][r] = v
      /\ \A q \in Registers \ {r} : [c.reg EXCEPT ![r] = v][q] = c.reg[q]
  BY DEF Chips
<1> QED
  BY <1>1, <1>2 DEF Chips

LEMMA ClearEffect ==
  ASSUME NEW c \in Chips, NEW f \in SUBSET IRQ_MASK, NEW d, d = OnChip(c, Clear(f))
  PROVE  /\ d \in Chips /\ (c.on => d.flags = c.flags \ f) /\ d.flags \subseteq c.flags
         /\ d.reg = c.reg /\ d.ce = c.ce /\ d.rx = c.rx /\ d.tx = c.tx /\ (d.on <=> c.on)
         /\ d.acking = c.acking /\ (d.sending <=> c.sending)
<1>1. CASE c.on
  <2>1. d = [c EXCEPT !.flags = c.flags \ f]
    BY <1>1 DEF OnChip, Clear, Chips
  <2> QED
    BY <2>1, <1>1 DEF Chips
<1>2. CASE ~c.on
  BY <1>2, OffEffect DEF Clear
<1> QED
  BY <1>1, <1>2

LEMMA FlushRxEffect ==
  ASSUME NEW c \in Chips, NEW d, d = OnChip(c, FlushRx)
  PROVE  /\ d \in Chips /\ d.rx = IF c.on THEN <<>> ELSE c.rx
         /\ d.reg = c.reg /\ d.flags = c.flags /\ d.ce = c.ce /\ d.tx = c.tx /\ (d.on <=> c.on)
         /\ d.acking = c.acking /\ (d.sending <=> c.sending)
<1>1. CASE c.on
  <2>1. d = [c EXCEPT !.rx = <<>>]
    BY <1>1 DEF OnChip, FlushRx, Chips
  <2>2. <<>> \in Seq(Packets)
    OBVIOUS
  <2> QED
    BY <2>1, <2>2, <1>1 DEF Chips
<1>2. CASE ~c.on
  BY <1>2, OffEffect DEF FlushRx
<1> QED
  BY <1>1, <1>2

LEMMA FlushTxEffect ==
  ASSUME NEW c \in Chips, NEW d, d = OnChip(c, FlushTx)
  PROVE  /\ d \in Chips /\ (c.on => d.tx = <<>> /\ ~d.sending) /\ (d.sending => c.sending /\ d.tx = c.tx)
         /\ d.reg = c.reg /\ d.flags = c.flags /\ d.ce = c.ce /\ d.rx = c.rx /\ (d.on <=> c.on)
         /\ d.acking = c.acking
<1>1. CASE c.on
  <2>1. d = [c EXCEPT !.tx = <<>>, !.sending = FALSE]
    BY <1>1 DEF OnChip, FlushTx, Chips
  <2>2. <<>> \in Seq(Nat)
    OBVIOUS
  <2> QED
    BY <2>1, <2>2, <1>1 DEF Chips
<1>2. CASE ~c.on
  BY <1>2, OffEffect DEF FlushTx
<1> QED
  BY <1>1, <1>2

LEMMA PayloadEffect ==
  ASSUME NEW c \in Chips, NEW p \in Nat, NEW d, d = OnChip(c, Payload(p))
  PROVE  /\ d \in Chips /\ d.tx \in {c.tx, Append(c.tx, p)}
         /\ (c.tx = <<>> /\ c.on) => d.tx = <<p>>
         /\ d.reg = c.reg /\ d.flags = c.flags /\ d.ce = c.ce /\ d.rx = c.rx /\ (d.on <=> c.on)
         /\ d.acking = c.acking /\ (d.sending <=> c.sending)
<1>1. CASE c.on
  <2>1. d = [c EXCEPT !.tx = IF Len(c.tx) < FIFO_DEPTH THEN Append(c.tx, p) ELSE c.tx]
    BY <1>1 DEF OnChip, Payload, Chips
  <2>2. c.tx \in Seq(Nat) /\ Append(c.tx, p) \in Seq(Nat)
    BY DEF Chips
  <2>3. c.tx = <<>> => Len(c.tx) < FIFO_DEPTH /\ Append(c.tx, p) = <<p>>
    BY ChipAssumption, EmptySeq, AppendOne
  <2> QED
    BY <2>1, <2>2, <2>3, <1>1 DEF Chips
<1>2. CASE ~c.on
  BY <1>2, OffEffect DEF Payload
<1> QED
  BY <1>1, <1>2

LEMMA NoEffect ==
  ASSUME NEW c, NEW x, x[1] \in {"expect", "guard", "poll"}
  PROVE  OnChip(c, x) = c
  BY DEF OnChip

PlainOnes == {CE(TRUE), CE(FALSE), FlushRx, FlushTx, Guard, Poll}
Writes    == {Write(r, v) : r \in Registers, v \in Values}
Payloads  == {Payload(p) : p \in Nat}
Reads     == {Expect(r, v) : r \in Registers, v \in Nat}
Exchanges == PlainOnes \cup Writes \cup Clears \cup Payloads \cup Reads

LEMMA Names ==
  /\ CE(TRUE)[1] = "ce" /\ CE(FALSE)[1] = "ce"
  /\ FlushRx[1] = "flush_rx" /\ FlushTx[1] = "flush_tx" /\ Guard[1] = "guard" /\ Poll[1] = "poll"
  BY DEF CE, FlushRx, FlushTx, Guard, Poll

LEMMA WriteName ==
  ASSUME NEW r, NEW v
  PROVE  Write(r, v)[1] = "write" /\ Write(r, v)[2] = r /\ Write(r, v)[3] = v
  BY DEF Write

LEMMA OtherNames ==
  ASSUME NEW x
  PROVE  /\ x \in Writes => x[1] = "write"
         /\ x \in Clears => x[1] = "clear"
         /\ x \in Payloads => x[1] = "payload"
         /\ x \in Reads => x[1] = "expect"
         /\ x \in BootRegisters => x[1] = "write" /\ x[2] \notin {"CONFIG", "DYNPD", "FEATURE", "RX_ADDR_P0"}
<1>1. x \in Writes => x[1] = "write"
  BY DEF Writes, Write
<1>2. x \in Clears => x[1] = "clear"
  BY DEF Clears, Clear
<1>3. x \in Payloads => x[1] = "payload"
  BY DEF Payloads, Payload
<1>4. x \in Reads => x[1] = "expect"
  BY DEF Reads, Expect
<1>5. x \in BootRegisters => x[1] = "write" /\ x[2] \notin {"CONFIG", "DYNPD", "FEATURE", "RX_ADDR_P0"}
  BY DEF BootRegisters, Write
<1> QED
  BY <1>1, <1>2, <1>3, <1>4, <1>5

\* What stays as it is.
LEMMA Frame ==
  ASSUME NEW c \in Chips, NEW x \in Exchanges, NEW d, d = OnChip(c, x)
  PROVE  /\ d \in Chips /\ (d.on <=> c.on)
         /\ x[1] # "ce" => d.ce = c.ce /\ d.acking = c.acking
         /\ x[1] # "write" => d.reg = c.reg
         /\ x # FlushRx => d.rx = c.rx
         /\ x[1] \notin {"flush_tx", "payload"} => d.tx = c.tx
         /\ d.flags \subseteq c.flags
         /\ (c.sending => c.tx # <<>>) => (d.sending => d.tx # <<>>)
<1>1. CASE x \in PlainOnes
  <2>1. CASE x = CE(TRUE) \/ x = CE(FALSE)
    <3>1. x[1] = "ce" /\ x # FlushRx
      BY <2>1, Names
    <3>2. PICK h \in BOOLEAN : d = OnChip(c, CE(h))
      BY <2>1
    <3>3. /\ d \in Chips /\ d.reg = c.reg /\ d.flags = c.flags /\ d.rx = c.rx /\ d.tx = c.tx
          /\ (d.on <=> c.on) /\ (d.sending => c.sending \/ c.tx # <<>>)
      BY <3>2, CeEffect
    <3> QED
      BY <3>1, <3>3
  <2>2. CASE x = FlushRx \/ x = FlushTx
    BY <2>2, FlushRxEffect, FlushTxEffect DEF FlushRx, FlushTx
  <2>3. CASE x = Guard \/ x = Poll
    BY <2>3, NoEffect DEF Guard, Poll
  <2> QED
    BY <1>1, <2>1, <2>2, <2>3 DEF PlainOnes
<1>2. CASE x \in Writes
  <2>1. PICK r \in Registers, v \in Values : x = Write(r, v)
    BY <1>2 DEF Writes
  <2>2. CASE c.on
    <3>1. x[1] = "write" /\ x # FlushRx
      BY <2>1 DEF Write, FlushRx
    <3>2. d = OnChip(c, Write(r, v))
      BY <2>1
    <3>3. /\ d \in Chips /\ d.ce = c.ce /\ d.flags = c.flags /\ d.rx = c.rx /\ d.tx = c.tx
          /\ (d.on <=> c.on) /\ d.acking = c.acking /\ (d.sending => c.sending)
      BY <2>2, <3>2, WriteEffect
    <3> QED
      BY <3>1, <3>3
  <2>3. CASE ~c.on
    BY <2>1, <2>3, OffEffect DEF Write
  <2> QED
    BY <2>2, <2>3
<1>3. CASE x \in Clears
  BY <1>3, ClearEffect DEF Clears, Clear
<1>4. CASE x \in Payloads
  <2>1. PICK p \in Nat : x = Payload(p)
    BY <1>4 DEF Payloads
  <2>2. c.tx \in Seq(Nat) => Append(c.tx, p) # <<>>
    BY AppendProperties
  <2>3. /\ d \in Chips /\ d.tx \in {c.tx, Append(c.tx, p)} /\ d.reg = c.reg /\ d.flags = c.flags
        /\ d.ce = c.ce /\ d.rx = c.rx /\ (d.on <=> c.on) /\ d.acking = c.acking
        /\ (d.sending <=> c.sending)
    <3>1. d = OnChip(c, Payload(p))
      BY <2>1
    <3> HIDE <2>1
    <3> QED
      BY <3>1, PayloadEffect
  <2>4. x[1] = "payload"
    BY <1>4, OtherNames
  <2>5. c.tx \in Seq(Nat)
    BY DEF Chips
  <2> QED
    BY <2>2, <2>3, <2>4, <2>5
<1>5. CASE x \in Reads
  <2>1. x[1] = "expect"
    BY <1>5 DEF Reads, Expect
  <2> QED
    BY <2>1, NoEffect
<1> QED
  BY <1>1, <1>2, <1>3, <1>4, <1>5 DEF Exchanges

LEMMA ListenTable ==
  ASSUME NEW fw \in Firmware, NEW own, NEW r, NEW j \in Nat, NEW x \in ListenPlan(fw, own, r)[j]
  PROVE  /\ j = 0 => x = CE(TRUE)
         /\ j = 1 => x = Write("CONFIG", PRX)
         /\ j = 2 => x \in Clears
         /\ j = 3 => x = Write("RX_ADDR_P0", own)
         /\ j = 4 => x = CE(FALSE)
<1> DEFINE plan == ListenPlan(fw, own, r)
<1>1. /\ plan[0] = {CE(TRUE)} /\ plan[1] = {Write("CONFIG", PRX)} /\ plan[2] = Clears
      /\ plan[3] = {Write("RX_ADDR_P0", own)} /\ plan[4] = {CE(FALSE)}
  BY DEF ListenPlan
<1>2. x \in plan[j]
  OBVIOUS
<1> HIDE DEF plan
<1> QED
  BY <1>1, <1>2

\* The same, ahead of StartListening's last five exchanges.
LEMMA AheadTable ==
  ASSUME NEW fw \in Firmware, NEW own, NEW r, NEW j \in Nat, NEW x \in ListenPlan(fw, own, r)[j],
         j > 4
  PROVE  \/ fw = "V1" /\ j = 5 /\ x = Write("RF_CH", RF_CHANNEL)
         \/ fw = "V1" /\ j = 6 /\ x = CE(FALSE)
         \/ r = "scan" /\ (fw = "V1" => j > 6) /\ x \in ScanPlan
         \/ /\ r \notin {"boot", "scan"} /\ x \in Clears \cup {FlushTx}
            /\ j >= ListenSize(fw)
            /\ r # "ok" /\ j = ListenSize(fw) => x = FlushTx
            /\ r = "ok" => x \in Clears
<1> DEFINE plan == ListenPlan(fw, own, r)
<1>1. x \in plan[j]
  OBVIOUS
<1>2. CASE fw = "V1" /\ j = 5
  <2>1. plan[5] = {Write("RF_CH", RF_CHANNEL)}
    BY <1>2 DEF ListenPlan
  <2> HIDE DEF plan
  <2>2. x = Write("RF_CH", RF_CHANNEL)
    BY <1>1, <1>2, <2>1
  <2> QED
    BY <1>2, <2>2
<1>3. CASE fw = "V1" /\ j = 6
  <2>1. plan[6] = {CE(FALSE)}
    BY <1>3 DEF ListenPlan
  <2> HIDE DEF plan
  <2>2. x = CE(FALSE)
    BY <1>1, <1>3, <2>1
  <2> QED
    BY <1>3, <2>2
<1>4. CASE ~(fw = "V1" /\ j \in {5, 6})
  <2>1. /\ j \notin {0, 1, 2, 3, 4} /\ ~(fw = "V1" /\ j = 5) /\ ~(fw = "V1" /\ j = 6)
        /\ j >= ListenSize(fw) /\ (fw = "V1" => j > 6)
    BY <1>4 DEF ListenSize
  <2>2. x \in IF r = "boot" THEN {} ELSE IF r = "scan" THEN ScanPlan ELSE EndPlan(fw, r, j)
    BY <2>1 DEF ListenPlan
  <2>3. r \notin {"boot", "scan"} => x \in EndPlan(fw, r, j)
    BY <2>2
  <2>4. r \notin {"boot", "scan"} =>
          /\ x \in Clears \cup {FlushTx}
          /\ r # "ok" /\ j = ListenSize(fw) => x = FlushTx
          /\ r = "ok" => x \in Clears
    BY <2>3 DEF EndPlan
  <2>5. r # "boot" /\ (r = "scan" => x \in ScanPlan)
    BY <2>2
  <2> QED
    BY <2>1, <2>4, <2>5
<1> QED
  BY <1>2, <1>3, <1>4

LEMMA SendEmpty ==
  ASSUME NEW to, NEW p, NEW j \in Nat, j > 13
  PROVE  SendPlan(to, p)[j] = {}
<1>1. j \notin {0, 1, 2, 3, 4, 5, 6, 7, 8, 9, 10} /\ ~(j > 10 /\ j <= 13)
  OBVIOUS
<1> QED
  BY <1>1 DEF SendPlan

LEMMA SendTable ==
  ASSUME NEW to, NEW p, NEW j \in Nat, NEW x \in SendPlan(to, p)[j]
  PROVE  /\ j = 0 => x = Poll
         /\ j = 1 => x = CE(FALSE)
         /\ j = 2 => x = CE(TRUE)
         /\ j = 3 => x = Payload(p)
         /\ j = 4 => x = FlushTx
         /\ j = 5 => x = Clear(IRQ_MASK)
         /\ j = 6 => x = Write("RX_ADDR_P0", to)
         /\ j = 7 => x = Write("TX_ADDR", to)
         /\ j = 8 => x = Write("CONFIG", PTX)
         /\ j = 9 => x = CE(FALSE)
         /\ j = 10 => x = Guard
         /\ j = 11 => x = CE(TRUE)
         /\ j = 12 => x \in Powers
         /\ j = 13 => x = CE(FALSE)
         /\ j <= 13
<1> DEFINE plan == SendPlan(to, p)
<1>1. plan = SendPlan(to, p) /\ x \in plan[j]
  OBVIOUS
<1>2. j <= 13
  BY SendEmpty
<1> HIDE DEF plan
<1>3. /\ plan[0] = {Poll} /\ plan[1] = {CE(FALSE)} /\ plan[2] = {CE(TRUE)}
      /\ plan[3] = {Payload(p)} /\ plan[4] = {FlushTx} /\ plan[5] = {Clear(IRQ_MASK)}
      /\ plan[6] = {Write("RX_ADDR_P0", to)} /\ plan[7] = {Write("TX_ADDR", to)}
      /\ plan[8] = {Write("CONFIG", PTX)} /\ plan[9] = {CE(FALSE)} /\ plan[10] = {Guard}
  BY <1>1 DEF SendPlan
<1>4. plan[11] = {CE(TRUE)} /\ plan[12] = Powers /\ plan[13] = {CE(FALSE)}
  <2>1. plan[11] = TunePlan[0] /\ plan[12] = TunePlan[1] /\ plan[13] = TunePlan[2]
    BY <1>1 DEF SendPlan
  <2>2. TunePlan[0] = {CE(TRUE)} /\ TunePlan[1] = Powers /\ TunePlan[2] = {CE(FALSE)}
    BY DEF TunePlan
  <2> QED
    BY <2>1, <2>2
<1> QED
  BY <1>1, <1>2, <1>3, <1>4

LEMMA TuneTable ==
  ASSUME NEW j \in Nat, NEW x \in TunePlan[j]
  PROVE  \/ j = 0 /\ x = CE(TRUE)
         \/ j = 1 /\ x \in Powers
         \/ j = 2 /\ x = CE(FALSE)
  BY DEF TunePlan

LEMMA BootTable ==
  ASSUME NEW fw \in Firmware, NEW j \in Nat, NEW x \in BootPlan(fw)[j]
  PROVE  \/ j < CheckSize(fw) /\ x \in CheckPlan(fw, j)
         \/ j = CheckSize(fw) + 2 /\ x = FlushRx
         \/ j >= CheckSize(fw) /\ j # CheckSize(fw) + 2 /\ x \in BootWrites
  BY DEF BootPlan, CheckSize

LEMMA ClearTable ==
  ASSUME NEW j \in Nat, NEW x \in ClearPlan[j]
  PROVE  j = 0 /\ x = Clear({"RX_DR"})
  BY DEF ClearPlan

-----------------------------------------------------------------------------
\* The program's exchanges

LEMMA ExchangesTyped ==
  ASSUME NEW fw \in Firmware, NEW own \in {"base", "remote"}, NEW r, NEW p \in Nat,
         NEW j \in Nat, NEW x,
         \/ x \in BootPlan(fw)[j] \/ x \in ListenPlan(fw, own, r)[j] \/ x \in TunePlan[j]
         \/ x \in ClearPlan[j] \/ x \in SendPlan(own, p)[j]
  PROVE  x \in Exchanges
<1>1. /\ CE(TRUE) \in Exchanges /\ CE(FALSE) \in Exchanges /\ FlushRx \in Exchanges
      /\ FlushTx \in Exchanges /\ Guard \in Exchanges /\ Poll \in Exchanges
      /\ Payload(p) \in Exchanges
  <2>1. Payload(p) \in Payloads
    BY DEF Payloads
  <2> QED
    BY <2>1 DEF Exchanges, PlainOnes
<1>2. Clears \subseteq Exchanges
  BY DEF Exchanges
<1>3. Clear({"RX_DR"}) \in Clears /\ Clear(IRQ_MASK) \in Clears
  BY DEF Clears, IRQ_MASK
<1>4. \A q \in Registers, v \in Values : Write(q, v) \in Exchanges
  BY DEF Exchanges, Writes
<1>5. \A q \in Registers, v \in Nat : Expect(q, v) \in Exchanges
  BY DEF Exchanges, Reads
<1>6. /\ Registers = Registers \cup {"CONFIG", "RX_ADDR_P0", "TX_ADDR", "RF_CH", "RF_SETUP"}
      /\ own \in Values /\ 0 .. 255 \subseteq Values
      /\ PRX \in 0 .. 255 /\ PTX \in 0 .. 255 /\ Down \in 0 .. 255 /\ RF_CHANNEL \in 0 .. 255
      /\ 0 .. 125 \subseteq 0 .. 255 /\ \A l \in Level : 2 * l \in 0 .. 255
  BY ChipAssumption DEF Registers, Values, PRX, PTX, Down, RF_CHANNEL
<1>7. /\ Write("CONFIG", PRX) \in Exchanges /\ Write("CONFIG", PTX) \in Exchanges
      /\ Write("RX_ADDR_P0", own) \in Exchanges /\ Write("TX_ADDR", own) \in Exchanges
      /\ \A ch \in 0 .. 255 : Write("RF_CH", ch) \in Exchanges
      /\ \A l \in Level : Write("RF_SETUP", 2 * l) \in Exchanges
  BY <1>4, <1>6
<1>8. CASE x \in BootPlan(fw)[j]
  <2>1. CASE x \in CheckPlan(fw, j)
    <3>1. PayloadSize(fw) \in Nat /\ RF_CHANNEL \in Nat
      BY DEF PayloadSize, RF_CHANNEL
    <3>2. /\ "RX_PW_P0" \in Registers /\ "RF_SETUP" \in Registers /\ "RF_CH" \in Registers
          /\ "SETUP_RETR" \in Registers /\ "SETUP_AW" \in Registers /\ "EN_RXADDR" \in Registers
          /\ "EN_AA" \in Registers
      BY DEF Registers
    <3>3. /\ Expect("RX_PW_P0", PayloadSize(fw)) \in Exchanges /\ Expect("RF_SETUP", 0) \in Exchanges
          /\ Expect("RF_CH", RF_CHANNEL) \in Exchanges /\ Expect("SETUP_RETR", 47) \in Exchanges
          /\ Expect("SETUP_AW", 3) \in Exchanges /\ Expect("EN_RXADDR", 1) \in Exchanges
          /\ Expect("EN_AA", 1) \in Exchanges
      BY <1>5, <3>1, <3>2
    <3> QED
      BY <2>1, <3>3 DEF CheckPlan
  <2>2. CASE x \in BootWrites
    <3>1. CASE x \in BootRegisters
      <4>1. {"EN_AA", "EN_RXADDR", "SETUP_AW", "SETUP_RETR", "RF_CH", "RF_SETUP", "RX_PW_P0"}
              \subseteq Registers
        BY DEF Registers
      <4> QED
        BY <1>4, <1>6, <3>1, <4>1 DEF BootRegisters
    <3>2. CASE x \in BootOthers
      <4>1. "CONFIG" \in Registers /\ "DYNPD" \in Registers /\ "FEATURE" \in Registers
            /\ 0 \in Values /\ Down \in Values
        BY <1>6 DEF Registers, Values
      <4>2. /\ Write("CONFIG", Down) \in Exchanges /\ Write("DYNPD", 0) \in Exchanges
            /\ Write("FEATURE", 0) \in Exchanges
        BY <1>4, <4>1
      <4> QED
        BY <1>1, <1>7, <3>2, <4>2 DEF BootOthers
    <3>3. CASE x \in Clears
      BY <1>2, <3>3
    <3> QED
      BY <2>2, <3>1, <3>2, <3>3 DEF BootWrites
  <2> QED
    BY <1>1, <1>8, <2>1, <2>2, BootTable
<1>9. CASE x \in ListenPlan(fw, own, r)[j]
  <2>1. CASE j > 4
    <3>1. CASE x \in ScanPlan
      <4>1. CASE x \in {Write("RF_CH", ch) : ch \in 0 .. 125}
        BY <1>6, <1>7, <4>1
      <4>2. CASE x \in Clears \cup {CE(TRUE), CE(FALSE), FlushRx, Write("CONFIG", PRX)}
        BY <1>1, <1>2, <1>7, <4>2
      <4> QED
        BY <3>1, <4>1, <4>2 DEF ScanPlan
    <3>2. x \in ScanPlan \/ x = Write("RF_CH", RF_CHANNEL) \/ x = CE(FALSE) \/ x \in Clears \cup {FlushTx}
      BY <1>9, <2>1, AheadTable
    <3> QED
      BY <1>1, <1>2, <1>6, <1>7, <3>1, <3>2
  <2>2. CASE j <= 4
    <3>1. j \in {0, 1, 2, 3, 4}
      BY <2>2
    <3>2. \/ x = CE(TRUE) \/ x = CE(FALSE) \/ x = Write("CONFIG", PRX) \/ x \in Clears
          \/ x = Write("RX_ADDR_P0", own)
      BY <1>9, <3>1, ListenTable
    <3> QED
      BY <1>1, <1>2, <1>7, <3>2
  <2> QED
    BY <2>1, <2>2
<1>10. CASE x \in TunePlan[j]
  BY <1>1, <1>7, <1>10, TuneTable DEF Powers
<1>11. CASE x \in ClearPlan[j]
  BY <1>2, <1>3, <1>11, ClearTable
<1>12. CASE x \in SendPlan(own, p)[j]
  <2>1. j <= 13
    BY <1>12, SendTable
  <2>2. j \in {0, 1, 2, 3, 4, 5, 6, 7, 8, 9, 10, 11, 12, 13}
    BY <2>1
  <2>3. \/ x \in {CE(TRUE), CE(FALSE), Poll, Guard, FlushTx, Payload(p), Clear(IRQ_MASK)}
        \/ x \in {Write("RX_ADDR_P0", own), Write("TX_ADDR", own), Write("CONFIG", PTX)}
        \/ x \in Powers
    BY <1>12, <2>2, SendTable
  <2> QED
    BY <1>1, <1>2, <1>3, <1>7, <2>3 DEF Powers
<1> QED
  BY <1>8, <1>9, <1>10, <1>11, <1>12

LEMMA PlansTyped ==
  ASSUME TypeInv, NEW j \in Nat, NEW x \in PlanOf[j]
  PROVE  x \in Exchanges
<1>1. Sequence \in Nat
  BY DEF TypeInv, Sequence, Packets, NoPacket, Packet
<1>2. Own \in {"base", "remote"} /\ Far \in {"base", "remote"} /\ firmware \in Firmware
  BY DEF TypeInv, Own, Far
<1>3. \/ x \in BootPlan(firmware)[j] \/ x \in ListenPlan(firmware, Own, "boot")[j]
      \/ x \in ListenPlan(firmware, Own, "scan")[j] \/ x \in ListenPlan(firmware, Own, result)[j]
      \/ x \in TunePlan[j] \/ x \in ClearPlan[j] \/ x \in SendPlan(Far, Sequence)[j]
      \/ x \in NoPlan[j]
  BY DEF PlanOf
<1>4. x \notin NoPlan[j]
  BY DEF NoPlan
<1>5. /\ x \in ListenPlan(firmware, Own, "boot")[j] => x \in Exchanges
      /\ x \in ListenPlan(firmware, Own, "scan")[j] => x \in Exchanges
      /\ x \in ListenPlan(firmware, Own, result)[j] => x \in Exchanges
  BY <1>1, <1>2, ExchangesTyped
<1>6. x \in BootPlan(firmware)[j] \/ x \in TunePlan[j] \/ x \in ClearPlan[j] => x \in Exchanges
  BY <1>1, <1>2, ExchangesTyped
<1>7. x \in SendPlan(Far, Sequence)[j] => x \in Exchanges
  BY <1>1, <1>2, ExchangesTyped
<1> QED
  BY <1>3, <1>4, <1>5, <1>6, <1>7

LEMMA ExchangeKeepsPlace ==
  ASSUME StationInv, Exchange
  PROVE  /\ Left \in Nat \ {0} /\ Left' = Left - 1 /\ Left' \in Nat
         /\ Head(todo) \in PlanOf[Left'] /\ Head(todo) \in Exchanges
         /\ PlanOf' = PlanOf /\ PlaceInv' /\ (Sending => Left' > 0)
<1>1. /\ todo # <<>> /\ todo' = Tail(todo) /\ Head(todo) # Poll
      /\ UNCHANGED <<firmware, role, doing, packet, result, next_sequence>>
  BY DEF Exchange, boardVars
<1>2. OnWay(todo, PlanOf)
  BY DEF StationInv, PlaceInv
<1>3. /\ Len(todo) \in Nat \ {0} /\ Len(Tail(todo)) = Len(todo) - 1
      /\ Head(todo) \in PlanOf[Len(todo) - 1] /\ OnWay(Tail(todo), PlanOf)
  BY <1>1, <1>2, TailOnWay
<1>4. Left \in Nat \ {0} /\ Left' = Left - 1 /\ Left' \in Nat /\ Head(todo) \in PlanOf[Left']
  BY <1>1, <1>3 DEF Left
<1>5. PlanOf' = PlanOf /\ Sending' = Sending
  BY <1>1 DEF PlanOf, Sending, Closing, Sequence, Own, Far
<1>6. Sending => Left' > 0
  <2>1. SUFFICES ASSUME Sending, Left' = 0
                 PROVE  FALSE
    BY <1>4
  <2>2. PlanOf = SendPlan(Far, Sequence)
    BY <2>1 DEF PlanOf, Sending
  <2>3. SendPlan(Far, Sequence)[0] = {Poll}
    BY DEF SendPlan
  <2> QED
    BY <1>1, <1>4, <2>1, <2>2, <2>3
<1>7. OnWay(todo', PlanOf')
  BY <1>1, <1>3, <1>5
<1>8. Sending' => todo' # <<>>
  BY <1>4, <1>5, <1>6, EmptySeq DEF Left
<1>9. PlaceInv'
  BY <1>1, <1>7, <1>8 DEF StationInv, PlaceInv
<1>10. Head(todo) \in Exchanges
  BY <1>4, PlansTyped DEF StationInv
<1> QED
  BY <1>4, <1>5, <1>6, <1>9, <1>10

LEMMA ExchangeKeepsType ==
  ASSUME StationInv, Exchange
  PROVE  TypeInv'
<1>1. chip' \in Chips /\ (chip'.sending => chip'.tx # <<>>)
  BY ExchangeKeepsPlace, Frame DEF Exchange, StationInv, TypeInv
<1>2. sound' \in BOOLEAN
  BY Zenon DEF Exchange
<1>3. air' \in Airs
  <2>1. ToSet(chip.rx) \subseteq Packets
    BY DEF StationInv, TypeInv, Chips, ToSet
  <2>2. air \in Airs
    BY DEF StationInv, TypeInv
  <2>3. air' \in {air, [air EXCEPT !.scanned = @ \cup ToSet(chip.rx)]}
    BY DEF Exchange
  <2> QED
    BY <2>1, <2>2, <2>3 DEF Airs
<1> QED
  BY <1>1, <1>2, <1>3 DEF StationInv, TypeInv, Exchange, boardVars

LEMMA BootKeepsChip ==
  ASSUME StationInv, Exchange, doing = "boot"
  PROVE  ChipInv'
<1> DEFINE x == Head(todo)
           j == Left - 1
<1>1. /\ j \in Nat /\ Left' = j /\ Left = j + 1 /\ x \in BootPlan(firmware)[j] /\ x \in Exchanges
  BY ExchangeKeepsPlace DEF PlanOf
<1>2. /\ UNCHANGED <<firmware, role, doing, result>> /\ chip' = OnChip(chip, x)
      /\ sound' = (sound /\ (x[1] = "expect" => Matches(chip, x)))
  BY DEF Exchange, boardVars
<1>3. /\ firmware \in Firmware /\ chip \in Chips
      /\ chip.reg.DYNPD = 0 /\ chip.reg.FEATURE = 0 /\ CheckedInv /\ ~chip.ce
      /\ chip.reg.CONFIG = PRX => chip.reg.RX_ADDR_P0 = Own
  BY DEF StationInv, TypeInv, ChipInv, CheckedInv, EarInv
<1> HIDE DEF x, j
<1>4. SUFFICES /\ chip'.reg.DYNPD = 0 /\ chip'.reg.FEATURE = 0 /\ CheckedInv'
               /\ chip'.reg.CONFIG = PRX => chip'.reg.RX_ADDR_P0 = Own
  BY <1>2 DEF ChipInv, EarInv, Sending, Closing, Own
<1>5. CASE j < CheckSize(firmware) /\ x \in CheckPlan(firmware, j)
  <2>1. x[1] = "expect"
    BY <1>5 DEF CheckPlan, Expect
  <2>2. chip' = chip
    BY <1>2, <2>1, NoEffect
  <2>3. sound' => sound /\ Matches(chip, x)
    BY <1>2, <2>1
  <2>4. j = 0 /\ sound' => chip.on /\ chip.reg.RX_PW_P0 = PayloadSize(firmware)
    <3>1. j = 0 => x[2] = "RX_PW_P0" /\ x[3] = PayloadSize(firmware)
      BY <1>5 DEF CheckPlan, Expect
    <3> QED
      BY <2>3, <3>1 DEF Matches, WithoutLevel, PayloadSize
  <2>5. firmware = "BasicRF" /\ chip.on /\ sound' /\ j = 1 => chip.reg.RF_CH = RF_CHANNEL
    <3>1. firmware = "BasicRF" /\ j = 1 => x[2] = "RF_CH" /\ x[3] = RF_CHANNEL
      BY <1>5 DEF CheckPlan, Expect
    <3> QED
      BY <2>3, <3>1 DEF Matches, WithoutLevel
  <2>6. firmware = "V1" /\ chip.on /\ sound' =>
          /\ j = 6 => chip.reg.EN_AA = 1
          /\ j = 5 => chip.reg.EN_RXADDR = 1
          /\ j = 4 => chip.reg.SETUP_AW = 3
          /\ j = 3 => chip.reg.SETUP_RETR = 47
    <3>1. firmware = "V1" =>
            /\ j = 6 => x[2] = "EN_AA" /\ x[3] = 1
            /\ j = 5 => x[2] = "EN_RXADDR" /\ x[3] = 1
            /\ j = 4 => x[2] = "SETUP_AW" /\ x[3] = 3
            /\ j = 3 => x[2] = "SETUP_RETR" /\ x[3] = 47
      BY <1>1, <1>5 DEF CheckPlan, Expect, CheckSize
    <3> QED
      BY <2>3, <3>1 DEF Matches, WithoutLevel
  <2>7. CheckedInv'
    <3>1. (Left' = 0 /\ sound' => chip'.on /\ chip'.reg.RX_PW_P0 = PayloadSize(firmware'))
      BY <1>1, <1>2, <2>2, <2>4
    <3>2. ASSUME sound', chip.on, chip.reg.RX_PW_P0 = PayloadSize(firmware), firmware = "BasicRF", j <= 1
          PROVE  chip.reg.RF_CH = RF_CHANNEL
      <4>1. j = 1 \/ (j = 0 /\ Left <= 1)
        BY <1>1, <3>2
      <4> QED
        BY <1>3, <2>3, <2>5, <3>2, <4>1 DEF CheckedInv
    <3>3. ASSUME sound', chip.on, chip.reg.RX_PW_P0 = PayloadSize(firmware), firmware = "V1"
          PROVE  /\ j <= 6 => chip.reg.EN_AA = 1
                 /\ j <= 5 => chip.reg.EN_RXADDR = 1
                 /\ j <= 4 => chip.reg.SETUP_AW = 3
                 /\ j <= 3 => chip.reg.SETUP_RETR = 47
      <4>1. /\ j <= 6 => j = 6 \/ Left <= 6
            /\ j <= 5 => j = 5 \/ Left <= 5
            /\ j <= 4 => j = 4 \/ Left <= 4
            /\ j <= 3 => j = 3 \/ Left <= 3
        BY <1>1
      <4> QED
        BY <1>3, <2>3, <2>6, <3>3, <4>1 DEF CheckedInv
    <3> QED
      BY <1>1, <1>2, <1>3, <2>2, <3>1, <3>2, <3>3 DEF CheckedInv
  <2> QED
    BY <1>2, <1>3, <2>2, <2>7 DEF Own
<1>6. ASSUME j >= CheckSize(firmware), ~chip'.ce
      PROVE  CheckedInv'
  BY <1>1, <1>2, <1>3, <1>6 DEF CheckedInv, CheckSize, Firmware
<1>7. CASE j = CheckSize(firmware) + 2 /\ x = FlushRx
  <2>1. chip'.reg = chip.reg /\ chip'.ce = chip.ce
    BY <1>2, <1>3, <1>7, FlushRxEffect
  <2> QED
    BY <1>1, <1>2, <1>3, <1>6, <1>7, <2>1 DEF CheckSize, Own
<1>8. CASE j >= CheckSize(firmware) /\ x \in BootWrites
  <2>1. ~chip'.ce
    <3>1. CASE x = CE(FALSE)
      BY <1>2, <1>3, <3>1, CeEffect
    <3>2. CASE x # CE(FALSE)
      <4>1. x[1] # "ce"
        <5>1. CASE x \in BootOthers
          <6>1. x = FlushTx \/ \E r, v : x = Write(r, v)
            BY <3>2, <5>1 DEF BootOthers
          <6> QED
            BY <6>1, Names, WriteName
        <5>2. CASE x \in BootRegisters \cup Clears
          BY <5>2, OtherNames
        <5> QED
          BY <1>8, <5>1, <5>2 DEF BootWrites
      <4> QED
        BY <1>1, <1>2, <1>3, <4>1, Frame
    <3> QED
      BY <3>1, <3>2
  <2>2. /\ chip'.reg.DYNPD = 0 /\ chip'.reg.FEATURE = 0
        /\ chip'.reg.CONFIG = PRX => chip'.reg.RX_ADDR_P0 = Own
    <3>1. CASE x \notin Writes
      <4>1. x[1] # "write"
        BY <1>1, <3>1, Names, OtherNames DEF Exchanges, PlainOnes
      <4> QED
        BY <1>1, <1>2, <1>3, <4>1, Frame
    <3>2. CASE x \in Writes
      <4>1. PICK r \in Registers, v \in Values : x = Write(r, v)
        BY <3>2 DEF Writes
      <4>2. CASE ~chip.on
        <5>1. chip' = chip
          BY <1>2, <4>1, <4>2, OffEffect DEF Write
        <5> QED
          BY <1>3, <5>1
      <4>3. CASE chip.on
        <5>1. chip'.reg[r] = v /\ \A q \in Registers \ {r} : chip'.reg[q] = chip.reg[q]
          BY <1>2, <1>3, <4>1, <4>3, WriteEffect
        <5>2. /\ r # "RX_ADDR_P0" /\ (r = "DYNPD" => v = 0) /\ (r = "FEATURE" => v = 0)
              /\ (r = "CONFIG" => v # PRX)
          <6>1. x[2] = r /\ x[3] = v /\ x[1] = "write"
            BY <4>1, WriteName
          <6>2. CASE x \in BootOthers
            <7>1. x \in {Write("CONFIG", Down), Write("CONFIG", PTX), Write("DYNPD", 0), Write("FEATURE", 0)}
              BY <6>1, <6>2, Names DEF BootOthers
            <7>2. \/ r = "CONFIG" /\ v \in {Down, PTX}
                  \/ r \in {"DYNPD", "FEATURE"} /\ v = 0
              BY <6>1, <7>1, WriteName
            <7> QED
              BY <7>2 DEF PRX, PTX, Down
          <6>3. CASE x \in BootRegisters
            BY <6>1, <6>3, OtherNames
          <6>4. CASE x \in Clears
            BY <6>1, <6>4, OtherNames
          <6> QED
            BY <1>8, <6>2, <6>3, <6>4 DEF BootWrites
        <5>3. {"DYNPD", "FEATURE", "CONFIG", "RX_ADDR_P0"} \subseteq Registers
          BY DEF Registers
        <5> QED
          BY <1>3, <5>1, <5>2, <5>3
      <4> QED
        BY <4>2, <4>3
    <3> QED
      BY <3>1, <3>2
  <2> QED
    BY <1>2, <1>6, <1>8, <2>1, <2>2 DEF Own
<1> QED
  BY <1>1, <1>3, <1>5, <1>7, <1>8, BootTable

\* Outside nrf24_init() few registers are written.
LEMMA WriteKeepsWired ==
  ASSUME StationInv, Exchange, doing \notin {"boot", "dead"},
         NEW r \in {"CONFIG", "RX_ADDR_P0", "TX_ADDR", "RF_SETUP", "RF_CH"}, NEW v \in Values,
         Head(todo) = Write(r, v), r = "RF_CH" /\ firmware = "BasicRF" => v = RF_CHANNEL
  PROVE  /\ chip'.reg.DYNPD = 0 /\ chip'.reg.FEATURE = 0 /\ WiredInv'
         /\ chip'.reg[r] = v /\ \A q \in Registers \ {r} : chip'.reg[q] = chip.reg[q]
         /\ chip'.ce = chip.ce
<1>1. /\ chip \in Chips /\ firmware' = firmware /\ chip' = OnChip(chip, Write(r, v))
      /\ chip.reg.DYNPD = 0 /\ chip.reg.FEATURE = 0 /\ WiredInv
  BY DEF StationInv, TypeInv, ChipInv, Exchange, boardVars
<1>2. /\ r \in Registers /\ chip.on
      /\ {"DYNPD", "FEATURE", "RX_PW_P0", "EN_AA", "EN_RXADDR", "SETUP_AW", "SETUP_RETR"}
           \subseteq Registers \ {r}
      /\ "RF_CH" \in Registers
  BY <1>1 DEF Registers, WiredInv
<1>3. /\ chip'.reg[r] = v /\ \A q \in Registers \ {r} : chip'.reg[q] = chip.reg[q]
      /\ chip'.ce = chip.ce /\ chip'.on
  <2> DEFINE c == chip
             d == chip'
  <2>1. c \in Chips /\ c.on /\ r \in Registers /\ v \in Values /\ d = OnChip(c, Write(r, v))
    BY <1>1, <1>2
  <2> HIDE DEF c, d
  <2>2. d.reg[r] = v /\ \A q \in Registers \ {r} : d.reg[q] = c.reg[q]
    BY <2>1, WriteEffect
  <2>3. d.ce = c.ce /\ d.on
    BY <2>1, WriteEffect
  <2> QED
    BY <2>2, <2>3 DEF c, d
<1>4. /\ chip'.reg.DYNPD = 0 /\ chip'.reg.FEATURE = 0
      /\ chip'.reg.RX_PW_P0 = chip.reg.RX_PW_P0 /\ chip'.reg.EN_AA = chip.reg.EN_AA
      /\ chip'.reg.EN_RXADDR = chip.reg.EN_RXADDR /\ chip'.reg.SETUP_AW = chip.reg.SETUP_AW
      /\ chip'.reg.SETUP_RETR = chip.reg.SETUP_RETR
  BY <1>1, <1>2, <1>3
<1>5. firmware = "BasicRF" => chip'.reg.RF_CH = RF_CHANNEL
  <2>1. CASE r = "RF_CH"
    BY <1>3, <2>1
  <2>2. CASE r # "RF_CH"
    BY <1>1, <1>2, <1>3, <2>2 DEF WiredInv
  <2> QED
    BY <2>1, <2>2
<1>6. WiredInv'
  BY <1>1, <1>3, <1>4, <1>5 DEF WiredInv
<1> QED
  BY <1>3, <1>4, <1>6

LEMMA OtherKeepsWired ==
  ASSUME StationInv, Exchange, doing \notin {"boot", "dead"}, Head(todo)[1] # "write"
  PROVE  /\ chip'.reg.DYNPD = 0 /\ chip'.reg.FEATURE = 0 /\ WiredInv'
         /\ chip'.reg = chip.reg /\ (Head(todo)[1] # "ce" => chip'.ce = chip.ce)
<1>1. /\ chip \in Chips /\ firmware' = firmware /\ chip' = OnChip(chip, Head(todo))
      /\ chip.reg.DYNPD = 0 /\ chip.reg.FEATURE = 0 /\ WiredInv /\ Head(todo) \in Exchanges
  BY ExchangeKeepsPlace DEF StationInv, TypeInv, ChipInv, Exchange, boardVars
<1>2. /\ chip'.reg = chip.reg /\ (chip'.on <=> chip.on)
      /\ Head(todo)[1] # "ce" => chip'.ce = chip.ce
  BY <1>1, Frame
<1> QED
  BY <1>1, <1>2 DEF WiredInv

LEMMA CeKeepsWired ==
  ASSUME StationInv, Exchange, NEW h \in BOOLEAN, Head(todo) = CE(h)
  PROVE  Head(todo)[1] = "ce" /\ chip'.ce = h
<1>1. chip \in Chips /\ chip' = OnChip(chip, CE(h))
  BY DEF StationInv, TypeInv, Exchange
<1> QED
  BY <1>1, CeEffect DEF CE

LEMMA ListenKeepsChip ==
  ASSUME StationInv, Exchange, doing \in {"start", "scan"} \/ Closing
  PROVE  ChipInv'
<1> DEFINE x == Head(todo)
           j == Left - 1
           r == IF doing = "start" THEN "boot" ELSE IF doing = "scan" THEN "scan" ELSE result
<1>1. /\ j \in Nat /\ Left' = j /\ Left = j + 1 /\ x \in ListenPlan(firmware, Own, r)[j]
  BY ExchangeKeepsPlace DEF PlanOf, Sending, Closing
<1>2. /\ UNCHANGED <<firmware, role, doing, result>> /\ ~Sending
      /\ doing \notin {"boot", "dead", "idle", "await", "read", "tune"}
  BY DEF Exchange, boardVars, Sending, Closing
<1>3. /\ firmware \in Firmware /\ (doing = "scan" => firmware = "V1") /\ WiredInv /\ EarInv
      /\ Own \in Values
  BY <1>2 DEF StationInv, TypeInv, PlaceInv, ChipInv, Own, Values
<1>4. r = "scan" => doing = "scan"
  BY DEF StationInv, TypeInv
<1> HIDE DEF x, j, r
<1> DEFINE Ear == /\ chip'.reg.CONFIG = PRX => chip'.reg.RX_ADDR_P0 = Own
                  /\ doing = "scan" => chip'.reg.CONFIG = PRX /\ chip'.reg.RX_ADDR_P0 = Own
                  /\ j <= 5 => chip'.reg.RF_CH = RF_CHANNEL
                  /\ j <= 3 => chip'.reg.RX_ADDR_P0 = Own
                  /\ j <= 1 => chip'.reg.CONFIG = PRX
                  /\ j = 0 => chip'.ce
<1>5. SUFFICES chip'.reg.DYNPD = 0 /\ chip'.reg.FEATURE = 0 /\ WiredInv' /\ Ear
  BY <1>1, <1>2 DEF ChipInv, EarInv, Sending, Closing, Own, Tuned
<1>6. /\ chip.reg.CONFIG = PRX => chip.reg.RX_ADDR_P0 = Own
      /\ doing = "scan" => chip.reg.CONFIG = PRX /\ chip.reg.RX_ADDR_P0 = Own
      /\ j <= 4 => chip.reg.RF_CH = RF_CHANNEL
      /\ j <= 2 => chip.reg.RX_ADDR_P0 = Own
      /\ j = 0 => chip.reg.CONFIG = PRX
  BY <1>1, <1>2, <1>3 DEF EarInv, Tuned
<1>7. WiredInv' /\ firmware = "BasicRF" => chip'.reg.RF_CH = RF_CHANNEL
  BY <1>2 DEF WiredInv
<1>8. {"CONFIG", "RX_ADDR_P0", "RF_CH"} \subseteq Registers /\ PRX \in Values
  BY DEF Registers, Values, PRX
<1>9. CASE x[1] # "write" /\ (j = 5 => firmware = "BasicRF") /\ j # 3 /\ j # 1 /\ (j = 0 => x = CE(TRUE))
  <2>1. /\ chip'.reg.DYNPD = 0 /\ chip'.reg.FEATURE = 0 /\ WiredInv' /\ chip'.reg = chip.reg
    BY <1>2, <1>9, OtherKeepsWired DEF x
  <2>2. j = 0 => chip'.ce
    BY <1>9, CeKeepsWired DEF x
  <2> QED
    BY <1>1, <1>6, <1>7, <1>9, <2>1, <2>2
<1>10. CASE j = 1
  <2>1. x = Write("CONFIG", PRX)
    BY <1>1, <1>3, <1>10, ListenTable
  <2>2. /\ chip'.reg.DYNPD = 0 /\ chip'.reg.FEATURE = 0 /\ WiredInv'
        /\ chip'.reg.CONFIG = PRX /\ \A q \in Registers \ {"CONFIG"} : chip'.reg[q] = chip.reg[q]
    BY <1>2, <1>8, <2>1, WriteKeepsWired DEF x
  <2> QED
    BY <1>6, <1>8, <1>10, <2>2
<1>11. CASE j = 3
  <2>1. x = Write("RX_ADDR_P0", Own)
    BY <1>1, <1>3, <1>11, ListenTable
  <2>2. /\ chip'.reg.DYNPD = 0 /\ chip'.reg.FEATURE = 0 /\ WiredInv'
        /\ chip'.reg.RX_ADDR_P0 = Own /\ \A q \in Registers \ {"RX_ADDR_P0"} : chip'.reg[q] = chip.reg[q]
    BY <1>2, <1>3, <2>1, WriteKeepsWired DEF x
  <2> QED
    BY <1>6, <1>8, <1>11, <2>2
<1>12. CASE j \in {0, 2, 4}
  <2>1. x[1] # "write" /\ (j = 0 => x = CE(TRUE))
    <3>1. x = CE(TRUE) \/ x \in Clears \/ x = CE(FALSE)
      BY <1>1, <1>3, <1>12, ListenTable
    <3>2. j = 0 => x = CE(TRUE)
      BY <1>1, <1>3, <1>12, ListenTable
    <3> QED
      BY <3>1, <3>2, Names, OtherNames
  <2> QED
    <3>1. j # 3 /\ j # 1 /\ j # 5
      BY <1>12
    <3> QED
      BY <1>9, <2>1, <3>1
<1>13. CASE j > 4
  <2>1. CASE firmware = "V1" /\ j = 5 /\ x = Write("RF_CH", RF_CHANNEL)
    <3>1. RF_CHANNEL \in Values
      BY DEF Values, RF_CHANNEL
    <3>2. /\ chip'.reg.DYNPD = 0 /\ chip'.reg.FEATURE = 0 /\ WiredInv'
          /\ chip'.reg.RF_CH = RF_CHANNEL /\ \A q \in Registers \ {"RF_CH"} : chip'.reg[q] = chip.reg[q]
      BY <1>2, <2>1, <3>1, WriteKeepsWired DEF x
    <3> QED
      BY <1>6, <1>8, <2>1, <3>2
  <2>2. CASE x[1] # "write" /\ (j = 5 => firmware = "BasicRF")
    <3>1. j # 3 /\ j # 1 /\ j # 0
      BY <1>1, <1>13
    <3> QED
      BY <1>9, <2>2, <3>1
  <2>3. CASE doing = "scan" /\ firmware = "V1" /\ j > 6 /\ x = Write("CONFIG", PRX)
    <3>1. /\ chip'.reg.DYNPD = 0 /\ chip'.reg.FEATURE = 0 /\ WiredInv'
          /\ chip'.reg.CONFIG = PRX /\ \A q \in Registers \ {"CONFIG"} : chip'.reg[q] = chip.reg[q]
      BY <1>2, <1>8, <2>3, WriteKeepsWired DEF x
    <3> QED
      BY <1>1, <1>6, <1>8, <2>3, <3>1
  <2>4. CASE doing = "scan" /\ firmware = "V1" /\ j > 6 /\ x \in {Write("RF_CH", ch) : ch \in 0 .. 125}
    <3>1. PICK ch \in 0 .. 125 : x = Write("RF_CH", ch)
      BY <2>4
    <3>2. ch \in Values
      BY DEF Values
    <3>3. /\ chip'.reg.DYNPD = 0 /\ chip'.reg.FEATURE = 0 /\ WiredInv'
          /\ \A q \in Registers \ {"RF_CH"} : chip'.reg[q] = chip.reg[q]
      BY <1>2, <2>4, <3>1, <3>2, WriteKeepsWired DEF x
    <3> QED
      BY <1>1, <1>6, <1>8, <2>4, <3>3
  <2>5. \/ firmware = "V1" /\ j = 5 /\ x = Write("RF_CH", RF_CHANNEL)
        \/ firmware = "V1" /\ j = 6 /\ x = CE(FALSE)
        \/ r = "scan" /\ (firmware = "V1" => j > 6) /\ x \in ScanPlan
        \/ x \in Clears \cup {FlushTx} /\ j >= ListenSize(firmware)
    BY <1>1, <1>3, <1>13, AheadTable
  <2>6. x = CE(FALSE) \/ x = CE(TRUE) \/ x = FlushRx \/ x = FlushTx \/ x \in Clears => x[1] # "write"
    BY Names, OtherNames
  <2>7. j >= ListenSize(firmware) /\ j = 5 => firmware = "BasicRF"
    BY <1>3 DEF ListenSize, Firmware
  <2>8. r = "scan" /\ x \in ScanPlan =>
          \/ x = CE(FALSE) \/ x = CE(TRUE) \/ x = FlushRx \/ x \in Clears
          \/ x = Write("CONFIG", PRX)
          \/ x \in {Write("RF_CH", ch) : ch \in 0 .. 125}
    BY DEF ScanPlan
  <2>9. (firmware = "V1" => j > 6) => (j = 5 => firmware = "BasicRF")
    BY <1>3 DEF Firmware
  <2>10. CASE r = "scan" /\ (firmware = "V1" => j > 6) /\ x \in ScanPlan
    <3>1. doing = "scan" /\ firmware = "V1" /\ j > 6
      BY <1>3, <1>4, <2>10
    <3>2. x[1] # "write" => Ear /\ chip'.reg.DYNPD = 0 /\ chip'.reg.FEATURE = 0 /\ WiredInv'
      BY <2>2, <2>9, <2>10
    <3>3. CASE x = Write("CONFIG", PRX)
      BY <2>3, <3>1, <3>3
    <3>4. CASE x \in {Write("RF_CH", ch) : ch \in 0 .. 125}
      BY <2>4, <3>1, <3>4
    <3>5. x[1] # "write" \/ x = Write("CONFIG", PRX) \/ x \in {Write("RF_CH", ch) : ch \in 0 .. 125}
      BY <2>6, <2>8, <2>10
    <3> QED
      BY <3>2, <3>3, <3>4, <3>5
  <2>11. CASE firmware = "V1" /\ j = 6 /\ x = CE(FALSE)
    <3>1. x[1] # "write"
      BY <2>6, <2>11
    <3>2. j # 5
      BY <2>11
    <3> QED
      BY <2>2, <3>1, <3>2
  <2>12. CASE x \in Clears \cup {FlushTx} /\ j >= ListenSize(firmware)
    BY <2>2, <2>6, <2>7, <2>12
  <2> QED
    BY <2>1, <2>5, <2>10, <2>11, <2>12
<1>14. j \in {0, 2, 4} \/ j = 1 \/ j = 3 \/ j > 4
  BY <1>1
<1> QED
  BY <1>10, <1>11, <1>12, <1>13, <1>14

LEMMA SendKeepsChip ==
  ASSUME StationInv, Exchange, Sending
  PROVE  ChipInv'
<1> DEFINE x == Head(todo)
           j == Left - 1
<1>1. /\ j \in Nat /\ j > 0 /\ Left' = j /\ Left = j + 1 /\ x \in SendPlan(Far, Sequence)[j]
  BY ExchangeKeepsPlace DEF PlanOf, Sending
<1>2. /\ UNCHANGED <<firmware, role, doing, result>> /\ ~Closing
      /\ doing \notin {"boot", "dead", "idle", "await", "read", "tune", "start", "scan"}
  BY DEF Exchange, boardVars, Sending, Closing
<1>3. /\ chip.reg.CONFIG = PRX => chip.reg.RX_ADDR_P0 = Own
      /\ j <= 7 => chip.reg.CONFIG = PTX
      /\ j >= 9 => chip.reg.CONFIG = PRX
  BY <1>1 DEF StationInv, ChipInv, EarInv
<1> HIDE DEF x, j
<1> DEFINE Ear == /\ chip'.reg.CONFIG = PRX => chip'.reg.RX_ADDR_P0 = Own
                  /\ j <= 8 => chip'.reg.CONFIG = PTX
                  /\ j >= 10 => chip'.reg.CONFIG = PRX
<1>4. SUFFICES chip'.reg.DYNPD = 0 /\ chip'.reg.FEATURE = 0 /\ WiredInv' /\ Ear
  BY <1>1, <1>2 DEF ChipInv, EarInv, Sending, Closing, Own
<1>5. {"CONFIG", "RX_ADDR_P0", "TX_ADDR", "RF_SETUP"} \subseteq Registers /\ PRX # PTX
  BY DEF Registers, PRX, PTX
<1>6. CASE j = 8
  <2>1. x = Write("CONFIG", PTX) /\ PTX \in Values
    <3>1. x = Write("CONFIG", PTX)
      BY <1>1, <1>6, SendTable
    <3> QED
      BY <3>1 DEF Values, PTX
  <2>2. /\ chip'.reg.DYNPD = 0 /\ chip'.reg.FEATURE = 0 /\ WiredInv' /\ chip'.reg.CONFIG = PTX
    BY <1>2, <2>1, WriteKeepsWired DEF x
  <2> QED
    BY <1>5, <1>6, <2>2
<1>7. CASE j \in {6, 7}
  <2>1. PICK r \in {"RX_ADDR_P0", "TX_ADDR"} : x = Write(r, Far)
    BY <1>1, <1>7, SendTable
  <2>2. Far \in Values
    BY DEF Far, Values
  <2>3. /\ chip'.reg.DYNPD = 0 /\ chip'.reg.FEATURE = 0 /\ WiredInv'
        /\ \A q \in Registers \ {r} : chip'.reg[q] = chip.reg[q]
    BY <1>2, <2>1, <2>2, WriteKeepsWired DEF x
  <2>4. chip'.reg.CONFIG = chip.reg.CONFIG
    BY <1>5, <2>3
  <2> QED
    BY <1>3, <1>5, <1>7, <2>3, <2>4
<1>8. CASE j = 12
  <2>1. PICK l \in Level : x = Write("RF_SETUP", 2 * l)
    <3>1. x \in Powers
      BY <1>1, <1>8, SendTable
    <3> QED
      BY <3>1 DEF Powers
  <2>2. 2 * l \in Values
    BY DoubleLevel
  <2>3. /\ chip'.reg.DYNPD = 0 /\ chip'.reg.FEATURE = 0 /\ WiredInv'
        /\ \A q \in Registers \ {"RF_SETUP"} : chip'.reg[q] = chip.reg[q]
    BY <1>2, <2>1, <2>2, WriteKeepsWired DEF x
  <2> QED
    BY <1>3, <1>5, <1>8, <2>3
<1>9. CASE j \notin {6, 7, 8, 12}
  <2>1. x[1] # "write"
    <3>1. j \in {1, 2, 3, 4, 5, 9, 10, 11, 13}
      <4>1. j <= 13
        BY <1>1, SendTable
      <4> QED
        BY <1>1, <1>9, <4>1
    <3>2. Clear(IRQ_MASK) \in Clears /\ Payload(Sequence) \in Payloads
      <4>1. IRQ_MASK \in SUBSET IRQ_MASK
        OBVIOUS
      <4>2. Sequence \in Nat
        BY DEF StationInv, TypeInv, Sequence, Packets, NoPacket, Packet
      <4> QED
        BY <4>1, <4>2 DEF Clears, Payloads
    <3>3. \/ x = CE(TRUE) \/ x = CE(FALSE) \/ x = Guard \/ x = FlushTx
          \/ x = Clear(IRQ_MASK) \/ x = Payload(Sequence)
      BY <1>1, <3>1, SendTable
    <3> QED
      BY <3>2, <3>3, Names, OtherNames
  <2>2. chip'.reg.DYNPD = 0 /\ chip'.reg.FEATURE = 0 /\ WiredInv' /\ chip'.reg = chip.reg
    BY <1>2, <2>1, OtherKeepsWired DEF x
  <2> QED
    BY <1>1, <1>3, <1>9, <2>2
<1> QED
  BY <1>6, <1>7, <1>8, <1>9

LEMMA TuneKeepsChip ==
  ASSUME StationInv, Exchange, doing = "tune"
  PROVE  ChipInv'
<1> DEFINE x == Head(todo)
           j == Left - 1
<1>1. /\ j \in Nat /\ Left' = j /\ x \in TunePlan[j]
  BY ExchangeKeepsPlace DEF PlanOf
<1>2. UNCHANGED <<firmware, role, doing, result>>
  BY DEF Exchange, boardVars
<1>3. /\ chip.reg.CONFIG = PRX /\ chip.reg.RX_ADDR_P0 = Own /\ chip.reg.RF_CH = RF_CHANNEL
  BY DEF StationInv, ChipInv, EarInv, Tuned
<1> HIDE DEF x, j
<1>4. SUFFICES /\ chip'.reg.DYNPD = 0 /\ chip'.reg.FEATURE = 0 /\ WiredInv'
               /\ chip'.reg.CONFIG = PRX /\ chip'.reg.RX_ADDR_P0 = Own
               /\ chip'.reg.RF_CH = RF_CHANNEL /\ (j = 0 => chip'.ce)
  BY <1>1, <1>2 DEF ChipInv, EarInv, Sending, Closing, Own, Tuned
<1>5. CASE j = 1 /\ x \in Powers
  <2>1. PICK l \in Level : x = Write("RF_SETUP", 2 * l)
    BY <1>5 DEF Powers
  <2>2. 2 * l \in Values
    BY DoubleLevel
  <2>3. /\ chip'.reg.DYNPD = 0 /\ chip'.reg.FEATURE = 0 /\ WiredInv'
        /\ \A q \in Registers \ {"RF_SETUP"} : chip'.reg[q] = chip.reg[q]
    BY <2>1, <2>2, WriteKeepsWired DEF x
  <2>4. {"CONFIG", "RX_ADDR_P0", "RF_CH"} \subseteq Registers \ {"RF_SETUP"}
    BY DEF Registers
  <2> QED
    BY <1>3, <1>5, <2>3, <2>4
<1>6. CASE \/ j = 0 /\ x = CE(TRUE)
           \/ j = 2 /\ x = CE(FALSE)
  <2>1. x[1] # "write"
    BY <1>6, Names
  <2>2. chip'.reg.DYNPD = 0 /\ chip'.reg.FEATURE = 0 /\ WiredInv' /\ chip'.reg = chip.reg
    BY <2>1, OtherKeepsWired DEF x
  <2>3. j = 0 => x = CE(TRUE)
    BY <1>1, <1>6
  <2>4. x = CE(TRUE) => chip'.ce
    BY CeKeepsWired DEF x
  <2> QED
    BY <1>3, <2>2, <2>3, <2>4
<1>7. \/ j = 1 /\ x \in Powers
      \/ j = 0 /\ x = CE(TRUE)
      \/ j = 2 /\ x = CE(FALSE)
  BY <1>1 DEF TunePlan
<1> QED
  BY <1>5, <1>6, <1>7

LEMMA ClearKeepsChip ==
  ASSUME StationInv, Exchange, doing \in {"await", "read"}
  PROVE  ChipInv'
<1>1. Head(todo) = Clear({"RX_DR"})
  BY ExchangeKeepsPlace, ClearTable DEF PlanOf
<1>2. {"RX_DR"} \in SUBSET IRQ_MASK
  BY DEF IRQ_MASK
<1>3. Head(todo)[1] = "clear"
  BY <1>1, <1>2, OtherNames DEF Clears
<1>4. /\ chip'.reg.DYNPD = 0 /\ chip'.reg.FEATURE = 0 /\ WiredInv'
      /\ chip'.reg = chip.reg /\ chip'.ce = chip.ce
  BY <1>3, OtherKeepsWired
<1>5. UNCHANGED <<firmware, role, doing, result>>
  BY DEF Exchange, boardVars
<1> QED
  BY <1>4, <1>5 DEF StationInv, ChipInv, EarInv, Tuned, Sending, Closing, Own

LEMMA ExchangeKeepsInv ==
  ASSUME StationInv, Exchange
  PROVE  StationInv'
<1>1. doing \in Activities /\ (doing \in {"send", "reply"} => Sending \/ Closing)
  BY DEF StationInv, TypeInv, Sending, Closing
<1>2. doing \notin {"dead", "idle"}
  <2>1. doing \in {"dead", "idle"} => PlanOf = NoPlan
    BY DEF PlanOf, Sending, Closing
  <2> QED
    BY <2>1, ExchangeKeepsPlace DEF NoPlan
<1>3. ChipInv'
  BY <1>1, <1>2, BootKeepsChip, ListenKeepsChip, SendKeepsChip, TuneKeepsChip, ClearKeepsChip DEF Activities
<1> QED
  BY <1>3, ExchangeKeepsPlace, ExchangeKeepsType DEF StationInv

-----------------------------------------------------------------------------
\* The other steps of the program, and those of the environment

LEMMA InitStation == Init => StationInv
<1> SUFFICES ASSUME Init
             PROVE  StationInv
  OBVIOUS
<1>1. /\ firmware \in Firmware /\ role \in {"base", "remote"} /\ doing = "boot"
      /\ sound = TRUE /\ packet = NoPacket /\ result = "none" /\ next_sequence = 0
      /\ waiting = FALSE /\ air = NewAir
      /\ todo = Configure(firmware) \o CheckConfig(firmware)
  BY DEF Init
<1>2. /\ chip \in Chips /\ chip.reg.DYNPD = 0 /\ chip.reg.FEATURE = 0 /\ ~chip.ce
      /\ ~chip.sending
      /\ chip.reg.CONFIG = PRX => chip.reg.RX_ADDR_P0 = Own
  <2>1. /\ ResetChip(FALSE) \in Chips /\ ResetChip(FALSE).reg = ResetRegisters
        /\ ResetRegisters \in [Registers -> Values]
    BY ResetEffect
  <2>2. /\ ResetRegisters.DYNPD = 0 /\ ResetRegisters.FEATURE = 0 /\ ResetRegisters.CONFIG # PRX
        /\ ~ResetChip(FALSE).ce /\ ~ResetChip(FALSE).sending
    BY DEF ResetRegisters, PRX, ResetChip
  <2>3. CASE chip = ResetChip(FALSE)
    BY <2>1, <2>2, <2>3
  <2>4. CASE chip = [ResetChip(FALSE) EXCEPT !.on = FALSE]
    BY <2>1, <2>2, <2>4 DEF Chips
  <2>5. CASE chip = LeftOver
    <3> DEFINE g == [ResetRegisters EXCEPT !.CONFIG = PRX, !.RX_PW_P0 = PayloadSize(firmware),
                                           !.RF_CH = RF_CHANNEL, !.RX_ADDR_P0 = Own]
               xs == <<Packet(Own, "ping", 0)>>
               ts == <<0>>
    <3>1. g \in [Registers -> Values] /\ g.DYNPD = 0 /\ g.FEATURE = 0 /\ g.RX_ADDR_P0 = Own
      <4>1. /\ PRX \in Values /\ PayloadSize(firmware) \in Values /\ RF_CHANNEL \in Values
            /\ Own \in Values
        BY <1>1 DEF Values, PRX, PayloadSize, RF_CHANNEL, Own
      <4>2. {"DYNPD", "FEATURE", "RX_ADDR_P0"} \subseteq Registers
        BY DEF Registers
      <4> QED
        BY <2>1, <2>2, <4>1, <4>2
    <3>2. xs \in Seq(Packets) /\ ts \in Seq(Nat)
      <4>1. Packet(Own, "ping", 0) \in Packets
        BY <1>1 DEF Packet, Packets, Own
      <4> QED
        BY <4>1
    <3>3. chip = [ResetChip(FALSE) EXCEPT !.reg = g, !.rx = xs, !.tx = ts, !.flags = IRQ_MASK]
      BY <2>5 DEF LeftOver
    <3> HIDE DEF g, xs, ts
    <3> QED
      BY <2>1, <2>2, <3>1, <3>2, <3>3 DEF Chips
  <2> QED
    BY <2>3, <2>4, <2>5 DEF Init
<1>3. air \in Airs
  BY <1>1 DEF NewAir, Airs
<1>4. TypeInv
  BY <1>1, <1>2, <1>3 DEF TypeInv, Activities
<1>5. OnWay(todo, BootPlan(firmware)) /\ Left = 15 + CheckSize(firmware)
  BY <1>1, BootOnWay DEF Left
<1>6. PlaceInv
  BY <1>1, <1>5 DEF PlaceInv, PlanOf, Sending
<1>7. CheckedInv
  BY <1>1, <1>2, <1>5 DEF CheckedInv, CheckSize, Firmware
<1>8. EarInv
  BY <1>1, <1>2 DEF EarInv, Sending, Closing
<1> QED
  BY <1>1, <1>2, <1>4, <1>6, <1>7, <1>8 DEF StationInv, ChipInv

\* The chip's registers, its pin and its power are the program's.
LEMMA EnvironmentKeepsInv ==
  ASSUME StationInv, Unchanging, chip' \in Chips, air' \in Airs,
         chip'.reg = chip.reg, chip'.ce = chip.ce, chip'.on <=> chip.on,
         chip'.sending => chip'.tx # <<>>
  PROVE  StationInv'
<1>1. /\ UNCHANGED <<firmware, role, todo, doing, sound, packet, result, next_sequence, waiting>>
  BY DEF Unchanging, boardVars, programVars
<1>2. TypeInv'
  BY <1>1 DEF StationInv, TypeInv
<1>3. PlanOf' = PlanOf /\ Left' = Left /\ Sending' = Sending /\ Closing' = Closing
  BY <1>1 DEF PlanOf, Left, Sending, Closing, Sequence, Own, Far
<1>4. PlaceInv'
  BY <1>1, <1>3 DEF StationInv, PlaceInv
<1>5. CheckedInv => CheckedInv'
  BY <1>1, <1>3 DEF CheckedInv
<1>6. WiredInv => WiredInv'
  BY <1>1 DEF WiredInv
<1>7. EarInv => EarInv'
  BY <1>1, <1>3 DEF EarInv, Tuned, Own
<1>8. ChipInv'
  BY <1>1, <1>5, <1>6, <1>7 DEF StationInv, ChipInv
<1> QED
  BY <1>2, <1>4, <1>8 DEF StationInv

LEMMA FinishedChip ==
  ASSUME NEW c \in Chips
  PROVE  /\ c.tx # <<>> => Acked(c) \in Chips
         /\ Unanswered(c) \in Chips
         /\ [c EXCEPT !.acking = <<>>] \in Chips
         /\ \A p \in Packets : Heard(c, p) \in Chips
         /\ c.rx # <<>> => [c EXCEPT !.rx = Tail(@)] \in Chips /\ Head(c.rx) \in Packets
<1>1. /\ c.rx \in Seq(Packets) /\ c.tx \in Seq(Nat) /\ c.flags \subseteq IRQ_MASK
      /\ <<>> \in Seq(Packets) /\ \A p \in Packets : <<p>> \in Seq(Packets)
  BY DEF Chips
<1>2. /\ c.tx # <<>> => Tail(c.tx) \in Seq(Nat)
      /\ c.rx # <<>> => Tail(c.rx) \in Seq(Packets) /\ Head(c.rx) \in Packets
      /\ \A p \in Packets : Append(c.rx, p) \in Seq(Packets)
  BY <1>1
<1>3. /\ c.flags \cup {"TX_DS"} \subseteq IRQ_MASK /\ c.flags \cup {"MAX_RT"} \subseteq IRQ_MASK
      /\ c.flags \cup {"RX_DR"} \subseteq IRQ_MASK
  BY <1>1 DEF IRQ_MASK
<1>4. c.tx # <<>> => Acked(c) \in Chips
  BY <1>2, <1>3 DEF Acked, Chips
<1>5. Unanswered(c) \in Chips
  BY <1>3 DEF Unanswered, Chips
<1>6. [c EXCEPT !.acking = <<>>] \in Chips
  BY <1>1 DEF Chips
<1>7. \A p \in Packets : Heard(c, p) \in Chips
  BY <1>1, <1>2, <1>3 DEF Heard, Chips
<1>8. c.rx # <<>> => [c EXCEPT !.rx = Tail(@)] \in Chips
  BY <1>2 DEF Chips
<1> QED
  BY <1>2, <1>4, <1>5, <1>6, <1>7, <1>8

LEMMA SentHeardKeepsInv ==
  ASSUME StationInv, NEW acknowledged \in BOOLEAN, SentHeard(acknowledged)
  PROVE  StationInv'
<1>1. /\ chip \in Chips /\ chip.tx # <<>> /\ air \in Airs
  BY DEF StationInv, TypeInv, SentHeard
<1>2. chip' \in {Acked(chip), chip}
  BY DEF SentHeard
<1>3. /\ chip' \in Chips /\ chip'.reg = chip.reg /\ chip'.ce = chip.ce /\ (chip'.on <=> chip.on)
      /\ (chip'.sending => chip'.tx # <<>>)
  <2>1. CASE chip' = chip
    BY <1>1, <2>1 DEF StationInv, TypeInv
  <2>2. CASE chip' = Acked(chip)
    BY <1>1, <2>2, FinishedChip DEF Acked, Chips
  <2> QED
    BY <1>2, <2>1, <2>2
<1>4. air' \in Airs
  <2>1. Head(chip.tx) \in Nat
    BY <1>1 DEF Chips
  <2> QED
    BY <1>1, <2>1 DEF SentHeard, Airs
<1> QED
  BY <1>3, <1>4, EnvironmentKeepsInv DEF SentHeard

LEMMA SentUnansweredKeepsInv ==
  ASSUME StationInv, SentUnanswered
  PROVE  StationInv'
<1>1. chip \in Chips /\ air \in Airs /\ chip' = Unanswered(chip) /\ air' = air
  BY DEF StationInv, TypeInv, SentUnanswered
<1>2. /\ chip' \in Chips /\ chip'.reg = chip.reg /\ chip'.ce = chip.ce /\ (chip'.on <=> chip.on)
      /\ ~chip'.sending
  BY <1>1, FinishedChip DEF Unanswered, Chips
<1> QED
  BY <1>1, <1>2, EnvironmentKeepsInv DEF SentUnanswered

LEMMA OnAirKeepsInv ==
  ASSUME StationInv, Unchanging, NEW p \in Packets, NEW e \in Airs, OnAir(p, e)
  PROVE  StationInv'
<1>1. chip \in Chips /\ (chip.sending => chip.tx # <<>>)
  BY DEF StationInv, TypeInv
<1>2. CASE chip' = chip /\ air' = e
  BY <1>1, <1>2, EnvironmentKeepsInv
<1>3. CASE chip' = Heard(chip, p) /\ air' = [e EXCEPT !.heard = @ \cup {p}]
  <2>1. /\ chip' \in Chips /\ chip'.reg = chip.reg /\ chip'.ce = chip.ce /\ (chip'.on <=> chip.on)
        /\ (chip'.sending => chip'.tx # <<>>)
    BY <1>1, <1>3, FinishedChip DEF Heard, Chips
  <2>2. air' \in Airs
    BY <1>3 DEF Airs
  <2> QED
    BY <2>1, <2>2, EnvironmentKeepsInv
<1> QED
  BY <1>2, <1>3 DEF OnAir

LEMMA FarSendsKeepsInv ==
  ASSUME StationInv, FarSends
  PROVE  StationInv'
<1>1. air \in Airs /\ Own \in {"base", "remote"}
  BY DEF StationInv, TypeInv, Own
<1>2. PICK s \in IF role = "base" THEN air.far_got \ air.far_sent
                  ELSE {Cardinality(air.far_sent) + 1} \cap (1 .. MaxSequence) :
        OnAir(Packet(Own, IF role = "base" THEN "reply" ELSE "ping", s),
              [air EXCEPT !.far_sent = @ \cup {s}])
  BY DEF FarSends
<1>3. s \in Nat
  <2>1. air.far_got \subseteq Nat
    BY <1>1 DEF Airs
  <2>2. 1 .. MaxSequence \subseteq Nat
    OBVIOUS
  <2> QED
    BY <2>1, <2>2
<1>4. Packet(Own, IF role = "base" THEN "reply" ELSE "ping", s) \in Packets
  BY <1>1, <1>3 DEF Packet, Packets
<1>5. [air EXCEPT !.far_sent = @ \cup {s}] \in Airs
  BY <1>1, <1>3 DEF Airs
<1> QED
  BY <1>2, <1>4, <1>5, OnAirKeepsInv DEF FarSends

LEMMA StraySendsKeepsInv ==
  ASSUME StationInv, StraySends
  PROVE  StationInv'
<1>1. air \in Airs /\ Own \in {"base", "remote"} /\ Far \in {"base", "remote"}
  BY DEF StationInv, TypeInv, Own, Far
<1>2. PICK to \in {Own, Far} : OnAir(Packet(to, "bad", 0),
                                   [air EXCEPT !.strays = IF doing = "await" THEN @ ELSE @ + 1])
  BY DEF StraySends
<1>3. /\ Packet(to, "bad", 0) \in Packets
      /\ [air EXCEPT !.strays = IF doing = "await" THEN @ ELSE @ + 1] \in Airs
  BY <1>1 DEF Packet, Packets, Airs
<1> QED
  BY <1>2, <1>3, OnAirKeepsInv DEF StraySends

LEMMA AcknowledgedKeepsInv ==
  ASSUME StationInv, Acknowledged
  PROVE  StationInv'
<1>1. /\ chip \in Chips /\ (chip.sending => chip.tx # <<>>) /\ air \in Airs
  BY DEF StationInv, TypeInv
<1>2. /\ chip' \in Chips /\ chip'.reg = chip.reg /\ chip'.ce = chip.ce /\ (chip'.on <=> chip.on)
      /\ (chip'.sending => chip'.tx # <<>>)
  BY <1>1, FinishedChip DEF Acknowledged, Chips
<1>3. air' \in Airs
  <2>1. ToSet(chip.acking) \subseteq Packets
    BY <1>1 DEF Chips, ToSet
  <2> QED
    BY <1>1, <2>1 DEF Acknowledged, Airs
<1> QED
  BY <1>2, <1>3, EnvironmentKeepsInv DEF Acknowledged

LEMMA PowerChangeKeepsInv ==
  ASSUME StationInv, PowerChange
  PROVE  StationInv'
<1>1. /\ chip \in Chips /\ air \in Airs /\ doing = "boot" /\ CheckedInv /\ ~chip.ce
      /\ chip' = [ResetChip(chip.ce) EXCEPT !.on = ~chip.on]
      /\ air' = air
      /\ UNCHANGED <<firmware, role, todo, doing, sound, packet, result, next_sequence, waiting>>
      /\ todo # <<>> /\ OnWay(todo, PlanOf)
  BY DEF StationInv, TypeInv, PlaceInv, ChipInv, CheckedInv, PowerChange, Unchanging, boardVars, programVars
<1>2. /\ chip' \in Chips /\ ~chip'.sending /\ ~chip'.ce /\ chip'.reg = ResetRegisters
  <2>1. chip.ce \in BOOLEAN /\ chip.on \in BOOLEAN
    BY <1>1 DEF Chips
  <2>2. ResetChip(chip.ce) \in Chips /\ ResetChip(chip.ce).reg = ResetRegisters
    BY <2>1, ResetEffect
  <2>3. ~ResetChip(chip.ce).sending /\ ~ResetChip(chip.ce).ce
    BY <1>1 DEF ResetChip
  <2> QED
    BY <1>1, <2>1, <2>2, <2>3 DEF Chips
<1>3. /\ chip'.reg.DYNPD = 0 /\ chip'.reg.FEATURE = 0 /\ chip'.reg.CONFIG # PRX
      /\ chip'.reg.RX_PW_P0 # PayloadSize(firmware)
  BY <1>2 DEF ResetRegisters, PRX, PayloadSize
<1>4. air' \in Airs
  BY <1>1 DEF Airs
<1>5. TypeInv'
  BY <1>1, <1>2, <1>4 DEF StationInv, TypeInv
<1>6. PlanOf' = PlanOf /\ Left' = Left /\ Sending' = Sending
  BY <1>1 DEF PlanOf, Left, Sending, Closing, Sequence, Own, Far
<1>7. PlaceInv'
  BY <1>1, <1>6 DEF StationInv, PlaceInv
<1>8. Left # 0
  BY <1>1, NoneLeft DEF Left
<1>9. CheckedInv'
  BY <1>1, <1>2, <1>3, <1>6, <1>8 DEF CheckedInv
<1>10. EarInv'
  BY <1>1, <1>3 DEF EarInv, Sending, Closing
<1> QED
  BY <1>1, <1>3, <1>5, <1>7, <1>9, <1>10 DEF StationInv, ChipInv

\* The receiver is on its channel and its address, and enabled.
Listens == Tuned /\ chip.reg.RF_CH = RF_CHANNEL /\ chip.ce

LEMMA RoutineListens ==
  ASSUME StationInv, todo = <<>>,
         doing \in {"start", "idle", "await", "read", "tune", "scan"} \/ Closing
  PROVE  Listens /\ WiredInv
<1>1. Left = 0
  BY NoneLeft DEF StationInv, PlaceInv, Left
<1>2. WiredInv /\ EarInv
  BY DEF StationInv, ChipInv, Closing
<1> QED
  BY <1>1, <1>2 DEF EarInv, Tuned, Listens

LEMMA NothingSent ==
  ASSUME StationInv, todo = <<>>
  PROVE  ~Sending
  BY DEF StationInv, PlaceInv

LEMMA SettleKeepsInv ==
  ASSUME StationInv, TypeInv', Listens, WiredInv, UNCHANGED <<firmware, role>>,
         chip'.reg = chip.reg, chip'.ce = chip.ce, chip'.on <=> chip.on,
         doing' \in {"idle", "await", "read"},
         todo' = <<>> \/ (doing' # "idle" /\ todo' = <<Clear({"RX_DR"})>>)
  PROVE  StationInv'
<1>1. OnWay(todo', PlanOf')
  <2>1. doing' # "idle" => PlanOf' = ClearPlan
    BY DEF PlanOf
  <2> QED
    BY <2>1, ClearOnWay, EmptyOnWay
<1>2. PlaceInv'
  BY <1>1 DEF PlaceInv, Sending
<1>3. WiredInv'
  BY DEF WiredInv
<1>4. EarInv'
  BY DEF Listens, Tuned, EarInv, Sending, Closing, Own
<1>5. chip'.reg.DYNPD = 0 /\ chip'.reg.FEATURE = 0
  BY DEF StationInv, ChipInv
<1> QED
  BY <1>2, <1>3, <1>4, <1>5 DEF StationInv, ChipInv

LEMMA TuneKeepsInv ==
  ASSUME StationInv, TypeInv', Listens, WiredInv, UNCHANGED <<firmware, role, chip>>,
         doing' = "tune", NEW l \in Level, todo' = SetTxPower(l, chip.ce)
  PROVE  StationInv'
<1>1. chip.ce = TRUE
  BY DEF Listens, StationInv, TypeInv, Chips
<1>2. OnWay(todo', PlanOf') /\ Left' = 3
  BY <1>1, TuneOnWay DEF PlanOf, Left
<1>3. PlaceInv'
  BY <1>2 DEF PlaceInv, Sending
<1>4. WiredInv'
  BY DEF WiredInv
<1>5. EarInv'
  BY <1>2 DEF Listens, Tuned, EarInv, Sending, Closing, Own
<1>6. chip'.reg.DYNPD = 0 /\ chip'.reg.FEATURE = 0
  BY DEF StationInv, ChipInv
<1> QED
  BY <1>3, <1>4, <1>5, <1>6 DEF StationInv, ChipInv

LEMMA SendKeepsInv ==
  ASSUME StationInv, TypeInv', Listens, WiredInv, UNCHANGED <<firmware, role, chip>>,
         \/ doing' = "send" /\ role = "base"
         \/ doing' = "reply" /\ role = "remote",
         result' = "none", OnWay(todo', SendPlan(Far, Sequence')), Len(todo') >= 10
  PROVE  StationInv'
<1>1. Sending' /\ ~Closing' /\ Far' = Far
  BY DEF Sending, Closing, Far
<1>2. PlanOf' = SendPlan(Far, Sequence')
  BY <1>1 DEF PlanOf, Sending
<1>3. Left' \in Nat /\ Left' >= 10
  BY NoneLeft DEF Left
<1>4. todo' # <<>>
  BY <1>3, EmptySeq DEF Left
<1>5. PlaceInv'
  BY <1>1, <1>2, <1>4 DEF PlaceInv
<1>6. WiredInv'
  BY DEF WiredInv
<1>7. EarInv'
  <2>1. chip'.reg.CONFIG = PRX /\ chip'.reg.RX_ADDR_P0 = Own'
    BY DEF Listens, Tuned, Own
  <2>2. ~(Left' <= 8)
    BY <1>3
  <2> QED
    BY <1>1, <2>1, <2>2 DEF EarInv
<1>8. chip'.reg.DYNPD = 0 /\ chip'.reg.FEATURE = 0
  BY DEF StationInv, ChipInv
<1> QED
  BY <1>5, <1>6, <1>7, <1>8 DEF StationInv, ChipInv

LEMMA BootedKeepsInv ==
  ASSUME StationInv, Booted
  PROVE  StationInv'
<1>1. /\ UNCHANGED <<firmware, role, chip, sound, packet, result, next_sequence, waiting, air>>
      /\ doing = "boot" /\ todo = <<>> /\ TypeInv /\ CheckedInv
      /\ chip.reg.DYNPD = 0 /\ chip.reg.FEATURE = 0
      /\ chip.reg.CONFIG = PRX => chip.reg.RX_ADDR_P0 = Own
  BY DEF Booted, boardVars, programVars, StationInv, ChipInv, EarInv
<1>2. Left = 0
  BY <1>1, NoneLeft DEF StationInv, PlaceInv, Left
<1>3. doing' \in {"start", "dead"}
  BY DEF Booted, Begin
<1>4. TypeInv'
  BY <1>1, <1>3 DEF TypeInv, Activities
<1>5. ~Sending' /\ ~Closing' /\ Own' = Own
  BY <1>1, <1>3 DEF Sending, Closing, Own
<1>6. CASE ~sound
  <2>1. doing' = "dead" /\ todo' = <<>>
    BY <1>6 DEF Booted, Begin
  <2>2. PlaceInv'
    BY <1>5, <2>1, EmptyOnWay DEF PlaceInv
  <2>3. EarInv'
    BY <1>1, <1>5, <2>1 DEF EarInv
  <2> QED
    BY <1>1, <1>4, <2>1, <2>2, <2>3 DEF StationInv, ChipInv
<1>7. CASE sound
  <2>1. doing' = "start" /\ todo' = StartListening(firmware, Own)
    BY <1>7 DEF Booted, Begin
  <2>2. PlanOf' = ListenPlan(firmware, Own, "boot")
    BY <1>1, <1>5, <2>1 DEF PlanOf
  <2>3. OnWay(todo', PlanOf') /\ Left' = ListenSize(firmware)
    BY <1>1, <2>1, <2>2, ListenOnWay DEF Left, TypeInv
  <2>4. PlaceInv'
    BY <1>5, <2>1, <2>3 DEF PlaceInv
  <2>5. WiredInv
    BY <1>1, <1>2, <1>7 DEF CheckedInv, WiredInv
  <2>6. WiredInv'
    BY <1>1, <2>5 DEF WiredInv
  <2>7. /\ Left' <= 5 => chip'.reg.RF_CH = RF_CHANNEL
        /\ ~(Left' <= 3) /\ ~(Left' <= 1) /\ Left' # 0
    BY <1>1, <2>3, <2>5 DEF ListenSize, WiredInv, TypeInv, Firmware
  <2>8. EarInv'
    BY <1>1, <1>5, <2>1, <2>7 DEF EarInv
  <2> QED
    BY <1>1, <1>4, <2>1, <2>4, <2>6, <2>8 DEF StationInv, ChipInv
<1> QED
  BY <1>6, <1>7

LEMMA StartedKeepsInv ==
  ASSUME StationInv, Started
  PROVE  StationInv'
<1>1. /\ UNCHANGED <<firmware, role, chip, sound, packet, result, next_sequence, waiting, air>>
      /\ doing = "start" /\ todo = <<>> /\ TypeInv
  BY DEF Started, boardVars, programVars, StationInv
<1>2. Listens /\ WiredInv
  BY <1>1, RoutineListens
<1>3. CASE \E l \in Level : doing' = "tune" /\ todo' = SetTxPower(l, chip.ce)
  <2>1. PICK l \in Level : doing' = "tune" /\ todo' = SetTxPower(l, chip.ce)
    BY <1>3
  <2>2. TypeInv'
    BY <1>1, <2>1 DEF TypeInv, Activities
  <2> QED
    BY <1>1, <1>2, <2>1, <2>2, TuneKeepsInv
<1>4. CASE doing' = "idle" /\ todo' = <<>>
  <2>1. TypeInv'
    BY <1>1, <1>4 DEF TypeInv, Activities
  <2> QED
    BY <1>1, <1>2, <1>4, <2>1, SettleKeepsInv
<1> QED
  BY <1>3, <1>4 DEF Started, Begin

LEMMA IdleIsAtRest ==
  ASSUME StationInv, doing = "idle"
  PROVE  todo = <<>> /\ Listens /\ WiredInv
<1>1. PlanOf = NoPlan
  BY DEF PlanOf, Sending, Closing
<1>2. OnWay(todo, NoPlan)
  BY <1>1 DEF StationInv, PlaceInv
<1>3. todo = <<>>
  <2>1. SUFFICES ASSUME todo # <<>>
                 PROVE  FALSE
    OBVIOUS
  <2>2. Len(todo) \in Nat \ {0} /\ Head(todo) \in NoPlan[Len(todo) - 1]
    BY <1>2, <2>1, TailOnWay
  <2>3. NoPlan[Len(todo) - 1] = {}
    BY <2>2 DEF NoPlan
  <2> QED
    BY <2>2, <2>3
<1> QED
  BY <1>3, RoutineListens

LEMMA SendPingKeepsInv ==
  ASSUME StationInv, SendPing
  PROVE  StationInv'
<1>1. /\ UNCHANGED <<firmware, role, chip, sound, packet, air>> /\ result' = "none"
      /\ doing = "idle" /\ role = "base" /\ doing' = "send" /\ TypeInv
      /\ todo' = SendStart(Far, next_sequence')
      /\ next_sequence' = next_sequence + 1 /\ waiting' = (firmware = "V1")
  BY DEF SendPing, Begin, boardVars, StationInv
<1>2. TypeInv'
  BY <1>1 DEF TypeInv, Activities
<1>3. Sequence' = next_sequence'
  BY <1>1 DEF Sequence
<1>4. OnWay(todo', SendPlan(Far, Sequence')) /\ Len(todo') = 10
  BY <1>1, <1>3, SendOnWay
<1>5. Listens /\ WiredInv
  BY <1>1, IdleIsAtRest
<1>6. Len(todo') >= 10
  BY <1>4
<1> QED
  BY <1>1, <1>2, <1>4, <1>5, <1>6, SendKeepsInv

LEMMA SendEndsKeepsInv ==
  ASSUME StationInv, NEW r \in {"ok", "max_retries", "timeout"}, SendEnds(r)
  PROVE  StationInv' /\ Sending /\ Left = 1 /\ Left' > ListenSize(firmware)
<1>1. /\ UNCHANGED <<firmware, role, chip, doing, sound, packet, next_sequence, waiting, air>>
      /\ todo # <<>> /\ Head(todo) = Poll /\ result' = r
      /\ todo' = SendEnd(firmware, r) \o StartListening(firmware, Own)
      /\ TypeInv /\ PlaceInv /\ ChipInv /\ firmware \in Firmware
  BY DEF SendEnds, boardVars, StationInv, TypeInv
<1>2. /\ Left \in Nat \ {0} /\ Poll \in PlanOf[Left - 1]
  BY <1>1, TailOnWay DEF PlaceInv, Left
<1>3. Sending /\ Left = 1
  <2> DEFINE j == Left - 1
  <2>1. j \in Nat /\ Poll \in PlanOf[j]
    BY <1>2
  <2> HIDE DEF j
  <2>2. /\ Poll \notin Clears /\ Poll \notin Payloads /\ Poll \notin BootRegisters
        /\ Poll # CE(TRUE) /\ Poll # CE(FALSE) /\ Poll # FlushRx /\ Poll # FlushTx /\ Poll # Guard
        /\ \A q, v : Poll # Write(q, v)
    <3>1. Poll[1] = "poll"
      BY Names
    <3>2. Poll \notin Clears /\ Poll \notin Payloads /\ Poll \notin BootRegisters
      BY <3>1, OtherNames
    <3>3. Poll # CE(TRUE) /\ Poll # CE(FALSE) /\ Poll # FlushRx /\ Poll # FlushTx /\ Poll # Guard
      BY Names
    <3>4. \A q, v : Poll # Write(q, v)
      BY <3>1, WriteName
    <3> QED
      BY <3>2, <3>3, <3>4
  <2>3. ASSUME NEW fw \in Firmware, NEW own, NEW k, Poll \in ListenPlan(fw, own, k)[j]
        PROVE  FALSE
    <3>1. CASE j \in {0, 1, 2, 3, 4}
      <4>1. \/ Poll = CE(TRUE) \/ Poll = Write("CONFIG", PRX) \/ Poll \in Clears
            \/ Poll = Write("RX_ADDR_P0", own) \/ Poll = CE(FALSE)
        BY <2>1, <2>3, <3>1, ListenTable
      <4> QED
        BY <2>2, <4>1
    <3>2. CASE j > 4
      <4>1. \/ Poll = Write("RF_CH", RF_CHANNEL) \/ Poll = CE(FALSE) \/ Poll \in ScanPlan
            \/ Poll \in Clears \cup {FlushTx}
        BY <2>1, <2>3, <3>2, AheadTable
      <4>2. Poll \notin ScanPlan
        BY <2>2 DEF ScanPlan
      <4> QED
        BY <2>2, <4>1, <4>2
    <3>3. j \in {0, 1, 2, 3, 4} \/ j > 4
      BY <2>1
    <3> QED
      BY <3>1, <3>2, <3>3
  <2>4. Poll \notin TunePlan[j]
    BY <2>1, <2>2 DEF TunePlan, Powers
  <2>5. Poll \notin ClearPlan[j]
    <3>1. Clear({"RX_DR"}) \in Clears
      BY DEF Clears, IRQ_MASK
    <3> QED
      BY <2>1, <2>2, <3>1, ClearTable
  <2>6. Poll \notin BootPlan(firmware)[j]
    <3>1. Poll \in BootPlan(firmware)[j] =>
            \/ Poll \in CheckPlan(firmware, j) \/ Poll = FlushRx \/ Poll \in BootWrites
      BY <1>1, <2>1, BootTable
    <3>2. Poll \notin CheckPlan(firmware, j)
      <4>1. \A x \in CheckPlan(firmware, j) : x[1] = "expect"
        BY DEF CheckPlan, Expect
      <4> QED
        BY <4>1, Names
    <3>3. Poll \notin BootWrites
      BY <2>2 DEF BootWrites, BootOthers
    <3> QED
      BY <2>2, <3>1, <3>2, <3>3
  <2>7. Sending
    BY <1>1, <2>1, <2>3, <2>4, <2>5, <2>6 DEF PlanOf, NoPlan
  <2>8. Poll \in SendPlan(Far, Sequence)[j]
    BY <2>1, <2>7 DEF PlanOf, Sending
  <2>9. j = 0
    <3>1. j \in 0 .. 13
      <4>1. j <= 13
        BY <2>1, <2>8, SendTable
      <4> QED
        BY <2>1, <4>1
    <3>2. Poll # Payload(Sequence) /\ Poll # Clear(IRQ_MASK)
      <4>1. Payload(Sequence) \in Payloads
        BY <1>1 DEF Payloads, TypeInv, Sequence, Packets, NoPacket, Packet
      <4>2. Clear(IRQ_MASK) \in Clears
        BY DEF Clears
      <4> QED
        BY <2>2, <4>1, <4>2
    <3> DEFINE plan == SendPlan(Far, Sequence)
    <3>3. /\ plan[1] = {CE(FALSE)} /\ plan[2] = {CE(TRUE)}
          /\ plan[3] = {Payload(Sequence)} /\ plan[4] = {FlushTx} /\ plan[5] = {Clear(IRQ_MASK)}
          /\ plan[6] = {Write("RX_ADDR_P0", Far)} /\ plan[7] = {Write("TX_ADDR", Far)}
          /\ plan[8] = {Write("CONFIG", PTX)} /\ plan[9] = {CE(FALSE)} /\ plan[10] = {Guard}
      BY DEF SendPlan
    <3>4. /\ plan[11] = {CE(TRUE)} /\ plan[12] = Powers /\ plan[13] = {CE(FALSE)}
          /\ Poll \in plan[j]
      <4>1. plan[11] = TunePlan[0] /\ plan[12] = TunePlan[1] /\ plan[13] = TunePlan[2]
        BY DEF SendPlan
      <4>2. TunePlan[0] = {CE(TRUE)} /\ TunePlan[1] = Powers /\ TunePlan[2] = {CE(FALSE)}
        BY DEF TunePlan
      <4> QED
        BY <2>8, <4>1, <4>2
    <3> HIDE DEF plan
    <3>5. j # 1 /\ j # 2 /\ j # 3 /\ j # 4 /\ j # 5
      BY <2>2, <3>2, <3>3, <3>4
    <3>6. j # 6 /\ j # 7 /\ j # 8 /\ j # 12
      <4>1. Poll \notin Powers
        BY <2>2 DEF Powers
      <4> QED
        BY <2>2, <3>3, <3>4, <4>1
    <3>7. j # 9 /\ j # 10 /\ j # 11 /\ j # 13
      BY <2>2, <3>3, <3>4
    <3> QED
      BY <3>1, <3>5, <3>6, <3>7
  <2> QED
    BY <1>2, <2>7, <2>9 DEF j
<1>4. /\ OnWay(todo', ListenPlan(firmware, Own, r)) /\ Left' > ListenSize(firmware) /\ Left' \in Nat
  BY <1>1, EndOnWay, NoneLeft DEF Left
<1>5. TypeInv'
  BY <1>1 DEF TypeInv
<1>6. ~Sending' /\ Closing' /\ Own' = Own
  BY <1>1, <1>3 DEF Sending, Closing, Own
<1>7. PlaceInv'
  <2>1. PlanOf' = ListenPlan(firmware, Own, r)
    BY <1>1, <1>6 DEF PlanOf, Closing
  <2> QED
    BY <1>1, <1>4, <1>6, <2>1 DEF PlaceInv
<1>8. WiredInv'
  BY <1>1, <1>3 DEF WiredInv, ChipInv, Sending
<1>9. EarInv'
  <2>1. ~(Left' <= 3) /\ ~(Left' <= 1) /\ Left' # 0 /\ (Left' <= 5 => firmware = "BasicRF")
    BY <1>1, <1>4 DEF ListenSize, Firmware
  <2>2. firmware = "BasicRF" => chip.reg.RF_CH = RF_CHANNEL
    BY <1>1, <1>3 DEF ChipInv, WiredInv, Sending
  <2>3. chip'.reg.CONFIG = PRX => chip'.reg.RX_ADDR_P0 = Own'
    BY <1>1, <1>6 DEF ChipInv, EarInv
  <2> QED
    BY <1>1, <1>3, <1>6, <2>1, <2>2, <2>3 DEF EarInv, Sending
<1>10. doing' # "boot"
  BY <1>1, <1>3 DEF Sending
<1> QED
  BY <1>1, <1>3, <1>4, <1>5, <1>7, <1>8, <1>9, <1>10 DEF StationInv, ChipInv

LEMMA PingSentKeepsInv ==
  ASSUME StationInv, PingSent
  PROVE  StationInv' /\ Closing
<1>1. /\ UNCHANGED <<firmware, role, chip, sound, packet, result, next_sequence, waiting, air>>
      /\ doing = "send" /\ todo = <<>> /\ TypeInv
      /\ doing' \in {"await", "idle"} /\ todo' = <<>>
  BY DEF PingSent, Begin, boardVars, programVars, StationInv
<1>2. Closing
  BY <1>1, NothingSent DEF Sending, Closing
<1>3. TypeInv'
  BY <1>1 DEF TypeInv, Activities
<1> QED
  BY <1>1, <1>2, <1>3, RoutineListens, SettleKeepsInv

LEMMA ReceiveKeepsInv ==
  ASSUME StationInv, Receive
  PROVE  StationInv'
<1>1. /\ UNCHANGED <<firmware, role, sound, result, next_sequence, waiting>>
      /\ doing \in {"await", "idle"} /\ todo = <<>> /\ TypeInv
      /\ chip.rx # <<>> /\ packet' = Head(chip.rx) /\ chip' = [chip EXCEPT !.rx = Tail(@)]
      /\ air' = [air EXCEPT !.read = @ \cup {packet'}]
      /\ doing' \in {"await", "read"} /\ todo' = <<Clear({"RX_DR"})>>
  BY DEF Receive, CanReceive, Begin, boardVars, StationInv
<1>2. /\ chip' \in Chips /\ packet' \in Packets
  BY <1>1, FinishedChip DEF TypeInv
<1>3. /\ chip'.reg = chip.reg /\ chip'.ce = chip.ce /\ (chip'.on <=> chip.on)
      /\ (chip'.sending => chip'.tx # <<>>)
  BY <1>1 DEF TypeInv, Chips
<1>4. air' \in Airs
  BY <1>1, <1>2 DEF TypeInv, Airs
<1>5. TypeInv'
  BY <1>1, <1>2, <1>3, <1>4 DEF TypeInv, Activities
<1> QED
  BY <1>1, <1>3, <1>5, RoutineListens, SettleKeepsInv

LEMMA AwaitedKeepsInv ==
  ASSUME StationInv, Awaited \/ ReplyDeadline
  PROVE  StationInv'
<1>1. /\ UNCHANGED <<firmware, role, chip, sound, result, next_sequence, waiting, air>>
      /\ doing = "await" /\ todo = <<>> /\ TypeInv
      /\ packet' \in {packet, NoPacket} /\ doing' \in {"await", "idle"} /\ todo' = <<>>
  BY DEF Awaited, ReplyDeadline, Deadline, Begin, boardVars, programVars, StationInv
<1>2. TypeInv'
  BY <1>1 DEF TypeInv, Activities
<1> QED
  BY <1>1, <1>2, RoutineListens, SettleKeepsInv

LEMMA CommandTimeoutKeepsInv ==
  ASSUME StationInv, CommandTimeout
  PROVE  StationInv'
<1>1. /\ UNCHANGED <<firmware, role, chip, todo, doing, sound, packet, result, next_sequence, air>>
      /\ doing = "idle" /\ waiting' = FALSE /\ TypeInv
  BY DEF CommandTimeout, boardVars, StationInv
<1>2. TypeInv'
  BY <1>1 DEF TypeInv
<1> QED
  BY <1>1, <1>2, IdleIsAtRest, SettleKeepsInv

LEMMA AnswerPingKeepsInv ==
  ASSUME StationInv, AnswerPing
  PROVE  StationInv'
<1>1. /\ UNCHANGED <<firmware, role, chip, sound, packet, next_sequence, waiting>>
      /\ doing = "read" /\ todo = <<>> /\ TypeInv /\ role = "remote"
      /\ doing' = "reply" /\ result' = "none"
      /\ air' \in {air, [air EXCEPT !.raised = TRUE]}
      /\ \/ todo' = Answer(packet)
         \/ \E l \in Level : todo' = SetTxPower(l, chip.ce) \o Answer(packet)
  BY DEF AnswerPing, Begin, boardVars, StationInv
<1>2. Listens /\ WiredInv /\ chip.ce = TRUE
  <2>1. Listens /\ WiredInv
    BY <1>1, RoutineListens
  <2> QED
    BY <1>1, <2>1 DEF Listens, TypeInv, Chips
<1>3. air' \in Airs
  BY <1>1 DEF TypeInv, Airs
<1>4. TypeInv'
  BY <1>1, <1>3 DEF TypeInv, Activities
<1>5. Sequence' = packet.seq
  BY <1>1 DEF Sequence
<1>6. OnWay(todo', SendPlan(Far, Sequence')) /\ Len(todo') \in {11, 14}
  <2>1. CASE todo' = Answer(packet)
    BY <1>5, <2>1, AnswerOnWay DEF Answer
  <2>2. CASE \E l \in Level : todo' = SetTxPower(l, chip.ce) \o Answer(packet)
    <3>1. PICK l \in Level : todo' = SetTxPower(l, TRUE) \o Answer(packet)
      BY <1>2, <2>2
    <3> QED
      BY <1>5, <3>1, TunedAnswerOnWay DEF Answer
  <2> QED
    BY <1>1, <2>1, <2>2
<1>7. Len(todo') >= 10
  BY <1>6
<1> QED
  BY <1>1, <1>2, <1>4, <1>6, <1>7, SendKeepsInv

LEMMA TakePacketKeepsInv ==
  ASSUME StationInv, TakePacket
  PROVE  StationInv'
<1>1. /\ UNCHANGED <<firmware, role, chip, sound, result, next_sequence, air>>
      /\ doing = "read" /\ todo = <<>> /\ TypeInv
      /\ packet' = NoPacket /\ doing' = "idle" /\ todo' = <<>>
      /\ waiting' = (waiting /\ ~MatchesPing(packet))
  BY DEF TakePacket, Begin, boardVars, StationInv
<1>2. waiting' \in BOOLEAN
  BY <1>1, Zenon
<1>3. TypeInv'
  BY <1>1, <1>2 DEF TypeInv, Activities
<1> QED
  BY <1>1, <1>3, RoutineListens, SettleKeepsInv

LEMMA FinishedKeepsInv ==
  ASSUME StationInv, Finished
  PROVE  StationInv'
<1>1. /\ UNCHANGED <<firmware, role, chip, sound, result, next_sequence, waiting>>
      /\ doing \in {"reply", "tune", "scan"} /\ todo = <<>> /\ TypeInv
      /\ packet' = NoPacket /\ doing' = "idle" /\ todo' = <<>>
      /\ air' = [air EXCEPT !.raised = FALSE]
  BY DEF Finished, Begin, boardVars, StationInv
<1>2. doing = "reply" => Closing
  BY <1>1, NothingSent DEF Sending, Closing
<1>3. air' \in Airs
  BY <1>1 DEF TypeInv, Airs
<1>4. TypeInv'
  BY <1>1, <1>3 DEF TypeInv, Activities
<1> QED
  BY <1>1, <1>2, <1>4, RoutineListens, SettleKeepsInv

LEMMA ConsolePowerKeepsInv ==
  ASSUME StationInv, ConsolePower
  PROVE  StationInv'
<1>1. /\ UNCHANGED <<firmware, role, chip, sound, packet, result, next_sequence, waiting, air>>
      /\ doing = "idle" /\ TypeInv
      /\ \E l \in Level : doing' = "tune" /\ todo' = SetTxPower(l, chip.ce)
  BY DEF ConsolePower, Begin, boardVars, programVars, StationInv
<1>2. PICK l \in Level : doing' = "tune" /\ todo' = SetTxPower(l, chip.ce)
  BY <1>1
<1>3. TypeInv'
  BY <1>1, <1>2 DEF TypeInv, Activities
<1> QED
  BY <1>1, <1>2, <1>3, IdleIsAtRest, TuneKeepsInv

LEMMA ConsoleScanKeepsInv ==
  ASSUME StationInv, ConsoleScan
  PROVE  StationInv'
<1>1. /\ UNCHANGED <<firmware, role, chip, sound, packet, result, next_sequence, waiting, air>>
      /\ doing = "idle" /\ firmware = "V1" /\ TypeInv
      /\ doing' = "scan" /\ todo' = Scan \o StartListening(firmware, Own)
      /\ chip.reg.DYNPD = 0 /\ chip.reg.FEATURE = 0
  BY DEF ConsoleScan, Begin, boardVars, programVars, StationInv, ChipInv
<1>2. Listens /\ WiredInv
  BY <1>1, IdleIsAtRest
<1>3. TypeInv'
  BY <1>1 DEF TypeInv, Activities
<1>4. PlanOf' = ListenPlan("V1", Own, "scan")
  BY <1>1 DEF PlanOf, Own
<1>5. OnWay(todo', PlanOf') /\ Left' >= 7 /\ Left' \in Nat
  BY <1>1, <1>4, ScanOnWay, NoneLeft DEF Left
<1>6. ~Sending' /\ ~Closing'
  BY <1>1 DEF Sending, Closing
<1>7. PlaceInv'
  BY <1>1, <1>5, <1>6 DEF PlaceInv
<1>8. WiredInv'
  BY <1>1, <1>2 DEF WiredInv
<1>9. EarInv'
  <2>1. ~(Left' <= 5) /\ ~(Left' <= 3) /\ ~(Left' <= 1) /\ Left' # 0
    BY <1>5
  <2> QED
    BY <1>1, <1>2, <1>6, <2>1 DEF EarInv, Listens, Tuned, Own
<1> QED
  BY <1>1, <1>3, <1>7, <1>8, <1>9 DEF StationInv, ChipInv

LEMMA StationStep ==
  ASSUME StationInv, [Next]_stationVars
  PROVE  StationInv'
<1>1. CASE UNCHANGED stationVars
  <2>1. UNCHANGED <<firmware, role, chip, todo, doing, sound, packet, result, next_sequence, waiting, air>>
    BY <1>1 DEF stationVars, boardVars, programVars
  <2>2. Unchanging
    BY <1>1 DEF stationVars, Unchanging
  <2>3. chip' \in Chips /\ air' \in Airs /\ (chip'.sending => chip'.tx # <<>>)
    BY <2>1 DEF StationInv, TypeInv
  <2> QED
    BY <2>1, <2>2, <2>3, EnvironmentKeepsInv
<1>2. CASE ProgramStep
  <2>1. CASE PollSent \/ PollGivenUp \/ SendDeadline
    <3>1. \E r \in {"ok", "max_retries", "timeout"} : SendEnds(r)
      BY <2>1 DEF PollSent, PollGivenUp, SendDeadline
    <3> QED
      BY <3>1, SendEndsKeepsInv
  <2>2. CASE ~(PollSent \/ PollGivenUp \/ SendDeadline)
    BY <1>2, <2>2, ExchangeKeepsInv, BootedKeepsInv, StartedKeepsInv, PingSentKeepsInv,
       AwaitedKeepsInv, AnswerPingKeepsInv, TakePacketKeepsInv, FinishedKeepsInv
       DEF ProgramStep
  <2> QED
    BY <2>1, <2>2
<1>3. CASE \/ Receive \/ SendPing \/ CommandTimeout \/ ConsolePower \/ ConsoleScan
  BY <1>3, ReceiveKeepsInv, SendPingKeepsInv, CommandTimeoutKeepsInv, ConsolePowerKeepsInv,
     ConsoleScanKeepsInv
<1>4. CASE \E acknowledged \in BOOLEAN : SentHeard(acknowledged)
  BY <1>4, SentHeardKeepsInv
<1>5. CASE SentUnanswered \/ FarSends \/ StraySends \/ Acknowledged \/ PowerChange
  BY <1>5, SentUnansweredKeepsInv, FarSendsKeepsInv, StraySendsKeepsInv, AcknowledgedKeepsInv,
     PowerChangeKeepsInv
<1> QED
  BY <1>1, <1>2, <1>3, <1>4, <1>5 DEF Next

\* Wherever the program is in its driver's routines, the chip is set to what the
\* place calls for.
THEOREM StationKeepsPlace == Spec => []StationInv
<1>1. Init => StationInv
  BY InitStation
<1>2. StationInv /\ [Next]_stationVars => StationInv'
  BY StationStep
<1> QED
  BY <1>1, <1>2, PTL DEF Spec

\* RestsListening, for any FIFO depth, levels and channels: between its operations
\* a station listens on its own address and channel, whatever way the last one
\* ended (start_station_receiver(), V1 main.c:185-190).
THEOREM AlwaysRestsListening == Spec => []RestsListening
<1>1. StationInv => RestsListening
  <2> SUFFICES ASSUME StationInv, doing \in {"idle", "await"}
               PROVE  Listening(chip, firmware, Own)
    BY DEF RestsListening
  <2>1. WiredInv /\ EarInv
    BY DEF StationInv, ChipInv
  <2> QED
    BY <2>1 DEF Listening, WiredInv, EarInv, Tuned
<1> QED
  BY <1>1, StationKeepsPlace, PTL

LEMMA ConfiguredRegisters ==
  ASSUME NEW fw \in Firmware, NEW x \in ToSet(Configure(fw)),
         x[1] = "write", x[2] \notin {"CONFIG", "RF_CH", "RF_SETUP"}
  PROVE  x \in {Write("EN_AA", 1), Write("EN_RXADDR", 1), Write("SETUP_AW", 3),
                Write("SETUP_RETR", 47), Write("RX_PW_P0", PayloadSize(fw)),
                Write("DYNPD", 0), Write("FEATURE", 0)}
<1> DEFINE a == Configure(fw)
<1>1. /\ a[1] = CE(FALSE) /\ a[2] = Write("CONFIG", Down) /\ a[3] = Write("EN_AA", 1)
      /\ a[4] = Write("EN_RXADDR", 1) /\ a[5] = Write("SETUP_AW", 3)
      /\ a[6] = Write("SETUP_RETR", 47) /\ a[7] = Write("RF_CH", RF_CHANNEL)
      /\ a[8] = Write("RF_SETUP", 0) /\ a[9] = Write("RX_PW_P0", PayloadSize(fw))
      /\ a[10] = Write("DYNPD", 0) /\ a[11] = Write("FEATURE", 0) /\ a[12] = Clear(IRQ_MASK)
      /\ a[13] = FlushRx /\ a[14] = FlushTx /\ a[15] = Write("CONFIG", PTX) /\ Len(a) = 15
  BY DEF Configure
<1>2. PICK i \in 1 .. Len(a) : x = a[i]
  BY <1>1 DEF ToSet, Configure
<1> HIDE DEF a
<1>3. i \in 1 .. 15
  BY <1>1, <1>2
<1>4. i \notin {1, 12, 13, 14}
  <2>1. IRQ_MASK \in SUBSET IRQ_MASK
    OBVIOUS
  <2>2. Clear(IRQ_MASK) \in Clears
    BY <2>1 DEF Clears
  <2> QED
    BY <1>1, <1>2, <2>2, Names, OtherNames
<1>5. i \notin {2, 7, 8, 15}
  <2>1. i = 2 \/ i = 15 => x[2] = "CONFIG"
    BY <1>1, <1>2, WriteName
  <2>2. i = 7 => x[2] = "RF_CH"
    BY <1>1, <1>2, WriteName
  <2>3. i = 8 => x[2] = "RF_SETUP"
    BY <1>1, <1>2, WriteName
  <2> QED
    BY <2>1, <2>2, <2>3
<1>6. i \in {3, 4, 5, 6, 9, 10, 11}
  BY <1>3, <1>4, <1>5
<1> QED
  BY <1>1, <1>2, <1>6

\* FoundIsConfigured, wherever in nrf24_init() the supply came, went or came back
\* (V1 nrf24.c:149-190): the comparison that fails when it went last is
\* that of RX_PW_P0, which no reset leaves as it should be.
THEOREM FoundIsAlwaysConfigured == Spec => []FoundIsConfigured
<1>1. StationInv => FoundIsConfigured
  <2> SUFFICES ASSUME StationInv, firmware = "V1", doing \notin {"boot", "dead"}
               PROVE  /\ chip.on
                      /\ \A x \in ToSet(Configure(firmware)) :
                           x[1] = "write" /\ x[2] \notin {"CONFIG", "RF_CH", "RF_SETUP"} =>
                             chip.reg[x[2]] = x[3]
    BY DEF FoundIsConfigured
  <2>1. WiredInv /\ chip.reg.DYNPD = 0 /\ chip.reg.FEATURE = 0
    BY DEF StationInv, ChipInv
  <2>2. ASSUME NEW x \in ToSet(Configure(firmware)), x[1] = "write",
               x[2] \notin {"CONFIG", "RF_CH", "RF_SETUP"}
        PROVE  chip.reg[x[2]] = x[3]
    <3>1. firmware \in Firmware
      BY DEF Firmware
    <3>2. x \in {Write("EN_AA", 1), Write("EN_RXADDR", 1), Write("SETUP_AW", 3),
                 Write("SETUP_RETR", 47), Write("RX_PW_P0", PayloadSize(firmware)),
                 Write("DYNPD", 0), Write("FEATURE", 0)}
      BY <2>2, <3>1, ConfiguredRegisters
    <3> QED
      BY <2>1, <3>2 DEF WiredInv, Write
  <2> QED
    BY <2>1, <2>2 DEF WiredInv
<1> QED
  BY <1>1, StationKeepsPlace, PTL

-----------------------------------------------------------------------------
\* The packets that were heard

\* Only an initialisation and a scan flush the receive FIFO.
LEMMA ReceiverNotFlushed ==
  ASSUME StationInv, Exchange, doing \notin {"boot", "scan"}
  PROVE  Head(todo) # FlushRx
<1> DEFINE x == Head(todo)
           j == Left - 1
<1>1. /\ j \in Nat /\ x \in PlanOf[j] /\ firmware \in Firmware
      /\ result \in {"none", "ok", "max_retries", "timeout"}
  BY ExchangeKeepsPlace DEF StationInv, TypeInv
<1> HIDE DEF x, j
<1>2. /\ FlushRx[1] = "flush_rx" /\ FlushRx \notin Clears /\ FlushRx \notin Payloads
      /\ FlushRx # CE(TRUE) /\ FlushRx # CE(FALSE) /\ FlushRx # FlushTx
      /\ FlushRx # Guard /\ FlushRx # Poll /\ \A q, v : FlushRx # Write(q, v)
  <2>1. FlushRx[1] = "flush_rx"
    BY Names
  <2>2. FlushRx \notin Clears /\ FlushRx \notin Payloads
    BY <2>1, OtherNames
  <2>3. \A q, v : FlushRx # Write(q, v)
    BY <2>1, WriteName
  <2>4. /\ FlushRx # CE(TRUE) /\ FlushRx # CE(FALSE) /\ FlushRx # FlushTx
        /\ FlushRx # Guard /\ FlushRx # Poll
    BY Names
  <2> QED
    BY <2>1, <2>2, <2>3, <2>4
<1>3. FlushRx \notin Powers
  BY <1>2 DEF Powers
<1>4. ASSUME NEW r, r # "scan", x \in ListenPlan(firmware, Own, r)[j]
      PROVE  x # FlushRx
  <2>1. CASE j \in {0, 1, 2, 3, 4}
    BY <1>1, <1>2, <1>4, <2>1, ListenTable
  <2>2. CASE j > 4
    BY <1>1, <1>2, <1>4, <2>2, AheadTable
  <2>3. j \in {0, 1, 2, 3, 4} \/ j > 4
    BY <1>1
  <2> QED
    BY <2>1, <2>2, <2>3
<1>5. x \in TunePlan[j] \/ x \in ClearPlan[j] => x # FlushRx
  <2>1. Clear({"RX_DR"}) \in Clears
    BY DEF Clears, IRQ_MASK
  <2> QED
    BY <1>1, <1>2, <1>3, <2>1, TuneTable, ClearTable
<1>6. x \in SendPlan(Far, Sequence)[j] => x # FlushRx
  <2>1. SUFFICES ASSUME x \in SendPlan(Far, Sequence)[j]
                 PROVE  x # FlushRx
    OBVIOUS
  <2>2. Clear(IRQ_MASK) \in Clears /\ Payload(Sequence) \in Payloads
    <3>1. IRQ_MASK \in SUBSET IRQ_MASK
      OBVIOUS
    <3>2. Sequence \in Nat
      BY DEF StationInv, TypeInv, Sequence, Packets, NoPacket, Packet
    <3> QED
      BY <3>1, <3>2 DEF Clears, Payloads
  <2>3. j <= 13
    BY <1>1, <2>1, SendTable
  <2>4. j \in {0, 1, 2, 3, 4, 5, 6, 7, 8, 9, 10, 11, 12, 13}
    BY <1>1, <2>3
  <2>5. \/ x \in {CE(TRUE), CE(FALSE), Poll, Guard, FlushTx, Payload(Sequence), Clear(IRQ_MASK)}
        \/ x \in {Write("RX_ADDR_P0", Far), Write("TX_ADDR", Far), Write("CONFIG", PTX)}
        \/ x \in Powers
    BY <1>1, <2>1, <2>4, SendTable
  <2> QED
    BY <1>2, <1>3, <2>2, <2>5
<1>7. PlanOf # NoPlan
  BY <1>1 DEF NoPlan
<1>8. \/ x \in ListenPlan(firmware, Own, "boot")[j] \/ x \in ListenPlan(firmware, Own, result)[j]
      \/ x \in TunePlan[j] \/ x \in ClearPlan[j] \/ x \in SendPlan(Far, Sequence)[j]
  BY <1>1, <1>7 DEF PlanOf
<1> QED
  BY <1>1, <1>4, <1>5, <1>6, <1>8 DEF x

\* A step that leaves the packets alone.
LEMMA HeardFrame ==
  ASSUME HeardInv, role' = role, firmware' = firmware,
         doing # "boot", doing' # "boot",
         chip'.rx = chip.rx, packet' \in {packet, NoPacket},
         air'.heard = air.heard, air'.read = air.read,
         air.far_sent \subseteq air'.far_sent, air.scanned \subseteq air'.scanned,
         completed' \subseteq completed \cup air'.far_sent
  PROVE  HeardInv'
<1>1. NothingDropped'
  BY DEF HeardInv, NothingDropped
<1>2. CompletedWasAnswered'
  BY DEF HeardInv, CompletedWasAnswered
<1> QED
  BY <1>1, <1>2 DEF HeardInv, Own

\* The same, while the radio is initialised.
LEMMA HeardBooting ==
  ASSUME HeardInv, role' = role, firmware' = firmware,
         doing = "boot", doing' = "boot",
         chip'.rx # <<>> => chip'.on /\ Left' > CheckSize(firmware) + 2,
         packet' = packet, air'.heard = air.heard, air'.read = air.read,
         air.far_sent \subseteq air'.far_sent, completed' = completed
  PROVE  HeardInv'
<1>1. NothingDropped'
  BY DEF HeardInv, NothingDropped
<1>2. CompletedWasAnswered'
  BY DEF HeardInv, CompletedWasAnswered
<1> QED
  BY <1>1, <1>2 DEF HeardInv, Own

LEMMA ExchangeKeepsHeard ==
  ASSUME StationInv, HeardInv, Exchange
  PROVE  HeardInv'
<1>1. /\ UNCHANGED <<firmware, role, doing, packet, completed>>
      /\ chip' = OnChip(chip, Head(todo)) /\ chip \in Chips /\ air \in Airs /\ firmware \in Firmware
      /\ air' = IF doing = "scan" /\ Head(todo) = FlushRx
                  THEN [air EXCEPT !.scanned = @ \cup ToSet(chip.rx)] ELSE air
  BY DEF Exchange, boardVars, StationInv, TypeInv
<1>2. Head(todo) # FlushRx => chip'.rx = chip.rx
  BY <1>1, ExchangeKeepsPlace, Frame
<1>3. CASE doing = "boot"
  <2> DEFINE x == Head(todo)
             j == Left - 1
  <2>1. /\ j \in Nat /\ Left' = j /\ Left = j + 1 /\ x \in BootPlan(firmware)[j]
        /\ (chip'.on <=> chip.on)
    BY <1>1, <1>3, ExchangeKeepsPlace, Frame DEF PlanOf
  <2>2. chip.rx # <<>> => chip.on /\ Left > CheckSize(firmware) + 2
    BY <1>3 DEF HeardInv
  <2>3. x = FlushRx => chip'.rx = IF chip.on THEN <<>> ELSE chip.rx
    BY <1>1, FlushRxEffect
  <2>4. air' = air
    BY <1>1, <1>3
  <2>5. CheckSize(firmware) \in Nat
    BY DEF CheckSize
  <2>6. j = CheckSize(firmware) + 2 => x = FlushRx
    <3> HIDE DEF x, j
    <3> QED
      BY <1>1, <2>1, <2>5, BootTable
  <2>7. chip'.rx # <<>> => chip'.on /\ Left' > CheckSize(firmware) + 2
    <3> HIDE DEF x, j
    <3>1. chip'.rx # <<>> => chip.rx # <<>> /\ x # FlushRx
      BY <1>2, <2>2, <2>3 DEF x
    <3> QED
      BY <2>1, <2>2, <2>5, <2>6, <3>1
  <2> QED
    BY <1>1, <1>3, <2>4, <2>7, HeardBooting
<1>4. CASE doing = "scan" /\ Head(todo) = FlushRx
  <2>1. /\ air'.heard = air.heard /\ air'.read = air.read /\ air'.far_sent = air.far_sent
        /\ air'.scanned = air.scanned \cup ToSet(chip.rx)
    BY <1>1, <1>4 DEF Airs
  <2>2. chip'.rx = <<>> \/ chip'.rx = chip.rx
    BY <1>1, <1>4, FlushRxEffect
  <2>3. ToSet(chip'.rx) \subseteq ToSet(chip.rx)
    BY <2>2 DEF ToSet
  <2>4. NothingDropped'
    BY <2>1 DEF HeardInv, NothingDropped
  <2>5. CompletedWasAnswered'
    BY <1>1, <2>1 DEF HeardInv, CompletedWasAnswered
  <2> QED
    BY <1>1, <1>4, <2>1, <2>3, <2>4, <2>5 DEF HeardInv, Own
<1>5. CASE doing # "boot" /\ ~(doing = "scan" /\ Head(todo) = FlushRx)
  <2>1. chip'.rx = chip.rx /\ air' = air
    BY <1>1, <1>2, <1>5, ReceiverNotFlushed
  <2> QED
    BY <1>1, <1>5, <2>1, HeardFrame
<1> QED
  BY <1>3, <1>4, <1>5

LEMMA AppendSet ==
  ASSUME NEW S, NEW s \in Seq(S), NEW e
  PROVE  ToSet(Append(s, e)) = ToSet(s) \cup {e}
<1>1. /\ Len(Append(s, e)) = Len(s) + 1 /\ Len(s) \in Nat
      /\ \A i \in 1 .. Len(s) : Append(s, e)[i] = s[i]
      /\ Append(s, e)[Len(s) + 1] = e
      /\ DOMAIN Append(s, e) = 1 .. Len(s) + 1 /\ DOMAIN s = 1 .. Len(s)
  <2>1. s \in Seq(S \cup {e}) /\ e \in S \cup {e}
    OBVIOUS
  <2> QED
    BY <2>1, AppendProperties
<1> DEFINE t == Append(s, e)
<1>2. t = Append(s, e)
  OBVIOUS
<1> HIDE DEF t
<1>3. ToSet(s) \cup {e} \subseteq ToSet(t)
  <2>1. ASSUME NEW i \in 1 .. Len(s)
        PROVE  s[i] \in ToSet(t)
    <3>1. i \in DOMAIN t /\ t[i] = s[i]
      BY <1>1, <1>2
    <3> QED
      BY <3>1 DEF ToSet
  <2>2. e \in ToSet(t)
    <3>1. Len(s) + 1 \in DOMAIN t /\ t[Len(s) + 1] = e
      BY <1>1, <1>2
    <3> QED
      BY <3>1 DEF ToSet
  <2> QED
    BY <1>1, <2>1, <2>2 DEF ToSet
<1>4. ASSUME NEW y \in ToSet(t)
      PROVE  y \in ToSet(s) \cup {e}
  <2>1. PICK i \in 1 .. Len(s) + 1 : y = t[i]
    BY <1>1, <1>2 DEF ToSet
  <2>2. CASE i = Len(s) + 1
    BY <1>1, <1>2, <2>1, <2>2
  <2>3. CASE i # Len(s) + 1
    <3>1. i \in 1 .. Len(s)
      BY <1>1, <2>1, <2>3
    <3>2. s[i] \in ToSet(s)
      BY <1>1, <3>1 DEF ToSet
    <3> QED
      BY <1>1, <1>2, <2>1, <3>1, <3>2
  <2> QED
    BY <2>2, <2>3
<1> QED
  BY <1>2, <1>3, <1>4

LEMMA HeadTailSet ==
  ASSUME NEW S, NEW s \in Seq(S), s # <<>>
  PROVE  ToSet(s) = {Head(s)} \cup ToSet(Tail(s))
<1>1. /\ Len(s) \in Nat \ {0} /\ Len(Tail(s)) = Len(s) - 1 /\ Head(s) = s[1]
      /\ \A i \in 1 .. Len(s) - 1 : Tail(s)[i] = s[i + 1]
      /\ DOMAIN s = 1 .. Len(s) /\ DOMAIN Tail(s) = 1 .. Len(s) - 1
  BY HeadTailProperties, EmptySeq
<1> DEFINE t == Tail(s)
<1>2. t = Tail(s)
  OBVIOUS
<1> HIDE DEF t
<1>3. {Head(s)} \cup ToSet(t) \subseteq ToSet(s)
  <2>1. ASSUME NEW i \in DOMAIN t
        PROVE  t[i] \in ToSet(s)
    <3>1. i + 1 \in DOMAIN s /\ t[i] = s[i + 1]
      BY <1>1, <1>2
    <3> QED
      BY <3>1 DEF ToSet
  <2>2. Head(s) \in ToSet(s)
    <3>1. 1 \in DOMAIN s
      BY <1>1
    <3> QED
      BY <1>1, <3>1 DEF ToSet
  <2> QED
    BY <2>1, <2>2 DEF ToSet
<1>4. ASSUME NEW y \in ToSet(s)
      PROVE  y \in {Head(s)} \cup ToSet(t)
  <2>1. PICK i \in 1 .. Len(s) : y = s[i]
    BY <1>1 DEF ToSet
  <2>2. CASE i # 1
    <3>1. i - 1 \in 1 .. Len(s) - 1 /\ i = (i - 1) + 1
      BY <1>1, <2>1, <2>2
    <3>2. t[i - 1] = s[i]
      BY <1>1, <1>2, <3>1
    <3>3. t[i - 1] \in ToSet(t)
      BY <1>1, <1>2, <3>1 DEF ToSet
    <3> QED
      BY <2>1, <3>2, <3>3
  <2> QED
    BY <1>1, <2>1, <2>2
<1> QED
  BY <1>2, <1>3, <1>4

LEMMA InitHeard == Init => HeardInv
<1> SUFFICES ASSUME Init
             PROVE  HeardInv
  OBVIOUS
<1>1. /\ firmware \in Firmware /\ doing = "boot" /\ packet = NoPacket /\ air = NewAir
      /\ completed = {} /\ todo = Configure(firmware) \o CheckConfig(firmware)
  BY DEF Init
<1>2. Left = 15 + CheckSize(firmware) /\ CheckSize(firmware) \in Nat
  BY <1>1, BootOnWay DEF Left, CheckSize
<1>3. Left > CheckSize(firmware) + 2
  BY <1>2
<1>4. chip.rx # <<>> => chip.on
  <2>1. ResetChip(FALSE).rx = <<>> /\ [ResetChip(FALSE) EXCEPT !.on = FALSE].rx = <<>>
    BY DEF ResetChip
  <2>2. LeftOver.on
    BY DEF LeftOver, ResetChip
  <2> QED
    BY <2>1, <2>2 DEF Init
<1>5. /\ air.heard = {} /\ air.read = {}
  BY <1>1 DEF NewAir
<1> QED
  BY <1>1, <1>3, <1>4, <1>5 DEF HeardInv, NothingDropped, CompletedWasAnswered

LEMMA OnAirKeepsHeard ==
  ASSUME StationInv, HeardInv, Unchanging, UNCHANGED completed, NEW p \in Packets, NEW e \in Airs, OnAir(p, e),
         e.heard = air.heard, e.read = air.read, e.scanned = air.scanned,
         air.far_sent \subseteq e.far_sent, p.kind # "bad" => p.seq \in e.far_sent
  PROVE  HeardInv'
<1>1. UNCHANGED <<firmware, role, todo, doing, packet>>
  BY DEF Unchanging, boardVars, programVars
<1>2. CASE chip' = chip /\ air' = e
  <2>1. CASE doing = "boot"
    <3>1. Left' = Left
      BY <1>1 DEF Left
    <3>2. chip.rx # <<>> => chip.on /\ Left > CheckSize(firmware) + 2
      BY <2>1 DEF HeardInv
    <3>3. chip'.rx # <<>> => chip'.on /\ Left' > CheckSize(firmware) + 2
      BY <1>2, <3>1, <3>2
    <3> QED
      BY <1>1, <1>2, <2>1, <3>3, HeardBooting
  <2>2. CASE doing # "boot"
    BY <1>1, <1>2, <2>2, HeardFrame
  <2> QED
    BY <2>1, <2>2
<1>3. CASE CanHear(chip, firmware, p) /\ chip' = Heard(chip, p) /\ air' = [e EXCEPT !.heard = @ \cup {p}]
  <2>1. chip.ce /\ chip.reg.CONFIG = PRX /\ chip.reg.RX_ADDR_P0 = p.to
    BY <1>3 DEF CanHear, Listening
  <2>2. doing # "boot" /\ p.to = Own
    BY <2>1 DEF StationInv, ChipInv, CheckedInv, EarInv
  <2>3. /\ air'.heard = air.heard \cup {p} /\ air'.read = air.read /\ air'.scanned = air.scanned
        /\ air'.far_sent = e.far_sent
    BY <1>3 DEF Airs
  <2>4. chip'.rx = Append(chip.rx, p)
    BY <1>3 DEF Heard, StationInv, TypeInv, Chips
  <2>5. ToSet(chip'.rx) = ToSet(chip.rx) \cup {p}
    BY <2>4, AppendSet DEF StationInv, TypeInv, Chips
  <2>6. NothingDropped'
    BY <2>3, <2>5 DEF HeardInv, NothingDropped
  <2>7. CompletedWasAnswered'
    BY <1>1, <2>3 DEF HeardInv, CompletedWasAnswered
  <2>8. \A q \in air'.heard : q.to = Own' /\ (q.kind # "bad" => q.seq \in air'.far_sent)
    BY <1>1, <2>2, <2>3 DEF HeardInv, Own
  <2> QED
    BY <1>1, <2>2, <2>3, <2>5, <2>6, <2>7, <2>8 DEF HeardInv
<1> QED
  BY <1>2, <1>3 DEF OnAir

LEMMA FarSendsKeepsHeard ==
  ASSUME StationInv, HeardInv, FarSends
  PROVE  HeardInv'
<1>1. air \in Airs /\ Own \in {"base", "remote"}
  BY DEF StationInv, TypeInv, Own
<1>2. PICK s \in IF role = "base" THEN air.far_got \ air.far_sent
                  ELSE {Cardinality(air.far_sent) + 1} \cap (1 .. MaxSequence) :
        OnAir(Packet(Own, IF role = "base" THEN "reply" ELSE "ping", s),
              [air EXCEPT !.far_sent = @ \cup {s}])
  BY DEF FarSends
<1>3. s \in Nat
  <2>1. air.far_got \subseteq Nat
    BY <1>1 DEF Airs
  <2>2. 1 .. MaxSequence \subseteq Nat
    OBVIOUS
  <2> QED
    BY <2>1, <2>2
<1> DEFINE p == Packet(Own, IF role = "base" THEN "reply" ELSE "ping", s)
           e == [air EXCEPT !.far_sent = @ \cup {s}]
<1>4. p \in Packets /\ p.seq = s
  BY <1>1, <1>3 DEF Packet, Packets
<1>5. /\ e \in Airs /\ e.heard = air.heard /\ e.read = air.read /\ e.scanned = air.scanned
      /\ e.far_sent = air.far_sent \cup {s}
  BY <1>1, <1>3 DEF Airs
<1>6. OnAir(p, e) /\ Unchanging /\ UNCHANGED completed
  BY <1>2 DEF FarSends, Unchanging, programVars
<1> HIDE DEF p, e
<1> QED
  BY <1>4, <1>5, <1>6, OnAirKeepsHeard

LEMMA StraySendsKeepsHeard ==
  ASSUME StationInv, HeardInv, StraySends
  PROVE  HeardInv'
<1>1. air \in Airs /\ Own \in {"base", "remote"} /\ Far \in {"base", "remote"}
  BY DEF StationInv, TypeInv, Own, Far
<1>2. PICK to \in {Own, Far} : OnAir(Packet(to, "bad", 0),
                                   [air EXCEPT !.strays = IF doing = "await" THEN @ ELSE @ + 1])
  BY DEF StraySends
<1> DEFINE p == Packet(to, "bad", 0)
           e == [air EXCEPT !.strays = IF doing = "await" THEN @ ELSE @ + 1]
<1>3. p \in Packets /\ p.kind = "bad"
  BY <1>1 DEF Packet, Packets
<1>4. /\ e \in Airs /\ e.heard = air.heard /\ e.read = air.read /\ e.scanned = air.scanned
      /\ e.far_sent = air.far_sent
  BY <1>1 DEF Airs
<1>5. OnAir(p, e) /\ Unchanging /\ UNCHANGED completed
  BY <1>2 DEF StraySends, Unchanging, programVars
<1> HIDE DEF p, e
<1> QED
  BY <1>3, <1>4, <1>5, OnAirKeepsHeard

LEMMA ReceiveKeepsHeard ==
  ASSUME StationInv, HeardInv, Receive
  PROVE  HeardInv'
<1>1. /\ UNCHANGED <<firmware, role, completed>>
      /\ doing \in {"await", "idle"} /\ doing' \in {"await", "read"}
      /\ chip.rx # <<>> /\ chip \in Chips /\ air \in Airs
      /\ packet' = Head(chip.rx) /\ chip' = [chip EXCEPT !.rx = Tail(@)]
      /\ air' = [air EXCEPT !.read = @ \cup {packet'}]
  BY DEF Receive, CanReceive, Begin, boardVars, StationInv, TypeInv
<1>2. /\ air'.heard = air.heard /\ air'.read = air.read \cup {packet'}
      /\ air'.scanned = air.scanned /\ air'.far_sent = air.far_sent
  BY <1>1 DEF Airs
<1>3. chip'.rx = Tail(chip.rx) /\ chip.rx \in Seq(Packets)
  BY <1>1 DEF Chips
<1>4. ToSet(chip.rx) = {packet'} \cup ToSet(chip'.rx)
  BY <1>1, <1>3, HeadTailSet
<1>5. ToSet(chip.rx) \subseteq air.heard
  BY <1>1 DEF HeardInv
<1>6. NothingDropped'
  BY <1>2, <1>4 DEF HeardInv, NothingDropped
<1>7. CompletedWasAnswered'
  BY <1>1, <1>2 DEF HeardInv, CompletedWasAnswered
<1> QED
  BY <1>1, <1>2, <1>4, <1>5, <1>6, <1>7 DEF HeardInv, Own

\* A reply to the ping that waits was sent by its remote.
LEMMA CompleteAnswered ==
  ASSUME HeardInv, NEW awaited \in BOOLEAN, Complete(awaited)
  PROVE  completed' \subseteq completed \cup air.far_sent
<1>1. MatchesPing(packet) => next_sequence \in air.far_sent
  <2>1. SUFFICES ASSUME MatchesPing(packet)
                 PROVE  next_sequence \in air.far_sent
    OBVIOUS
  <2>2. packet.kind = "reply" /\ packet.seq = next_sequence
    BY <2>1 DEF MatchesPing
  <2>3. packet # NoPacket
    BY <2>2 DEF NoPacket, Packet
  <2>4. packet \in air.heard
    BY <2>3 DEF HeardInv
  <2> QED
    BY <2>2, <2>4 DEF HeardInv
<1> QED
  BY <1>1 DEF Complete

LEMMA ProgramKeepsHeard ==
  ASSUME StationInv, HeardInv,
         \/ Started \/ PollSent \/ PollGivenUp \/ SendDeadline \/ PingSent
         \/ Awaited \/ ReplyDeadline \/ AnswerPing \/ TakePacket \/ Finished
         \/ SendPing \/ CommandTimeout \/ ConsolePower \/ ConsoleScan
  PROVE  HeardInv'
<1>1. air \in Airs /\ waiting \in BOOLEAN
  BY DEF StationInv, TypeInv
<1>2. CASE \/ Started \/ PingSent \/ ReplyDeadline \/ SendPing \/ CommandTimeout
           \/ ConsolePower \/ ConsoleScan
  <2>1. /\ UNCHANGED <<firmware, role, chip, packet, completed, air>>
        /\ doing # "boot" /\ doing' # "boot"
    BY <1>2 DEF Started, PingSent, ReplyDeadline, Deadline, SendPing, CommandTimeout,
         ConsolePower, ConsoleScan, Begin, boardVars, programVars
  <2> QED
    BY <2>1, HeardFrame
<1>3. CASE PollSent \/ PollGivenUp \/ SendDeadline
  <2>1. PICK r \in {"ok", "max_retries", "timeout"} : SendEnds(r)
    BY <1>3 DEF PollSent, PollGivenUp, SendDeadline
  <2>2. UNCHANGED <<firmware, role, chip, doing, packet, completed, air>>
    BY <2>1 DEF SendEnds, boardVars
  <2>3. doing # "boot"
    BY <2>1, SendEndsKeepsInv DEF Sending
  <2> QED
    BY <2>2, <2>3, HeardFrame
<1>4. CASE Awaited
  <2>1. /\ UNCHANGED <<firmware, role, chip, air>> /\ packet' = NoPacket
        /\ doing = "await" /\ doing' # "boot" /\ Complete(TRUE)
    BY <1>4 DEF Awaited, Begin, boardVars
  <2>2. completed' \subseteq completed \cup air.far_sent
    BY <2>1, CompleteAnswered
  <2> QED
    BY <2>1, <2>2, HeardFrame
<1>5. CASE TakePacket
  <2>1. /\ UNCHANGED <<firmware, role, chip, air>> /\ packet' = NoPacket
        /\ doing = "read" /\ doing' # "boot" /\ Complete(waiting)
    BY <1>5 DEF TakePacket, Begin, boardVars
  <2>2. completed' \subseteq completed \cup air.far_sent
    BY <1>1, <2>1, CompleteAnswered
  <2> QED
    BY <2>1, <2>2, HeardFrame
<1>6. CASE AnswerPing
  <2>1. /\ UNCHANGED <<firmware, role, chip, packet, completed>>
        /\ doing = "read" /\ doing' = "reply" /\ air' \in {air, [air EXCEPT !.raised = TRUE]}
    BY <1>6 DEF AnswerPing, Begin, boardVars
  <2>2. /\ air'.heard = air.heard /\ air'.read = air.read
        /\ air'.far_sent = air.far_sent /\ air'.scanned = air.scanned
    BY <1>1, <2>1 DEF Airs
  <2> QED
    BY <2>1, <2>2, HeardFrame
<1>7. CASE Finished
  <2>1. /\ UNCHANGED <<firmware, role, chip, completed>> /\ packet' = NoPacket
        /\ doing # "boot" /\ doing' = "idle" /\ air' = [air EXCEPT !.raised = FALSE]
    BY <1>7 DEF Finished, Begin, boardVars
  <2>2. /\ air'.heard = air.heard /\ air'.read = air.read
        /\ air'.far_sent = air.far_sent /\ air'.scanned = air.scanned
    BY <1>1, <2>1 DEF Airs
  <2> QED
    BY <2>1, <2>2, HeardFrame
<1> QED
  BY <1>2, <1>3, <1>4, <1>5, <1>6, <1>7

LEMMA BootedKeepsHeard ==
  ASSUME StationInv, HeardInv, Booted
  PROVE  HeardInv'
<1>1. /\ UNCHANGED <<firmware, role, chip, packet, completed, air>>
      /\ doing = "boot" /\ todo = <<>> /\ doing' \in {"start", "dead"}
  BY DEF Booted, Begin, boardVars, programVars
<1>2. Left = 0
  BY <1>1, NoneLeft DEF Left
<1>3. air.heard = {} /\ chip.rx = <<>>
  <2>1. CheckSize(firmware) \in Nat
    BY DEF CheckSize
  <2> QED
    BY <1>1, <1>2, <2>1 DEF HeardInv
<1>4. NothingDropped'
  BY <1>1 DEF HeardInv, NothingDropped
<1>5. CompletedWasAnswered'
  BY <1>1 DEF HeardInv, CompletedWasAnswered
<1>6. ToSet(chip'.rx) = {}
  BY <1>1, <1>3, EmptySeq DEF ToSet
<1> QED
  BY <1>1, <1>4, <1>5, <1>6 DEF HeardInv, Own

LEMMA EnvironmentKeepsHeard ==
  ASSUME StationInv, HeardInv,
         \/ \E acknowledged \in BOOLEAN : SentHeard(acknowledged)
         \/ SentUnanswered \/ Acknowledged \/ PowerChange \/ UNCHANGED stationVars
  PROVE  HeardInv'
<1>1. /\ chip \in Chips /\ air \in Airs
  BY DEF StationInv, TypeInv
<1>2. UNCHANGED <<firmware, role, todo, doing, packet, completed>>
  BY DEF SentHeard, SentUnanswered, Acknowledged, PowerChange, Unchanging, stationVars, boardVars, programVars
<1>3. /\ air'.heard = air.heard /\ air'.read = air.read
      /\ air'.far_sent = air.far_sent /\ air'.scanned = air.scanned
  BY <1>1 DEF SentHeard, SentUnanswered, Acknowledged, PowerChange, stationVars, Airs
<1>4. \/ chip'.rx = chip.rx /\ (chip'.on <=> chip.on)
      \/ doing = "boot" /\ chip'.rx = <<>>
  <2>1. CASE PowerChange
    <3>1. chip'.rx = <<>>
      BY <2>1, <1>1 DEF PowerChange, ResetChip
    <3> QED
      BY <2>1, <3>1 DEF PowerChange
  <2>2. CASE ~PowerChange
    BY <1>1, <2>2 DEF SentHeard, SentUnanswered, Acknowledged, stationVars, Chips, Acked, Unanswered
  <2> QED
    BY <2>1, <2>2
<1>5. CASE doing = "boot"
  <2>1. Left' = Left
    BY <1>2 DEF Left
  <2>2. chip.rx # <<>> => chip.on /\ Left > CheckSize(firmware) + 2
    BY <1>5 DEF HeardInv
  <2>3. chip'.rx # <<>> => chip'.on /\ Left' > CheckSize(firmware) + 2
    BY <1>4, <2>1, <2>2
  <2> QED
    BY <1>2, <1>3, <1>5, <2>3, HeardBooting
<1>6. CASE doing # "boot"
  BY <1>2, <1>3, <1>4, <1>6, HeardFrame
<1> QED
  BY <1>5, <1>6

LEMMA HeardStep ==
  ASSUME StationInv, HeardInv, [Next]_stationVars
  PROVE  HeardInv'
<1>1. CASE Exchange
  BY <1>1, ExchangeKeepsHeard
<1>2. CASE Booted
  BY <1>2, BootedKeepsHeard
<1>3. CASE \/ Started \/ PollSent \/ PollGivenUp \/ SendDeadline \/ PingSent
           \/ Awaited \/ ReplyDeadline \/ AnswerPing \/ TakePacket \/ Finished
           \/ SendPing \/ CommandTimeout \/ ConsolePower \/ ConsoleScan
  BY <1>3, ProgramKeepsHeard
<1>4. CASE Receive
  BY <1>4, ReceiveKeepsHeard
<1>5. CASE FarSends
  BY <1>5, FarSendsKeepsHeard
<1>6. CASE StraySends
  BY <1>6, StraySendsKeepsHeard
<1>7. CASE \/ \E acknowledged \in BOOLEAN : SentHeard(acknowledged)
           \/ SentUnanswered \/ Acknowledged \/ PowerChange \/ UNCHANGED stationVars
  BY <1>7, EnvironmentKeepsHeard
<1> QED
  BY <1>1, <1>2, <1>3, <1>4, <1>5, <1>6, <1>7 DEF Next, ProgramStep

\* What was heard is for the station itself and is read, waits or was lost to a
\* scan, at every place of the program.
THEOREM StationKeepsPackets == Spec => []HeardInv
<1>1. Init => HeardInv
  BY InitHeard
<1>2. StationInv /\ HeardInv /\ [Next]_stationVars => HeardInv'
  BY HeardStep
<1> QED
  BY <1>1, <1>2, StationKeepsPlace, PTL DEF Spec

\* OwnPacketsOnly, for any FIFO depth and any packets: while RX_ADDR_P0 holds the
\* address of a send's destination the chip does not listen, and what waits in the
\* FIFO came in on the station's own address (nrf24_start_listening() and
\* nrf24_receive(), V1 nrf24.c:219-231 and 286-296, BasicRF nrf24.c:168-184 and
\* 231-240).
THEOREM OnlyOwnPacketsAreRead == Spec => []OwnPacketsOnly
<1>1. HeardInv => OwnPacketsOnly
  BY DEF HeardInv, OwnPacketsOnly
<1> QED
  BY <1>1, StationKeepsPackets, PTL

\* NothingDropped, for any FIFO depth: sends, power changes and StartListening
\* leave the receive FIFO alone, and an initialisation empties it before anything
\* was heard (V1 nrf24.c:149-175 and 191-284).
THEOREM NothingIsDropped == Spec => []NothingDropped
<1>1. HeardInv => NothingDropped
  BY DEF HeardInv
<1> QED
  BY <1>1, StationKeepsPackets, PTL

\* CompletedWasAnswered: a base that waits for a reply takes one to its last ping
\* only, and there is such a reply only if the remote sent it (V1 main.c:332-350,
\* BasicRF main.c:183-203).
THEOREM OnlyAnsweredPingsComplete == Spec => []CompletedWasAnswered
<1>1. HeardInv => CompletedWasAnswered
  BY DEF HeardInv
<1> QED
  BY <1>1, StationKeepsPackets, PTL

-----------------------------------------------------------------------------
\* The packets that were sent

LEMMA StartEffect ==
  ASSUME NEW c \in Chips, NEW x \in Exchanges, NEW d, d = OnChip(c, x), d.sending, ~c.sending
  PROVE  x = CE(TRUE) /\ c.reg.CONFIG = PTX
<1>1. CASE x \in PlainOnes
  <2>1. CASE x = CE(TRUE) \/ x = CE(FALSE)
    <3>1. PICK h \in BOOLEAN : x = CE(h)
      BY <2>1
    <3>2. d = OnChip(c, CE(h))
      BY <3>1
    <3>3. h /\ c.reg.CONFIG = PTX
      BY <3>2, CeEffect
    <3> QED
      BY <3>1, <3>3
  <2>2. CASE x = FlushRx
    BY <2>2, FlushRxEffect
  <2>3. CASE x = FlushTx
    BY <2>3, FlushTxEffect
  <2>4. CASE x = Guard \/ x = Poll
    BY <2>4, NoEffect DEF Guard, Poll
  <2> QED
    BY <1>1, <2>1, <2>2, <2>3, <2>4 DEF PlainOnes
<1>2. CASE x \in Writes
  <2>1. PICK r \in Registers, v \in Values : x = Write(r, v)
    BY <1>2 DEF Writes
  <2>2. CASE c.on
    <3>1. d = OnChip(c, Write(r, v))
      BY <2>1
    <3> QED
      BY <2>2, <3>1, WriteEffect
  <2>3. CASE ~c.on
    BY <2>1, <2>3, OffEffect DEF Write
  <2> QED
    BY <2>2, <2>3
<1>3. CASE x \in Clears
  BY <1>3, ClearEffect DEF Clears
<1>4. CASE x \in Payloads
  <2>1. PICK p \in Nat : x = Payload(p)
    BY <1>4 DEF Payloads
  <2>2. d = OnChip(c, Payload(p))
    BY <2>1
  <2> QED
    BY <2>2, PayloadEffect
<1>5. CASE x \in Reads
  <2>1. x[1] = "expect"
    BY <1>5 DEF Reads, Expect
  <2> QED
    BY <2>1, NoEffect
<1> QED
  BY <1>1, <1>2, <1>3, <1>4, <1>5 DEF Exchanges

LEMMA Raising ==
  ASSUME NEW x
  PROVE  x = CE(TRUE) =>
           /\ x \notin Clears /\ x \notin BootRegisters /\ x \notin Payloads
           /\ x # CE(FALSE) /\ x # FlushTx /\ x # FlushRx /\ x # Poll /\ x # Guard
           /\ \A q, v : x # Write(q, v)
<1>1. x = CE(TRUE) => x[1] = "ce" /\ x # CE(FALSE)
  BY DEF CE
<1> SUFFICES ASSUME x[1] = "ce", x # CE(FALSE)
             PROVE  /\ x \notin Clears /\ x \notin BootRegisters /\ x \notin Payloads
                    /\ x # FlushTx /\ x # FlushRx /\ x # Poll /\ x # Guard
                    /\ \A q, v : x # Write(q, v)
  BY <1>1
<1>2. x \notin Clears /\ x \notin BootRegisters /\ x \notin Payloads
  BY OtherNames
<1>3. \A q, v : x # Write(q, v)
  BY WriteName
<1>4. x # FlushTx /\ x # FlushRx /\ x # Poll /\ x # Guard
  BY Names
<1> QED
  BY <1>2, <1>3, <1>4

LEMMA ListenRaises ==
  ASSUME NEW fw \in Firmware, NEW own, NEW r, r # "scan", NEW j \in Nat,
         NEW x \in ListenPlan(fw, own, r)[j]
  PROVE  x = CE(TRUE) => j = 0
<1>1. CASE j \in {0, 1, 2, 3, 4}
  <2>1. /\ j = 1 => x = Write("CONFIG", PRX)
        /\ j = 2 => x \in Clears
        /\ j = 3 => x = Write("RX_ADDR_P0", own)
    BY ListenTable
  <2>2. j = 4 => x # CE(TRUE)
    <3>1. CE(FALSE) # CE(TRUE)
      BY DEF CE
    <3> QED
      BY <3>1, ListenTable
  <2> QED
    BY <1>1, <2>1, <2>2, Raising
<1>2. CASE j > 4
  <2>1. \/ x = Write("RF_CH", RF_CHANNEL) \/ x = CE(FALSE) \/ x \in Clears \cup {FlushTx}
    BY <1>2, AheadTable
  <2> QED
    BY <2>1, Raising
<1>3. j \in {0, 1, 2, 3, 4} \/ j > 4
  OBVIOUS
<1> QED
  BY <1>1, <1>2, <1>3

LEMMA SendRaises ==
  ASSUME NEW to, NEW p \in Nat, NEW j \in Nat, NEW x \in SendPlan(to, p)[j]
  PROVE  x = CE(TRUE) => j = 2 \/ j = 11
<1>1. j \in {0, 1, 2, 3, 4, 5, 6, 7, 8, 9, 10, 11, 12, 13}
  <2>1. j <= 13
    BY SendTable
  <2> QED
    BY <2>1
<1>2. Clear(IRQ_MASK) \in Clears /\ Payload(p) \in Payloads
  BY DEF Clears, Payloads
<1>3. /\ j = 0 => x = Poll
      /\ j = 1 => x \in {CE(FALSE)}
      /\ j = 3 => x = Payload(p)
      /\ j = 4 => x = FlushTx
      /\ j = 5 => x = Clear(IRQ_MASK)
      /\ j = 6 => x = Write("RX_ADDR_P0", to)
      /\ j = 7 => x = Write("TX_ADDR", to)
      /\ j = 8 => x = Write("CONFIG", PTX)
      /\ j = 9 => x \in {CE(FALSE)}
      /\ j = 10 => x = Guard
      /\ j = 12 => x \in Powers
      /\ j = 13 => x \in {CE(FALSE)}
  BY SendTable
<1>4. x = CE(TRUE) => x \notin Powers
  BY Raising DEF Powers
<1>5. x = CE(TRUE) => j # 0 /\ j # 1 /\ j # 3 /\ j # 4 /\ j # 5
  BY <1>2, <1>3, Raising
<1>6. x = CE(TRUE) => j # 6 /\ j # 7 /\ j # 8 /\ j # 9 /\ j # 10
  BY <1>2, <1>3, Raising
<1> QED
  BY <1>1, <1>3, <1>4, <1>5, <1>6, Raising

\* Only nrf24_send() makes the chip transmit: CE rises with CONFIG at PTX there
\* and nowhere else.
LEMMA SendingBegins ==
  ASSUME StationInv, Exchange, Head(todo) = CE(TRUE), chip.reg.CONFIG = PTX
  PROVE  Sending /\ Left' = 2
<1> DEFINE x == Head(todo)
           j == Left - 1
<1>1. /\ j \in Nat /\ Left' = j /\ Left = j + 1 /\ x \in PlanOf[j] /\ x \in Exchanges
      /\ firmware \in Firmware /\ result \in {"none", "ok", "max_retries", "timeout"}
  BY ExchangeKeepsPlace DEF StationInv, TypeInv, Exchange
<1>2. x = CE(TRUE) /\ chip.reg.CONFIG = PTX
  OBVIOUS
<1> HIDE DEF x, j
<1>3. /\ doing \notin {"idle", "await", "read", "tune", "scan"}
      /\ doing = "start" \/ Closing => ~(j = 0)
      /\ Sending => ~(j >= 9)
  BY <1>1, <1>2 DEF StationInv, ChipInv, EarInv, Tuned, PRX, PTX
<1>4. x \notin Clears /\ x \notin BootRegisters /\ x # FlushRx /\ x # FlushTx /\ x # CE(FALSE) /\ \A q, v : x # Write(q, v)
  BY <1>2, Raising
<1>5. doing # "boot"
  <2>1. SUFFICES ASSUME x \in BootPlan(firmware)[j]
                 PROVE  FALSE
    BY <1>1 DEF PlanOf
  <2>2. x \in CheckPlan(firmware, j) \/ x = FlushRx \/ x \in BootWrites
    BY <1>1, <2>1, BootTable
  <2>3. x \notin CheckPlan(firmware, j)
    <3>1. \A y \in CheckPlan(firmware, j) : y[1] = "expect"
      BY DEF CheckPlan, Expect
    <3> QED
      BY <1>2, <3>1, Names
  <2>4. x \notin BootWrites
    BY <1>2, <1>4 DEF BootWrites, BootOthers
  <2> QED
    BY <1>2, <1>4, <2>2, <2>3, <2>4
<1>7. ~(doing = "start" \/ Closing)
  <2>1. SUFFICES ASSUME doing = "start" \/ Closing
                 PROVE  FALSE
    OBVIOUS
  <2>2. x \in ListenPlan(firmware, Own, "boot")[j] \/ x \in ListenPlan(firmware, Own, result)[j]
    BY <1>1, <2>1 DEF PlanOf, Sending, Closing
  <2>3. j = 0
    BY <1>1, <1>2, <2>2, ListenRaises
  <2> QED
    BY <1>3, <2>1, <2>3
<1>8. Sending
  <2>1. PlanOf # NoPlan
    BY <1>1 DEF NoPlan
  <2> QED
    BY <1>3, <1>5, <1>7, <2>1 DEF PlanOf
<1>9. x \in SendPlan(Far, Sequence)[j]
  BY <1>1, <1>8 DEF PlanOf, Sending
<1>10. j = 2
  <2>1. Sequence \in Nat
    BY DEF StationInv, TypeInv, Sequence, Packets, NoPacket, Packet
  <2>2. j = 2 \/ j = 11
    BY <1>1, <1>2, <1>9, <2>1, SendRaises
  <2> QED
    BY <1>1, <1>3, <1>8, <2>2
<1> QED
  BY <1>1, <1>8, <1>10

LEMMA ExchangeKeepsSent ==
  ASSUME StationInv, SentInv, Exchange
  PROVE  SentInv'
<1> DEFINE x == Head(todo)
           j == Left - 1
<1>1. /\ j \in Nat /\ Left' = j /\ Left = j + 1 /\ x \in PlanOf[j] /\ x \in Exchanges
      /\ firmware \in Firmware /\ chip \in Chips /\ chip' = OnChip(chip, x)
      /\ UNCHANGED <<firmware, role, doing, packet, result, next_sequence>>
      /\ air'.far_got = air.far_got
  BY ExchangeKeepsPlace DEF StationInv, TypeInv, Exchange, boardVars, Airs
<1>2. Sending' = Sending /\ Closing' = Closing /\ Sequence' = Sequence
  BY <1>1 DEF Sending, Closing, Sequence
<1>3. OkMeansReceived'
  BY <1>1 DEF SentInv, OkMeansReceived
<1>4. Sending \/ Closing => chip.on
  BY DEF StationInv, ChipInv, WiredInv, Sending, Closing
<1>5. Sending => x \in SendPlan(Far, Sequence)[j]
  BY <1>1 DEF PlanOf, Sending
<1>6. chip'.flags \subseteq chip.flags
  BY <1>1, Frame
<1>7. chip'.sending /\ ~chip.sending => Sending /\ j = 2
  <2>1. chip'.sending /\ ~chip.sending => x = CE(TRUE) /\ chip.reg.CONFIG = PTX
    BY <1>1, StartEffect
  <2> QED
    BY <1>1, <2>1, SendingBegins
<1>8. ListenSize(firmware) \in {5, 7}
  BY DEF ListenSize
<1>9. Closing /\ result # "ok" /\ j = ListenSize(firmware) => ~chip'.sending
  <2>1. SUFFICES ASSUME Closing, result # "ok", j = ListenSize(firmware)
                 PROVE  ~chip'.sending
    OBVIOUS
  <2>2. x \in ListenPlan(firmware, Own, result)[j] /\ result \notin {"boot", "scan"}
    BY <1>1, <2>1 DEF PlanOf, Closing, Sending, StationInv, TypeInv
  <2> HIDE DEF x, j
  <2>3. j > 4 /\ (firmware = "V1" => j = 7)
    BY <1>8, <2>1 DEF ListenSize
  <2>4. x = FlushTx
    <3>1. \/ firmware = "V1" /\ j \in {5, 6}
          \/ result = "scan"
          \/ result # "ok" /\ j = ListenSize(firmware) => x = FlushTx
      <4>1. j \in Nat /\ firmware \in Firmware
        BY <1>1
      <4> QED
        BY <4>1, <2>2, <2>3, AheadTable
    <3> QED
      BY <2>1, <2>2, <2>3, <3>1
  <2> QED
    BY <1>1, <1>4, <2>1, <2>4, FlushTxEffect
<1> HIDE DEF x, j
<1>10. chip'.sending => \/ Sending' /\ Left' <= 2
                        \/ Closing' /\ result' # "ok" /\ Left' > ListenSize(firmware)'
  <2>1. SUFFICES ASSUME chip'.sending
                 PROVE  \/ Sending /\ j <= 2
                        \/ Closing /\ result # "ok" /\ j > ListenSize(firmware)
    BY <1>1, <1>2
  <2>2. CASE ~chip.sending
    BY <1>1, <1>7, <2>1, <2>2
  <2>3. CASE chip.sending
    BY <1>1, <1>8, <1>9, <2>1, <2>3 DEF SentInv
  <2> QED
    BY <2>2, <2>3
<1>11. Sending' /\ Left' <= 4 => ToSet(chip'.tx) \subseteq {Sequence'}
  <2>1. SUFFICES ASSUME Sending, j <= 4
                 PROVE  ToSet(chip'.tx) \subseteq {Sequence}
    BY <1>1, <1>2
  <2>2. j \in {0, 1, 2, 3, 4} /\ chip.tx \in Seq(Nat) /\ Sequence \in Nat
    <3>1. j \in {0, 1, 2, 3, 4}
      BY <1>1, <2>1
    <3>2. chip \in Chips /\ next_sequence \in Nat /\ packet \in Packets \cup {NoPacket}
      BY DEF StationInv, TypeInv
    <3>3. chip.tx \in Seq(Nat)
      BY <3>2 DEF Chips
    <3>4. Sequence \in Nat
      BY <3>2 DEF Sequence, Packets, NoPacket, Packet
    <3> QED
      BY <3>1, <3>3, <3>4
  <2>3. j # 4 => ToSet(chip.tx) \subseteq {Sequence}
    BY <1>1, <2>1, <2>2 DEF SentInv
  <2>4. CASE j = 4
    <3>1. x = FlushTx
      BY <1>1, <1>5, <2>1, <2>4, SendTable
    <3>2. chip'.tx = <<>>
      BY <1>1, <1>4, <2>1, <3>1, FlushTxEffect
    <3> QED
      BY <3>2 DEF ToSet
  <2>5. CASE j = 3
    <3>1. x = Payload(Sequence)
      BY <1>1, <1>5, <2>1, <2>5, SendTable
    <3>2. chip'.tx \in {chip.tx, Append(chip.tx, Sequence)}
      BY <1>1, <2>2, <3>1, PayloadEffect
    <3>3. ToSet(Append(chip.tx, Sequence)) = ToSet(chip.tx) \cup {Sequence}
      BY <2>2, AppendSet
    <3>4. ToSet(chip'.tx) \subseteq ToSet(chip.tx) \cup {Sequence}
      BY <3>2, <3>3
    <3> QED
      BY <2>3, <2>5, <3>4
  <2>6. CASE j \in {0, 1, 2}
    <3>1. x = Poll \/ x = CE(FALSE) \/ x = CE(TRUE)
      BY <1>1, <1>5, <2>1, <2>6, SendTable
    <3>2. x[1] \notin {"flush_tx", "payload"}
      BY <3>1, Names
    <3>3. chip'.tx = chip.tx
      BY <1>1, <3>2, Frame
    <3> QED
      BY <2>3, <2>6, <3>3
  <2> QED
    BY <2>2, <2>4, <2>5, <2>6
<1>12. Sending' /\ Left' <= 5 /\ "TX_DS" \in chip'.flags =>
         Left' <= 2 /\ ~chip'.sending /\ Sequence' \in air'.far_got
  <2>1. SUFFICES ASSUME Sending, j <= 5, "TX_DS" \in chip'.flags
                 PROVE  j <= 2 /\ ~chip'.sending /\ Sequence \in air.far_got
    BY <1>1, <1>2
  <2>2. j # 5
    <3>1. SUFFICES ASSUME j = 5
                   PROVE  FALSE
      OBVIOUS
    <3>2. x = Clear(IRQ_MASK)
      BY <1>1, <1>5, <2>1, <3>1, SendTable
    <3>3. chip'.flags = chip.flags \ IRQ_MASK
      BY <1>1, <1>4, <2>1, <3>2, ClearEffect
    <3> QED
      BY <2>1, <3>3 DEF IRQ_MASK
  <2>3. Left <= 5 /\ "TX_DS" \in chip.flags
    BY <1>1, <1>6, <2>1, <2>2
  <2>4. Left <= 2 /\ ~chip.sending /\ Sequence \in air.far_got
    BY <2>1, <2>3 DEF SentInv
  <2>5. ~chip'.sending
    BY <1>1, <1>7, <2>4
  <2> QED
    BY <1>1, <2>4, <2>5
<1> QED
  BY <1>3, <1>10, <1>11, <1>12 DEF SentInv

\* A step after which nothing is being sent.
LEMMA SentAtRest ==
  ASSUME OkMeansReceived', ~chip'.sending, Sending' => Left' \in Nat /\ Left' > 8
  PROVE  SentInv'
<1>1. Sending' => ~(Left' <= 4) /\ ~(Left' <= 5)
  OBVIOUS
<1> QED
  BY <1>1 DEF SentInv

\* Between its routines the chip has nothing left to send.
LEMMA NothingOnAir ==
  ASSUME StationInv, SentInv, todo = <<>>
  PROVE  ~chip.sending
<1>1. Left = 0 /\ ListenSize(firmware) \in {5, 7}
  BY NoneLeft DEF StationInv, PlaceInv, Left, ListenSize
<1>2. ~Sending
  BY NothingSent
<1> QED
  BY <1>1, <1>2 DEF SentInv

LEMMA OutcomeKept ==
  ASSUME SentInv, UNCHANGED <<role, result, next_sequence>>, air'.far_got = air.far_got,
         doing' = "reply" => doing = "reply" /\ packet' = packet
  PROVE  OkMeansReceived'
BY DEF SentInv, OkMeansReceived

LEMMA RestKeepsSent ==
  ASSUME StationInv, SentInv,
         \/ Booted \/ Started \/ PingSent \/ Awaited \/ ReplyDeadline \/ TakePacket \/ Finished
         \/ Receive \/ CommandTimeout \/ ConsolePower \/ ConsoleScan
  PROVE  SentInv'
<1>1. chip \in Chips /\ air \in Airs
  BY DEF StationInv, TypeInv
<1>2. todo = <<>>
  BY IdleIsAtRest DEF Booted, Started, PingSent, Awaited, ReplyDeadline, Deadline, TakePacket,
     Finished, Receive, CommandTimeout, ConsolePower, ConsoleScan
<1>3. ~chip.sending
  BY <1>2, NothingOnAir
<1>4. UNCHANGED <<role, result, next_sequence>> /\ doing' \notin {"send", "reply"}
  BY DEF Booted, Started, PingSent, Awaited, ReplyDeadline, Deadline, TakePacket,
     Finished, Receive, CommandTimeout, ConsolePower, ConsoleScan, Begin, boardVars, programVars
<1>5. chip' = chip \/ chip' = [chip EXCEPT !.rx = Tail(@)]
  BY DEF Booted, Started, PingSent, Awaited, ReplyDeadline, Deadline, TakePacket,
     Finished, Receive, CommandTimeout, ConsolePower, ConsoleScan, programVars
<1>6. \/ air' = air \/ air' = [air EXCEPT !.raised = FALSE]
      \/ air' = [air EXCEPT !.read = @ \cup {packet'}]
  BY DEF Booted, Started, PingSent, Awaited, ReplyDeadline, Deadline, TakePacket,
     Finished, Receive, CommandTimeout, ConsolePower, ConsoleScan, programVars
<1>7. air'.far_got = air.far_got
  BY <1>1, <1>6 DEF Airs
<1>8. ~chip'.sending
  BY <1>1, <1>3, <1>5 DEF Chips
<1>9. ~Sending'
  BY <1>4 DEF Sending
<1>10. OkMeansReceived'
  BY <1>4, <1>7, OutcomeKept
<1> QED
  BY <1>8, <1>9, <1>10, SentAtRest

LEMMA StartKeepsSent ==
  ASSUME StationInv, SentInv, SendPing \/ AnswerPing
  PROVE  SentInv'
<1>1. /\ todo = <<>> /\ result' = "none" /\ chip' = chip /\ doing' \in {"send", "reply"}
      /\ doing \in {"idle", "read"}
  BY IdleIsAtRest DEF SendPing, AnswerPing, Begin
<1>2. ~chip'.sending
  BY <1>1, NothingOnAir
<1>3. StationInv'
  BY SendPingKeepsInv, AnswerPingKeepsInv
<1>4. Listens
  BY <1>1, RoutineListens
<1>5. Left' \in Nat /\ Left' > 8
  <2>1. Left' \in Nat
    BY <1>3, NoneLeft DEF StationInv, PlaceInv, OnWay, Left
  <2>2. ~(Left' <= 8)
    BY <1>1, <1>3, <1>4 DEF StationInv, ChipInv, EarInv, Sending, Listens, Tuned, PRX, PTX
  <2> QED
    BY <2>1, <2>2
<1>6. OkMeansReceived'
  BY <1>1 DEF OkMeansReceived
<1> QED
  BY <1>2, <1>5, <1>6, SentAtRest

LEMMA SendEndsKeepsSent ==
  ASSUME StationInv, SentInv, PollSent \/ PollGivenUp \/ SendDeadline
  PROVE  SentInv'
<1>1. PICK r \in {"ok", "max_retries", "timeout"} :
        SendEnds(r) /\ (r = "ok" => "TX_DS" \in chip.flags)
  BY DEF PollSent, PollGivenUp, SendDeadline
<1>2. /\ UNCHANGED <<firmware, role, chip, doing, packet, next_sequence, air>> /\ result' = r
  BY <1>1 DEF SendEnds, boardVars
<1>3. Sending /\ Left = 1 /\ Left' > ListenSize(firmware)
  BY <1>1, SendEndsKeepsInv
<1>4. ~Sending' /\ Closing'
  BY <1>1, <1>2, <1>3 DEF Sending, Closing
<1>5. r = "ok" => ~chip.sending /\ Sequence \in air.far_got
  BY <1>1, <1>3 DEF SentInv
<1>6. OkMeansReceived'
  <2>1. role = "base" => doing # "reply"
    BY DEF StationInv, PlaceInv
  <2> QED
    BY <1>2, <1>5, <2>1 DEF OkMeansReceived, Sequence
<1>7. chip'.sending => Closing' /\ result' # "ok" /\ Left' > ListenSize(firmware)'
  BY <1>2, <1>3, <1>4, <1>5
<1> QED
  BY <1>4, <1>6, <1>7 DEF SentInv

\* A step of the environment that raises no TX_DS and starts no transmission.
LEMMA SentFrame ==
  ASSUME SentInv, UNCHANGED <<firmware, role, todo, doing, packet, result, next_sequence>>,
         chip'.tx = chip.tx, chip'.sending => chip.sending,
         "TX_DS" \in chip'.flags => "TX_DS" \in chip.flags,
         air.far_got \subseteq air'.far_got
  PROVE  SentInv'
<1>1. /\ Sending' = Sending /\ Closing' = Closing /\ Left' = Left /\ Sequence' = Sequence
  BY DEF Sending, Closing, Left, Sequence
<1>2. OkMeansReceived'
  BY DEF SentInv, OkMeansReceived
<1>3. chip'.sending => \/ Sending' /\ Left' <= 2
                       \/ Closing' /\ result' # "ok" /\ Left' > ListenSize(firmware)'
  BY <1>1 DEF SentInv
<1>4. Sending' /\ Left' <= 4 => ToSet(chip'.tx) \subseteq {Sequence'}
  BY <1>1 DEF SentInv
<1>5. Sending' /\ Left' <= 5 /\ "TX_DS" \in chip'.flags =>
        Left' <= 2 /\ ~chip'.sending /\ Sequence' \in air'.far_got
  BY <1>1 DEF SentInv
<1> QED
  BY <1>2, <1>3, <1>4, <1>5 DEF SentInv

LEMMA SentHeardKeepsSent ==
  ASSUME StationInv, SentInv, NEW acknowledged \in BOOLEAN, SentHeard(acknowledged)
  PROVE  SentInv'
<1>1. /\ chip \in Chips /\ air \in Airs /\ chip.sending /\ chip.tx # <<>>
      /\ air' = [air EXCEPT !.far_got = @ \cup {Head(chip.tx)}]
      /\ chip' \in {chip, Acked(chip)}
      /\ UNCHANGED <<firmware, role, todo, doing, packet, result, next_sequence>>
  BY DEF StationInv, TypeInv, SentHeard, Unchanging, boardVars, programVars
<1>2. air'.far_got = air.far_got \cup {Head(chip.tx)}
  BY <1>1 DEF Airs
<1>3. CASE chip' = chip
  BY <1>1, <1>2, <1>3, SentFrame
<1>4. CASE chip' = Acked(chip)
  <2>1. chip'.tx = Tail(chip.tx) /\ ~chip'.sending /\ chip.tx \in Seq(Nat)
    BY <1>1, <1>4 DEF Acked, Chips
  <2>2. ToSet(chip.tx) = {Head(chip.tx)} \cup ToSet(chip'.tx)
    BY <1>1, <2>1, HeadTailSet
  <2>3. /\ Sending' = Sending /\ Closing' = Closing /\ Left' = Left /\ Sequence' = Sequence
    BY <1>1 DEF Sending, Closing, Left, Sequence
  <2>4. OkMeansReceived'
    BY <1>1, <1>2 DEF SentInv, OkMeansReceived
  <2>5. Sending => Left <= 2 /\ Left \in Nat
    <3>1. Left \in Nat
      BY NoneLeft DEF StationInv, PlaceInv, OnWay, Left
    <3> QED
      BY <1>1, <3>1 DEF SentInv, Sending, Closing
  <2>6. Sending => ToSet(chip.tx) \subseteq {Sequence}
    <3>1. Sending => Left <= 4
      BY <2>5
    <3> QED
      BY <3>1 DEF SentInv
  <2>7. Sending' /\ Left' <= 4 => ToSet(chip'.tx) \subseteq {Sequence'}
    BY <2>2, <2>3, <2>6
  <2>8. Sending' /\ Left' <= 5 /\ "TX_DS" \in chip'.flags =>
          Left' <= 2 /\ ~chip'.sending /\ Sequence' \in air'.far_got
    BY <1>2, <2>1, <2>2, <2>3, <2>5, <2>6
  <2> QED
    BY <2>1, <2>4, <2>7, <2>8 DEF SentInv
<1> QED
  BY <1>1, <1>3, <1>4

LEMMA OnAirKeepsSent ==
  ASSUME StationInv, SentInv, UNCHANGED <<firmware, role, todo, doing, packet, result, next_sequence>>,
         NEW p, NEW e, OnAir(p, e), e.far_got = air.far_got,
         [e EXCEPT !.heard = @ \cup {p}].far_got = air.far_got
  PROVE  SentInv'
<1>1. CASE chip' = chip /\ air' = e
  BY <1>1, SentFrame
<1>2. CASE chip' = Heard(chip, p) /\ air' = [e EXCEPT !.heard = @ \cup {p}]
  <2>1. /\ chip'.tx = chip.tx /\ (chip'.sending <=> chip.sending)
        /\ chip'.flags = chip.flags \cup {"RX_DR"}
    BY <1>2 DEF Heard, StationInv, TypeInv, Chips
  <2>2. "TX_DS" \in chip'.flags => "TX_DS" \in chip.flags
    BY <2>1
  <2> QED
    BY <1>2, <2>1, <2>2, SentFrame
<1> QED
  BY <1>1, <1>2 DEF OnAir

LEMMA EnvironmentKeepsSent ==
  ASSUME StationInv, SentInv,
         \/ SentUnanswered \/ FarSends \/ StraySends \/ Acknowledged \/ PowerChange
         \/ UNCHANGED stationVars
  PROVE  SentInv'
<1>1. /\ chip \in Chips /\ air \in Airs
  BY DEF StationInv, TypeInv
<1>2. UNCHANGED <<firmware, role, todo, doing, packet, result, next_sequence>>
  BY DEF SentUnanswered, FarSends, StraySends, Acknowledged, PowerChange, Unchanging,
     stationVars, boardVars, programVars
<1>3. CASE PowerChange
  <2>1. ~chip'.sending /\ doing = "boot"
    BY <1>1, <1>3 DEF PowerChange, ResetChip, Chips
  <2>2. air'.far_got = air.far_got
    BY <1>1, <1>3 DEF PowerChange, Airs
  <2>3. OkMeansReceived'
    BY <1>2, <2>2, OutcomeKept
  <2>4. ~Sending'
    BY <1>2, <2>1 DEF Sending
  <2> QED
    BY <2>1, <2>3, <2>4, SentAtRest
<1>4. CASE SentUnanswered \/ Acknowledged \/ UNCHANGED stationVars
  <2>1. /\ chip'.tx = chip.tx /\ (chip'.sending => chip.sending)
        /\ chip'.flags \subseteq chip.flags \cup {"MAX_RT"}
    <3>1. CASE SentUnanswered
      BY <1>1, <3>1 DEF SentUnanswered, Unanswered, Chips
    <3>2. CASE Acknowledged
      BY <1>1, <3>2 DEF Acknowledged, Chips
    <3>3. CASE UNCHANGED stationVars
      BY <3>3 DEF stationVars
    <3> QED
      BY <1>4, <3>1, <3>2, <3>3
  <2>2. air'.far_got = air.far_got
    BY <1>1, <1>4 DEF SentUnanswered, Acknowledged, stationVars, Airs
  <2> QED
    BY <1>2, <2>1, <2>2, SentFrame
<1>5. CASE FarSends
  <2>1. PICK s : OnAir(Packet(Own, IF role = "base" THEN "reply" ELSE "ping", s),
                       [air EXCEPT !.far_sent = @ \cup {s}])
    BY <1>5 DEF FarSends
  <2> DEFINE p == Packet(Own, IF role = "base" THEN "reply" ELSE "ping", s)
             e == [air EXCEPT !.far_sent = @ \cup {s}]
  <2>2. OnAir(p, e) /\ e.far_got = air.far_got /\ [e EXCEPT !.heard = @ \cup {p}].far_got = air.far_got
    BY <1>1, <2>1 DEF Airs
  <2> HIDE DEF p, e
  <2> QED
    BY <1>2, <2>2, OnAirKeepsSent
<1>6. CASE StraySends
  <2>1. PICK to \in {Own, Far} : OnAir(Packet(to, "bad", 0),
                                   [air EXCEPT !.strays = IF doing = "await" THEN @ ELSE @ + 1])
    BY <1>6 DEF StraySends
  <2> DEFINE p == Packet(to, "bad", 0)
             e == [air EXCEPT !.strays = IF doing = "await" THEN @ ELSE @ + 1]
  <2>2. OnAir(p, e) /\ e.far_got = air.far_got /\ [e EXCEPT !.heard = @ \cup {p}].far_got = air.far_got
    BY <1>1, <2>1 DEF Airs
  <2> HIDE DEF p, e
  <2> QED
    BY <1>2, <2>2, OnAirKeepsSent
<1> QED
  BY <1>3, <1>4, <1>5, <1>6

LEMMA InitSent == Init => SentInv
<1> SUFFICES ASSUME Init
             PROVE  SentInv
  OBVIOUS
<1>1. doing = "boot" /\ result = "none" /\ ~Sending
  BY DEF Init, Sending
<1>2. ~chip.sending
  <2>1. ~ResetChip(FALSE).sending /\ ~[ResetChip(FALSE) EXCEPT !.on = FALSE].sending
    BY DEF ResetChip
  <2>2. ~LeftOver.sending
    BY DEF ResetChip, LeftOver
  <2> QED
    BY <2>1, <2>2 DEF Init
<1> QED
  BY <1>1, <1>2 DEF SentInv, OkMeansReceived

LEMMA SentStep ==
  ASSUME StationInv, SentInv, [Next]_stationVars
  PROVE  SentInv'
<1>1. CASE Exchange
  BY <1>1, ExchangeKeepsSent
<1>2. CASE \/ Booted \/ Started \/ PingSent \/ Awaited \/ ReplyDeadline \/ TakePacket \/ Finished
           \/ Receive \/ CommandTimeout \/ ConsolePower \/ ConsoleScan
  BY <1>2, RestKeepsSent
<1>3. CASE SendPing \/ AnswerPing
  BY <1>3, StartKeepsSent
<1>4. CASE PollSent \/ PollGivenUp \/ SendDeadline
  BY <1>4, SendEndsKeepsSent
<1>5. CASE \E acknowledged \in BOOLEAN : SentHeard(acknowledged)
  BY <1>5, SentHeardKeepsSent
<1>6. CASE \/ SentUnanswered \/ FarSends \/ StraySends \/ Acknowledged \/ PowerChange
           \/ UNCHANGED stationVars
  BY <1>6, EnvironmentKeepsSent
<1> QED
  BY <1>1, <1>2, <1>3, <1>4, <1>5, <1>6 DEF Next, ProgramStep

\* OkMeansReceived, for any levels and channels: a TX_DS that nrf24_send() sees was
\* raised after it cleared the flags and flushed the transmit FIFO, so for its own
\* packet (V1 nrf24.c:232-284, BasicRF nrf24.c:185-230).
THEOREM SuccessMeansReceived == Spec => []OkMeansReceived
<1>1. Init => SentInv
  BY InitSent
<1>2. StationInv /\ SentInv /\ [Next]_stationVars => SentInv'
  BY SentStep
<1>3. SentInv => OkMeansReceived
  BY DEF SentInv
<1> QED
  BY <1>1, <1>2, <1>3, StationKeepsPlace, PTL DEF Spec

-----------------------------------------------------------------------------
\* The acknowledgement of a ping that is answered

LEMMA AckEffect ==
  ASSUME NEW c \in Chips, NEW x \in Exchanges, NEW d, d = OnChip(c, x)
  PROVE  d.acking = c.acking \/ d.acking = <<>>
<1>1. CASE x[1] # "ce"
  BY <1>1, Frame
<1>2. CASE x[1] = "ce"
  <2>1. x \in PlainOnes
    BY <1>2, OtherNames DEF Exchanges
  <2>2. PICK h \in BOOLEAN : x = CE(h)
    <3>1. x # FlushRx /\ x # FlushTx /\ x # Guard /\ x # Poll
      BY <1>2, Names
    <3> QED
      BY <2>1, <3>1 DEF PlainOnes
  <2>3. d = OnChip(c, CE(h))
    BY <2>2
  <2> QED
    BY <2>3, CeEffect
<1> QED
  BY <1>1, <1>2

\* A step within a routine, or one of the environment that acknowledges or
\* cuts off what was being acknowledged.
LEMMA AckFrame ==
  ASSUME AckInv, UNCHANGED <<role, doing, packet, result>>, air'.far_sent = air.far_sent,
         air'.raised = air.raised, chip'.acking = chip.acking \/ chip'.acking = <<>>,
         Left' \in Nat, Left \in Nat, Left' <= Left,
         Sending /\ Left' <= 10 /\ Left > 10 => chip.acking = <<>>
  PROVE  AckInv'
<1>1. Sending' = Sending
  BY DEF Sending
<1>2. Sending' /\ ~air'.raised => Left' <= 11
  <2>1. Sending /\ ~air.raised => Left <= 11
    BY DEF AckInv
  <2> QED
    BY <1>1, <2>1
<1>3. ASSUME doing = "reply", ~air.raised, Sending => Left' <= 10
      PROVE  chip'.acking # <<packet>>
  <2>1. <<>> # <<packet>>
    OBVIOUS
  <2>2. CASE Sending => Left <= 10
    <3>1. chip.acking # <<packet>>
      BY <1>3, <2>2 DEF AckInv
    <3> QED
      BY <2>1, <3>1
  <2>3. CASE ~(Sending => Left <= 10)
    <3>1. Sending /\ Left' <= 10 /\ Left > 10
      BY <1>3, <2>3
    <3>2. chip.acking = <<>>
      BY <3>1
    <3> QED
      BY <2>1, <3>2
  <2> QED
    BY <2>2, <2>3
<1> QED
  BY <1>1, <1>2, <1>3 DEF AckInv

LEMMA LeftIsNat ==
  ASSUME StationInv
  PROVE  Left \in Nat
BY NoneLeft DEF StationInv, PlaceInv, OnWay, Left

LEMMA ExchangeKeepsAck ==
  ASSUME StationInv, AckInv, Exchange
  PROVE  AckInv'
<1> DEFINE x == Head(todo)
           j == Left - 1
<1>1. /\ j \in Nat /\ Left' = j /\ Left = j + 1 /\ x \in PlanOf[j] /\ x \in Exchanges
      /\ chip \in Chips /\ chip' = OnChip(chip, x)
      /\ UNCHANGED <<role, doing, packet, result>>
      /\ air'.far_sent = air.far_sent /\ air'.raised = air.raised
  BY ExchangeKeepsPlace DEF StationInv, TypeInv, Exchange, boardVars, Airs
<1>2. chip'.acking = chip.acking \/ chip'.acking = <<>>
  BY <1>1, AckEffect
<1>3. Sending /\ Left' <= 10 /\ Left > 10 => chip.acking = <<>>
  <2>1. SUFFICES ASSUME Sending, Left' <= 10, Left > 10
                 PROVE  chip.acking = <<>>
    OBVIOUS
  <2>2. x \in SendPlan(Far, Sequence)[j] /\ j = 10
    BY <1>1, <2>1 DEF PlanOf, Sending
  <2>3. x = Guard
    <3> HIDE DEF x, j
    <3> QED
      BY <1>1, <2>2, SendTable
  <2> QED
    BY <2>3 DEF Exchange
<1>4. Left' \in Nat /\ Left \in Nat /\ Left' <= Left
  BY <1>1
<1> HIDE DEF x, j
<1> QED
  BY <1>1, <1>2, <1>3, <1>4, AckFrame

LEMMA IdleKeepsAck ==
  ASSUME AckInv, role' = role, air'.far_sent = air.far_sent, doing' \notin {"send", "reply"}
  PROVE  AckInv'
BY DEF AckInv, Sending

LEMMA RestKeepsAck ==
  ASSUME StationInv, AckInv,
         \/ Booted \/ Started \/ PingSent \/ Awaited \/ ReplyDeadline \/ TakePacket \/ Finished
         \/ Receive \/ CommandTimeout \/ ConsolePower \/ ConsoleScan
  PROVE  AckInv'
<1>1. air \in Airs
  BY DEF StationInv, TypeInv
<1>2. role' = role /\ doing' \notin {"send", "reply"}
  BY DEF Booted, Started, PingSent, Awaited, ReplyDeadline, Deadline, TakePacket,
     Finished, Receive, CommandTimeout, ConsolePower, ConsoleScan, Begin, boardVars
<1>3. \/ air' = air \/ air' = [air EXCEPT !.raised = FALSE]
      \/ air' = [air EXCEPT !.read = @ \cup {packet'}]
  BY DEF Booted, Started, PingSent, Awaited, ReplyDeadline, Deadline, TakePacket,
     Finished, Receive, CommandTimeout, ConsolePower, ConsoleScan, programVars
<1>4. air'.far_sent = air.far_sent
  BY <1>1, <1>3 DEF Airs
<1> QED
  BY <1>2, <1>4, IdleKeepsAck

LEMMA SendPingKeepsAck ==
  ASSUME StationInv, AckInv, SendPing
  PROVE  AckInv'
<1>1. /\ UNCHANGED <<role, air>> /\ doing' = "send"
      /\ todo' = SendStart(Far, next_sequence')
  BY DEF SendPing, Begin, boardVars
<1>2. Left' = 10
  BY <1>1, SendOnWay DEF Left
<1> QED
  BY <1>1, <1>2 DEF AckInv

LEMMA AnswerPingKeepsAck ==
  ASSUME StationInv, HeardInv, AckInv, AnswerPing
  PROVE  AckInv'
<1>1. /\ UNCHANGED <<role, packet>> /\ doing' = "reply" /\ result' = "none"
      /\ packet.kind = "ping" /\ air \in Airs
      /\ \/ todo' = Answer(packet) /\ air' = air
         \/ air' = [air EXCEPT !.raised = TRUE]
  BY DEF AnswerPing, Begin, boardVars, StationInv, TypeInv
<1>2. air'.far_sent = air.far_sent /\ (air'.raised \/ todo' = Answer(packet))
  BY <1>1 DEF Airs
<1>3. packet.seq \in air.far_sent
  <2>1. packet # NoPacket
    BY <1>1 DEF NoPacket, Packet
  <2>2. packet \in air.heard
    BY <2>1 DEF HeardInv
  <2> QED
    BY <1>1, <2>2 DEF HeardInv
<1>4. Sending'
  BY <1>1 DEF Sending
<1>5. air'.raised \/ Left' = 11
  <2>1. Len(Answer(packet)) = 11
    BY AnswerOnWay DEF Answer
  <2> QED
    BY <1>2, <2>1 DEF Left
<1>6. ~air'.raised => Left' <= 11 /\ ~(Left' <= 10)
  BY <1>5
<1> QED
  BY <1>1, <1>2, <1>3, <1>4, <1>6 DEF AckInv

LEMMA SendEndsKeepsAck ==
  ASSUME StationInv, AckInv, PollSent \/ PollGivenUp \/ SendDeadline
  PROVE  AckInv'
<1>1. PICK r \in {"ok", "max_retries", "timeout"} : SendEnds(r)
  BY DEF PollSent, PollGivenUp, SendDeadline
<1>2. /\ UNCHANGED <<role, chip, doing, packet, air>> /\ result' = r
  BY <1>1 DEF SendEnds, boardVars
<1>3. Left = 1
  BY <1>1, SendEndsKeepsInv
<1>4. ~Sending'
  BY <1>2 DEF Sending
<1>5. doing = "reply" /\ ~air.raised => chip.acking # <<packet>>
  BY <1>3 DEF AckInv
<1> QED
  BY <1>2, <1>4, <1>5 DEF AckInv

LEMMA QuietKeepsAck ==
  ASSUME StationInv, AckInv,
         \/ \E acknowledged \in BOOLEAN : SentHeard(acknowledged)
         \/ SentUnanswered \/ Acknowledged \/ PowerChange \/ UNCHANGED stationVars
  PROVE  AckInv'
<1>1. /\ chip \in Chips /\ air \in Airs
  BY DEF StationInv, TypeInv
<1>2. UNCHANGED <<role, todo, doing, packet, result>>
  BY DEF SentHeard, SentUnanswered, Acknowledged, PowerChange, Unchanging, stationVars, boardVars, programVars
<1>3. air'.far_sent = air.far_sent /\ air'.raised = air.raised
  BY <1>1 DEF SentHeard, SentUnanswered, Acknowledged, PowerChange, stationVars, Airs
<1>4. chip'.acking = chip.acking \/ chip'.acking = <<>>
  <2>1. CASE PowerChange
    BY <1>1, <2>1 DEF PowerChange, ResetChip
  <2>2. CASE ~PowerChange
    BY <1>1, <2>2 DEF SentHeard, SentUnanswered, Acknowledged, stationVars, Chips, Acked, Unanswered
  <2> QED
    BY <2>1, <2>2
<1>5. Left' = Left /\ Left \in Nat
  BY <1>2, LeftIsNat DEF Left
<1>6. Left' \in Nat /\ Left' <= Left /\ ~(Left' <= 10 /\ Left > 10)
  BY <1>5
<1> QED
  BY <1>2, <1>3, <1>4, <1>5, <1>6, AckFrame

\* What comes in during an answer is not the ping that is answered.
LEMMA OnAirKeepsAck ==
  ASSUME StationInv, AckInv, Unchanging, NEW p, NEW e \in Airs, OnAir(p, e),
         e.raised = air.raised, air.far_sent \subseteq e.far_sent,
         role = "remote" => \E k \in Nat : e.far_sent = 1 .. k,
         role = "remote" => p.kind # "ping" \/ p.seq \notin air.far_sent
  PROVE  AckInv'
<1>1. UNCHANGED <<role, todo, doing, packet, result>>
  BY DEF Unchanging, boardVars, programVars
<1>2. air'.far_sent = e.far_sent /\ air'.raised = air.raised
  BY DEF OnAir, Airs
<1>3. Left' = Left /\ Sending' = Sending
  BY <1>1 DEF Left, Sending
<1>4. chip'.acking = chip.acking \/ chip'.acking = <<p>>
  BY DEF OnAir, Heard, StationInv, TypeInv, Chips
<1>5. doing = "reply" => <<p>> # <<packet>>
  <2>1. doing = "reply" => role = "remote" /\ packet.kind = "ping" /\ packet.seq \in air.far_sent
    BY DEF StationInv, PlaceInv, AckInv
  <2>2. doing = "reply" => p # packet
    BY <2>1
  <2> QED
    BY <2>2
<1>6. doing' = "reply" /\ ~air'.raised /\ (Sending' => Left' <= 10) => chip'.acking # <<packet'>>
  BY <1>1, <1>2, <1>3, <1>4, <1>5 DEF AckInv
<1>7. role' = "remote" => \E k \in Nat : air'.far_sent = 1 .. k
  BY <1>1, <1>2
<1>8. doing' = "reply" => packet'.kind = "ping" /\ packet'.seq \in air'.far_sent
  BY <1>1, <1>2 DEF AckInv
<1>9. Sending' /\ ~air'.raised => Left' <= 11
  BY <1>2, <1>3 DEF AckInv
<1> QED
  BY <1>6, <1>7, <1>8, <1>9 DEF AckInv

LEMMA FarSendsKeepsAck ==
  ASSUME StationInv, AckInv, FarSends
  PROVE  AckInv'
<1>1. air \in Airs
  BY DEF StationInv, TypeInv
<1>2. PICK s \in IF role = "base" THEN air.far_got \ air.far_sent
                  ELSE {Cardinality(air.far_sent) + 1} \cap (1 .. MaxSequence) :
        OnAir(Packet(Own, IF role = "base" THEN "reply" ELSE "ping", s),
              [air EXCEPT !.far_sent = @ \cup {s}])
  BY DEF FarSends
<1> DEFINE p == Packet(Own, IF role = "base" THEN "reply" ELSE "ping", s)
           e == [air EXCEPT !.far_sent = @ \cup {s}]
<1>3. s \in Nat
  <2>1. air.far_got \subseteq Nat
    BY <1>1 DEF Airs
  <2>2. 1 .. MaxSequence \subseteq Nat
    OBVIOUS
  <2> QED
    BY <2>1, <2>2
<1>4. /\ e \in Airs /\ e.raised = air.raised /\ e.far_sent = air.far_sent \cup {s} /\ p.seq = s
  BY <1>1, <1>3 DEF Airs, Packet
<1>5. OnAir(p, e) /\ Unchanging
  BY <1>2 DEF FarSends
<1>6. role = "remote" => s \notin air.far_sent /\ \E k \in Nat : air.far_sent \cup {s} = 1 .. k
  <2>1. SUFFICES ASSUME role = "remote"
                 PROVE  s \notin air.far_sent /\ \E k \in Nat : air.far_sent \cup {s} = 1 .. k
    OBVIOUS
  <2>2. PICK k \in Nat : air.far_sent = 1 .. k
    BY <2>1 DEF AckInv
  <2>3. Cardinality(1 .. k) = k
    BY FS_Interval
  <2>4. s = k + 1
    BY <1>2, <2>1, <2>2, <2>3
  <2>5. s \notin 1 .. k /\ (1 .. k) \cup {s} = 1 .. k + 1 /\ k + 1 \in Nat
    BY <2>4
  <2> QED
    BY <2>2, <2>5
<1> HIDE DEF p, e
<1> QED
  BY <1>4, <1>5, <1>6, OnAirKeepsAck

LEMMA StraySendsKeepsAck ==
  ASSUME StationInv, AckInv, StraySends
  PROVE  AckInv'
<1>1. air \in Airs
  BY DEF StationInv, TypeInv
<1>2. PICK to \in {Own, Far} : OnAir(Packet(to, "bad", 0),
                                   [air EXCEPT !.strays = IF doing = "await" THEN @ ELSE @ + 1])
  BY DEF StraySends
<1> DEFINE p == Packet(to, "bad", 0)
           e == [air EXCEPT !.strays = IF doing = "await" THEN @ ELSE @ + 1]
<1>3. p.kind # "ping"
  BY DEF Packet
<1>4. /\ e \in Airs /\ e.raised = air.raised /\ e.far_sent = air.far_sent
  BY <1>1 DEF Airs
<1>5. OnAir(p, e) /\ Unchanging
  BY <1>2 DEF StraySends
<1>6. role = "remote" => \E k \in Nat : air.far_sent = 1 .. k
  BY DEF AckInv
<1> HIDE DEF p, e
<1> QED
  BY <1>3, <1>4, <1>5, <1>6, OnAirKeepsAck

LEMMA InitAck == Init => AckInv
<1> SUFFICES ASSUME Init
             PROVE  AckInv
  OBVIOUS
<1>1. doing = "boot" /\ air = NewAir
  BY DEF Init
<1>2. air.far_sent = {} /\ {} = 1 .. 0
  BY <1>1 DEF NewAir
<1>3. \E k \in Nat : air.far_sent = 1 .. k
  BY <1>2
<1> QED
  BY <1>1, <1>3 DEF AckInv, Sending

LEMMA AckStep ==
  ASSUME StationInv, HeardInv, AckInv, [Next]_stationVars
  PROVE  AckInv'
<1>1. CASE Exchange
  BY <1>1, ExchangeKeepsAck
<1>2. CASE \/ Booted \/ Started \/ PingSent \/ Awaited \/ ReplyDeadline \/ TakePacket \/ Finished
           \/ Receive \/ CommandTimeout \/ ConsolePower \/ ConsoleScan
  BY <1>2, RestKeepsAck
<1>3. CASE SendPing
  BY <1>3, SendPingKeepsAck
<1>4. CASE AnswerPing
  BY <1>4, AnswerPingKeepsAck
<1>5. CASE PollSent \/ PollGivenUp \/ SendDeadline
  BY <1>5, SendEndsKeepsAck
<1>6. CASE FarSends
  BY <1>6, FarSendsKeepsAck
<1>7. CASE StraySends
  BY <1>7, StraySendsKeepsAck
<1>8. CASE \/ \E acknowledged \in BOOLEAN : SentHeard(acknowledged)
           \/ SentUnanswered \/ Acknowledged \/ PowerChange \/ UNCHANGED stationVars
  BY <1>8, QuietKeepsAck
<1> QED
  BY <1>1, <1>2, <1>3, <1>4, <1>5, <1>6, <1>7, <1>8 DEF Next, ProgramStep

\* The acknowledgement of the ping that is answered ends in no other way.
LEMMA AckEnds ==
  ASSUME StationInv, AckInv, [Next]_stationVars,
         doing = "reply", ~air.raised, chip.acking = <<packet>>, chip'.acking = <<>>
  PROVE  packet \in air'.acked
<1>1. /\ chip \in Chips /\ air \in Airs /\ Left \in Nat
  BY LeftIsNat DEF StationInv, TypeInv
<1>2. Sending /\ Left = 11
  BY <1>1 DEF AckInv
<1>3. <<packet>> # <<>>
  OBVIOUS
<1>4. todo # <<>>
  BY <1>2, NothingSent
<1>5. ~Exchange
  <2>1. SUFFICES ASSUME Exchange
                 PROVE  FALSE
    OBVIOUS
  <2>2. Head(todo) \in SendPlan(Far, Sequence)[10]
    BY <1>2, <2>1, ExchangeKeepsPlace DEF PlanOf, Sending
  <2>3. Head(todo) = Guard
    BY <2>2 DEF SendPlan
  <2> QED
    BY <1>3, <2>1, <2>3 DEF Exchange
<1>6. ~(PollSent \/ PollGivenUp \/ SendDeadline)
  <2>1. \A r \in {"ok", "max_retries", "timeout"} : ~SendEnds(r)
    BY <1>2, SendEndsKeepsInv
  <2> QED
    BY <2>1 DEF PollSent, PollGivenUp, SendDeadline
<1>7. ~\/ Booted \/ Started \/ PingSent \/ Awaited \/ ReplyDeadline \/ AnswerPing \/ TakePacket \/ Finished
       \/ Receive \/ SendPing \/ CommandTimeout \/ ConsolePower \/ ConsoleScan
  BY <1>4 DEF Booted, Started, PingSent, Awaited, ReplyDeadline, Deadline, AnswerPing, TakePacket,
     Finished, Receive, SendPing, CommandTimeout, ConsolePower, ConsoleScan
<1>8. ~\/ \E acknowledged \in BOOLEAN : SentHeard(acknowledged)
       \/ SentUnanswered \/ PowerChange \/ UNCHANGED stationVars
  BY <1>1, <1>3 DEF SentHeard, SentUnanswered, PowerChange, stationVars, Chips, Acked, Unanswered
<1>9. ~FarSends /\ ~StraySends
  <2>1. \A p, e : OnAir(p, e) => chip'.acking = chip.acking \/ chip'.acking = <<p>>
    BY <1>1 DEF OnAir, Heard, Chips
  <2>2. \A p : <<p>> # <<>>
    OBVIOUS
  <2>3. \A p, e : ~OnAir(p, e)
    BY <1>3, <2>1, <2>2
  <2> QED
    BY <2>3 DEF FarSends, StraySends
<1>10. Acknowledged
  BY <1>5, <1>6, <1>7, <1>8, <1>9 DEF Next, ProgramStep
<1>11. packet \in ToSet(chip.acking)
  <2>1. 1 \in DOMAIN <<packet>> /\ <<packet>>[1] = packet
    OBVIOUS
  <2> QED
    BY <2>1 DEF ToSet
<1>12. air'.acked = air.acked \cup ToSet(chip.acking)
  BY <1>1, <1>10 DEF Acknowledged, Airs
<1> QED
  BY <1>11, <1>12

\* AcknowledgedBeforeAnswer, for any FIFO depth and number of pings: CE goes down
\* for an answer only behind the guard time, and what is acknowledged then is no
\* longer the ping, unless the power was raised in between (AUTO_ACK_GUARD_US,
\* V1 main.c:490, README.md:164-176).
THEOREM AcknowledgesBeforeAnswering == Spec => AcknowledgedBeforeAnswer
<1>1. Init => AckInv
  BY InitAck
<1>2. StationInv /\ HeardInv /\ AckInv /\ [Next]_stationVars => AckInv'
  BY AckStep
<1>3. StationInv /\ AckInv /\ [Next]_stationVars
        => [doing = "reply" /\ ~air.raised /\ chip.acking = <<packet>> /\ chip'.acking = <<>>
              => packet \in air'.acked]_stationVars
  BY AckEnds
<1> QED
  BY <1>1, <1>2, <1>3, StationKeepsPlace, StationKeepsPackets, PTL DEF Spec, AcknowledgedBeforeAnswer
=============================================================================
