-------------------------- MODULE CommandPathProofs --------------------------
(***************************************************************************)
(* Theorems about the console's line readers, for every size of the        *)
(* buffers, any keys and lines of any length.                              *)
(*                                                                         *)
(* Sequences are compared place by place, and an invariant says what each  *)
(* place of the buffer holds: the line as the user sees it, or the end of  *)
(* the buffer or, of a V1 line that does not fit, its beginning.           *)
(***************************************************************************)
EXTENDS CommandPath, TLAPS, SequenceTheorems

\* What can be typed, with either firmware.
Key == UNION {Symbols[f] \cup Openers[f] : f \in {"V1", "V2"}}

\* l begins with t; l ends in t.
Begins(l, t) == Len(t) <= Len(l) /\ \A i \in 1 .. Len(t) : l[i] = t[i]
Ends(l, t)   == Len(t) <= Len(l) /\ \A i \in 1 .. Len(t) : l[Len(l) - Len(t) + i] = t[i]

TypeInv ==
  /\ firmware \in {"V1", "V2"} /\ leftover \in BOOLEAN /\ lost \in Lost
  /\ buffer \in [line : Seq(Key), over : BOOLEAN]
  /\ typed \in Seq(Key)

\* That a cut line fills the buffer keeps an erase from going unnoticed: the key
\* always finds something to take away, in front of what was dropped.
BufferInv ==
  /\ TypeInv
  /\ firmware = "V2" => lost = "none"
  /\ firmware = "V1" => ~buffer.over /\ Len(buffer.line) < LineSize["V1"]
  /\ ~buffer.over /\ lost = "none" => Ends(buffer.line, typed)
  /\ ~buffer.over /\ lost = "none" /\ ~leftover => buffer.line = typed
  /\ lost = "tail" /\ ~leftover =>
       /\ Begins(typed, buffer.line) /\ Len(buffer.line) < Len(typed)
       /\ Len(buffer.line) = LineSize["V1"] - 1

-----------------------------------------------------------------------------
\* Lines

LEMMA AppendKey ==
  ASSUME NEW S, NEW s \in Seq(S), NEW c \in S
  PROVE  /\ Append(s, c) \in Seq(S) /\ Len(Append(s, c)) = Len(s) + 1 /\ Append(s, c) # s
         /\ Append(s, c)[Len(s) + 1] = c
         /\ \A i \in 1 .. Len(s) : Append(s, c)[i] = s[i]
  BY AppendProperties

LEMMA FrontKey ==
  ASSUME NEW S, NEW s \in Seq(S), s # <<>>
  PROVE  /\ Front(s) \in Seq(S) /\ Len(Front(s)) = Len(s) - 1 /\ Front(s) # s
         /\ \A i \in 1 .. Len(s) - 1 : Front(s)[i] = s[i]
<1>1. Len(s) \in Nat /\ Len(s) # 0
  OBVIOUS
<1>2. \A i \in 1 .. Len(s) - 1 : s[i] \in S
  OBVIOUS
<1>3. Front(s) \in Seq(S) /\ Len(Front(s)) = Len(s) - 1
  <2> DEFINE n == Len(s) - 1
  <2>1. n \in Nat /\ n <= Len(s)
    BY <1>1
  <2>2. SubSeq(s, 1, n) \in Seq(S)
    BY <1>2, <2>1, SubSeqProperties
  <2>3. n \in Int /\ \A i \in 1 .. n : s[i] \in S
    BY <1>2, <2>1
  <2> HIDE DEF n
  <2>4. Len(SubSeq(s, 1, n)) = IF 1 <= n THEN n - 1 + 1 ELSE 0
    BY <2>3, SubSeqProperties
  <2>5. Len(SubSeq(s, 1, n)) = n
    BY <2>1, <2>4
  <2> QED
    BY <2>2, <2>5 DEF Front, n
<1>4. \A i \in 1 .. Len(s) - 1 : Front(s)[i] = s[i]
  BY <1>1, <1>2, SubSeqProperties DEF Front
<1> QED
  BY <1>1, <1>3, <1>4

\* What Ends means is IsSuffix.
LEMMA EndsIsSuffix ==
  ASSUME NEW S, NEW t \in Seq(S), NEW l \in Seq(S), Ends(l, t)
  PROVE  IsSuffix(t, l)
<1> DEFINE rt == Reverse(t)
           rl == Reverse(l)
<1>1. /\ Len(t) \in Nat /\ Len(l) \in Nat /\ Len(t) <= Len(l)
      /\ \A i \in 1 .. Len(t) : l[Len(l) - Len(t) + i] = t[i]
  BY DEF Ends
<1>2. /\ rt \in Seq(S) /\ Len(rt) = Len(t) /\ \A i \in 1 .. Len(t) : rt[i] = t[Len(t) - i + 1]
  BY DEF Reverse
<1>3. /\ rl \in Seq(S) /\ Len(rl) = Len(l) /\ \A i \in 1 .. Len(l) : rl[i] = l[Len(l) - i + 1]
  BY DEF Reverse
<1> HIDE DEF rt, rl
<1>4. \A i \in 1 .. Len(t) : rt[i] = rl[i]
  <2>1. SUFFICES ASSUME NEW i \in 1 .. Len(t)
                 PROVE  rt[i] = rl[i]
    OBVIOUS
  <2>2. rt[i] = t[Len(t) - i + 1] /\ rl[i] = l[Len(l) - i + 1]
    BY <1>1, <1>2, <1>3
  <2>3. Len(t) - i + 1 \in 1 .. Len(t)
    BY <1>1
  <2>4. l[Len(l) - Len(t) + (Len(t) - i + 1)] = t[Len(t) - i + 1]
    BY <1>1, <2>3
  <2>5. Len(l) - Len(t) + (Len(t) - i + 1) = Len(l) - i + 1
    BY <1>1
  <2> QED
    BY <2>2, <2>4, <2>5
<1>5. SubSeq(rt, 1, Len(rt)) = SubSeq(rl, 1, Len(rt))
  BY <1>1, <1>2, <1>3, <1>4
<1> QED
  BY <1>1, <1>2, <1>3, <1>5 DEF IsSuffix, IsPrefix, rt, rl

LEMMA BeginsIsPrefix ==
  ASSUME NEW S, NEW t \in Seq(S), NEW l \in Seq(S), Begins(t, l), Len(l) < Len(t)
  PROVE  IsStrictPrefix(l, t)
<1>1. /\ Len(t) \in Nat /\ Len(l) \in Nat /\ Len(l) <= Len(t) /\ l # t
      /\ \A i \in 1 .. Len(l) : t[i] = l[i]
  BY DEF Begins
<1>2. SubSeq(l, 1, Len(l)) = SubSeq(t, 1, Len(l))
  BY <1>1
<1> QED
  BY <1>1, <1>2 DEF IsStrictPrefix, IsPrefix

LEMMA AppendEnds ==
  ASSUME NEW S, NEW t \in Seq(S), NEW l \in Seq(S), NEW c \in S, Ends(l, t)
  PROVE  Ends(Append(l, c), Append(t, c))
<1> DEFINE at == Append(t, c)
           al == Append(l, c)
<1>1. /\ Len(at) = Len(t) + 1 /\ at[Len(t) + 1] = c /\ \A i \in 1 .. Len(t) : at[i] = t[i]
  BY AppendKey
<1>2. /\ Len(al) = Len(l) + 1 /\ al[Len(l) + 1] = c /\ \A i \in 1 .. Len(l) : al[i] = l[i]
  BY AppendKey
<1>3. /\ Len(t) \in Nat /\ Len(l) \in Nat /\ Len(t) <= Len(l)
      /\ \A i \in 1 .. Len(t) : l[Len(l) - Len(t) + i] = t[i]
  BY DEF Ends
<1> HIDE DEF at, al
<1>4. ASSUME NEW i \in 1 .. Len(at)
      PROVE  al[Len(al) - Len(at) + i] = at[i]
  <2>1. Len(al) - Len(at) + i = Len(l) - Len(t) + i
    BY <1>1, <1>2, <1>3
  <2>2. CASE i = Len(t) + 1
    BY <1>1, <1>2, <1>3, <2>1, <2>2
  <2>3. CASE i # Len(t) + 1
    <3>1. i \in 1 .. Len(t) /\ Len(l) - Len(t) + i \in 1 .. Len(l)
      BY <1>1, <1>3, <2>3
    <3> QED
      BY <1>1, <1>2, <1>3, <2>1, <3>1
  <2> QED
    BY <2>2, <2>3
<1>5. Len(at) <= Len(al)
  BY <1>1, <1>2, <1>3
<1> QED
  BY <1>4, <1>5 DEF Ends, at, al

LEMMA FrontEnds ==
  ASSUME NEW S, NEW t \in Seq(S), NEW l \in Seq(S), t # <<>>, Ends(l, t)
  PROVE  l # <<>> /\ Ends(Front(l), Front(t))
<1> DEFINE ft == Front(t)
           fl == Front(l)
<1>1. /\ Len(t) \in Nat /\ Len(l) \in Nat /\ Len(t) <= Len(l) /\ Len(t) # 0
      /\ \A i \in 1 .. Len(t) : l[Len(l) - Len(t) + i] = t[i]
  BY DEF Ends
<1>2. l # <<>>
  BY <1>1
<1>3. /\ Len(ft) = Len(t) - 1 /\ \A i \in 1 .. Len(t) - 1 : ft[i] = t[i]
  BY FrontKey
<1>4. /\ Len(fl) = Len(l) - 1 /\ \A i \in 1 .. Len(l) - 1 : fl[i] = l[i]
  BY <1>2, FrontKey
<1> HIDE DEF ft, fl
<1>5. ASSUME NEW i \in 1 .. Len(ft)
      PROVE  fl[Len(fl) - Len(ft) + i] = ft[i]
  <2>1. Len(fl) - Len(ft) + i = Len(l) - Len(t) + i
    BY <1>1, <1>3, <1>4
  <2>2. i \in 1 .. Len(t) - 1 /\ i \in 1 .. Len(t) /\ Len(l) - Len(t) + i \in 1 .. Len(l) - 1
    BY <1>1, <1>3
  <2> QED
    BY <1>1, <1>3, <1>4, <2>1, <2>2
<1> QED
  BY <1>1, <1>2, <1>3, <1>4, <1>5 DEF Ends, ft, fl

-----------------------------------------------------------------------------
\* The steps

LEMMA EmptyFollows ==
  /\ EmptyBuffer \in [line : Seq(Key), over : BOOLEAN] /\ <<>> \in Seq(Key)
  /\ EmptyBuffer.line = <<>> /\ ~EmptyBuffer.over /\ Len(<<>>) = 0
  /\ Ends(<<>>, <<>>) /\ 0 < LineSize["V1"]
<1>1. EmptyBuffer.line = <<>> /\ ~EmptyBuffer.over
  BY DEF EmptyBuffer
<1>2. <<>> \in Seq(Key) /\ Len(<<>>) = 0
  OBVIOUS
<1>3. EmptyBuffer \in [line : Seq(Key), over : BOOLEAN]
  BY <1>2 DEF EmptyBuffer
<1>4. Ends(<<>>, <<>>)
  BY <1>2 DEF Ends
<1>5. 0 < LineSize["V1"]
  BY LineAssumption
<1> QED
  BY <1>1, <1>2, <1>3, <1>4, <1>5

LEMMA InitBuffer == Init => BufferInv
<1> SUFFICES ASSUME Init
             PROVE  BufferInv
  OBVIOUS
<1>1. /\ firmware \in {"V1", "V2"} /\ buffer = EmptyBuffer /\ typed = <<>>
      /\ leftover \in BOOLEAN /\ lost = "none"
  BY DEF Init
<1>2. buffer.line = <<>> /\ ~buffer.over /\ Len(buffer.line) < LineSize["V1"]
  BY <1>1, EmptyFollows
<1>3. Ends(buffer.line, typed)
  BY <1>1, <1>2, EmptyFollows
<1>4. buffer \in [line : Seq(Key), over : BOOLEAN] /\ typed \in Seq(Key)
  BY <1>1, EmptyFollows
<1> QED
  BY <1>1, <1>2, <1>3, <1>4 DEF BufferInv, TypeInv, Lost

LEMMA TypeV2KeepsBuffer ==
  ASSUME BufferInv, firmware = "V2", NEW c \in Key, Type(c)
  PROVE  BufferInv'
<1>1. /\ firmware' = "V2" /\ leftover' = leftover /\ lost' = "none" /\ typed' = Append(typed, c)
      /\ buffer' = CollectV2(buffer, c)
  BY DEF Type
<1>2. /\ buffer \in [line : Seq(Key), over : BOOLEAN] /\ typed \in Seq(Key)
      /\ leftover \in BOOLEAN /\ lost = "none"
      /\ ~buffer.over => Ends(buffer.line, typed)
      /\ ~buffer.over /\ ~leftover => buffer.line = typed
  BY DEF BufferInv, TypeInv
<1>3. typed' \in Seq(Key)
  BY <1>1, <1>2, AppendKey
<1>4. CASE buffer' = buffer /\ buffer.over
  BY <1>1, <1>2, <1>3, <1>4 DEF BufferInv, TypeInv, Lost
<1>5. CASE ~buffer.over /\ buffer' = [buffer EXCEPT !.line = Append(buffer.line, c)]
  <2>1. /\ buffer'.line = Append(buffer.line, c) /\ buffer'.over = buffer.over
        /\ buffer' \in [line : Seq(Key), over : BOOLEAN]
    BY <1>2, <1>5, AppendKey
  <2>2. Ends(buffer'.line, typed')
    BY <1>1, <1>2, <1>5, <2>1, AppendEnds
  <2>3. ~leftover => buffer'.line = typed'
    BY <1>1, <1>2, <1>5, <2>1
  <2> QED
    BY <1>1, <1>2, <1>3, <2>1, <2>2, <2>3 DEF BufferInv, TypeInv, Lost
<1>6. CASE buffer' = [buffer EXCEPT !.over = TRUE]
  <2>1. buffer'.over /\ buffer' \in [line : Seq(Key), over : BOOLEAN]
    BY <1>2, <1>6
  <2> QED
    BY <1>1, <1>2, <1>3, <2>1 DEF BufferInv, TypeInv, Lost
<1> QED
  BY <1>1, <1>4, <1>5, <1>6 DEF CollectV2

LEMMA TypeV1KeepsBuffer ==
  ASSUME BufferInv, firmware = "V1", NEW c \in Key, Type(c)
  PROVE  BufferInv'
<1> DEFINE l == buffer.line
           m == buffer'.line
<1>1. /\ firmware' = "V1" /\ leftover' = leftover
      /\ buffer' = CollectV1(buffer, c)
      /\ typed' = IF c # Erase THEN Append(typed, c)
                  ELSE IF typed = <<>> THEN typed ELSE Front(typed)
      /\ lost' = CASE lost = "none" /\ c # Erase /\ buffer' = buffer -> "tail"
                   [] lost = "tail" /\ buffer' # buffer -> "mixed"
                   [] OTHER -> lost
  BY DEF Type
<1>2. /\ buffer \in [line : Seq(Key), over : BOOLEAN] /\ typed \in Seq(Key)
      /\ leftover \in BOOLEAN /\ lost \in Lost /\ ~buffer.over /\ Len(l) < LineSize["V1"]
      /\ l \in Seq(Key) /\ Len(l) \in Nat /\ Len(typed) \in Nat
      /\ lost = "none" => Ends(l, typed)
      /\ lost = "none" /\ ~leftover => l = typed
      /\ lost = "tail" /\ ~leftover => /\ Begins(typed, l) /\ Len(l) < Len(typed)
                                       /\ Len(l) = LineSize["V1"] - 1
  BY DEF BufferInv, TypeInv
<1>3. LineSize["V1"] \in Nat \ {0, 1}
  BY LineAssumption
<1>4. lost' \in Lost /\ (lost' = "none" => lost = "none")
  BY <1>1, <1>2 DEF Lost
<1>5. typed' \in Seq(Key)
  <2>1. CASE c # Erase
    BY <1>1, <1>2, <2>1, AppendKey
  <2>2. CASE c = Erase
    BY <1>1, <1>2, <2>2, FrontKey
  <2> QED
    BY <2>1, <2>2
\* What is left to show, of a step that changes the line.
<1>6. SUFFICES /\ buffer' \in [line : Seq(Key), over : BOOLEAN] /\ ~buffer'.over
               /\ Len(m) < LineSize["V1"]
               /\ lost' = "none" => Ends(m, typed')
               /\ lost' = "none" /\ ~leftover => m = typed'
               /\ lost' = "tail" /\ ~leftover => /\ Begins(typed', m) /\ Len(m) < Len(typed')
                                                 /\ Len(m) = LineSize["V1"] - 1
  BY <1>1, <1>2, <1>4, <1>5 DEF BufferInv, TypeInv
<1>7. CASE c # Erase /\ Len(l) < LineSize["V1"] - 1
  <2>1. buffer' = [buffer EXCEPT !.line = Append(l, c)] /\ typed' = Append(typed, c)
    BY <1>1, <1>7 DEF CollectV1
  <2>2. /\ m = Append(l, c) /\ ~buffer'.over /\ buffer' \in [line : Seq(Key), over : BOOLEAN]
        /\ Len(m) = Len(l) + 1 /\ m # l
    <3>1. Append(l, c) \in Seq(Key) /\ Len(Append(l, c)) = Len(l) + 1 /\ Append(l, c) # l
      BY <1>2, AppendKey
    <3>2. m = Append(l, c) /\ buffer'.over = buffer.over
      BY <1>2, <2>1
    <3>3. buffer' \in [line : Seq(Key), over : BOOLEAN]
      BY <1>2, <2>1, <3>1
    <3> QED
      BY <1>2, <3>1, <3>2, <3>3
  <2>3. buffer' # buffer
    BY <2>2
  <2>4. lost' # "tail"
    BY <1>1, <1>2, <2>3 DEF Lost
  <2>5. lost' = "none" => Ends(m, typed')
    BY <1>2, <1>4, <2>1, <2>2, AppendEnds
  <2> HIDE DEF l, m
  <2> QED
    BY <1>2, <1>3, <1>4, <1>7, <2>1, <2>2, <2>4, <2>5
<1>8. CASE c # Erase /\ ~(Len(l) < LineSize["V1"] - 1)
  <2>1. buffer' = buffer /\ typed' = Append(typed, c) /\ Len(l) = LineSize["V1"] - 1
    BY <1>1, <1>2, <1>3, <1>8 DEF CollectV1
  <2>2. lost' # "none" /\ (lost' = "tail" => lost \in {"none", "tail"})
    BY <1>1, <1>2, <1>8, <2>1 DEF Lost
  <2>3. /\ Len(typed') = Len(typed) + 1 /\ \A i \in 1 .. Len(typed) : typed'[i] = typed[i]
    BY <1>2, <2>1, AppendKey
  <2>4. m = l
    BY <2>1
  <2> HIDE DEF l, m
  <2>5. ASSUME lost' = "tail", ~leftover
        PROVE  Begins(typed', l) /\ Len(l) < Len(typed')
    <3>1. Begins(typed, l)
      BY <1>2, <2>2, <2>5 DEF Begins
    <3> QED
      BY <1>2, <2>3, <3>1 DEF Begins
  <2> QED
    BY <1>2, <2>1, <2>2, <2>4, <2>5
<1>9. CASE c = Erase /\ l = <<>>
  <2>1. buffer' = buffer /\ m = l /\ Len(l) = 0
    BY <1>1, <1>9 DEF CollectV1
  <2>2. lost' = lost
    BY <1>1, <1>2, <1>9, <2>1 DEF Lost
  <2>3. ~(lost = "tail" /\ ~leftover)
    BY <1>2, <1>3, <2>1
  <2>4. lost = "none" => typed = <<>> /\ typed' = typed
    BY <1>1, <1>2, <1>9, <2>1 DEF Ends
  <2> HIDE DEF l, m
  <2> QED
    BY <1>2, <2>1, <2>2, <2>3, <2>4
<1>10. CASE c = Erase /\ l # <<>>
  <2>1. buffer' = [buffer EXCEPT !.line = Front(l)]
    BY <1>1, <1>10 DEF CollectV1
  <2>2. /\ m = Front(l) /\ ~buffer'.over /\ buffer' \in [line : Seq(Key), over : BOOLEAN]
        /\ Len(m) = Len(l) - 1 /\ m # l
    BY <1>2, <1>10, <2>1, FrontKey
  <2>3. buffer' # buffer
    BY <2>2
  <2>4. lost' # "tail"
    BY <1>1, <1>2, <2>3 DEF Lost
  <2>5. lost = "none" => Ends(m, typed')
    <3>1. CASE typed = <<>>
      BY <1>1, <1>2, <1>10, <2>2, <3>1 DEF Ends
    <3>2. CASE typed # <<>>
      BY <1>1, <1>2, <1>10, <2>2, <3>2, FrontEnds
    <3> QED
      BY <3>1, <3>2
  <2>6. lost = "none" /\ ~leftover => m = typed'
    BY <1>1, <1>2, <1>10, <2>2
  <2> HIDE DEF l, m
  <2> QED
    BY <1>2, <1>3, <1>4, <2>2, <2>4, <2>5, <2>6
<1> QED
  BY <1>7, <1>8, <1>9, <1>10

LEMMA TerminateKeepsBuffer ==
  ASSUME BufferInv, Terminate
  PROVE  BufferInv'
<1>1. /\ buffer' = EmptyBuffer /\ typed' = <<>> /\ leftover' \in BOOLEAN /\ lost' = "none"
      /\ firmware' \in {"V1", "V2"}
  BY DEF Terminate, AfterTerminator, BufferInv, TypeInv
<1>2. buffer'.line = <<>> /\ ~buffer'.over /\ Len(buffer'.line) < LineSize["V1"]
  BY <1>1, EmptyFollows
<1>3. Ends(buffer'.line, typed')
  BY <1>1, <1>2, EmptyFollows
<1>4. buffer' \in [line : Seq(Key), over : BOOLEAN] /\ typed' \in Seq(Key)
  BY <1>1, EmptyFollows
<1> QED
  BY <1>1, <1>2, <1>3, <1>4 DEF BufferInv, TypeInv, Lost

\* Half a line stays in the buffer: leftover says so from then on.
LEMMA ReconnectKeepsBuffer ==
  ASSUME BufferInv, Reconnect
  PROVE  BufferInv'
<1>1. /\ leftover' = (leftover \/ buffer # EmptyBuffer)
      /\ typed' = <<>> /\ lost' = "none" /\ UNCHANGED <<firmware, buffer>>
  BY DEF Reconnect
<1>2. /\ buffer \in [line : Seq(Key), over : BOOLEAN] /\ Len(buffer.line) \in Nat
      /\ <<>> \in Seq(Key) /\ Len(<<>>) = 0
  BY DEF BufferInv, TypeInv
<1>3. ~leftover' => buffer.line = <<>>
  <2>1. ASSUME buffer = EmptyBuffer
        PROVE  buffer.line = <<>>
    BY <2>1, EmptyFollows
  <2>2. ~leftover' => buffer = EmptyBuffer
    BY <1>1
  <2> QED
    BY <2>1, <2>2
<1>4. Ends(buffer.line, typed')
  BY <1>1, <1>2 DEF Ends
<1> QED
  BY <1>1, <1>2, <1>3, <1>4 DEF BufferInv, TypeInv, Lost

LEMMA BufferStep ==
  ASSUME BufferInv, [Next]_pathVars
  PROVE  BufferInv'
<1>1. CASE \E c \in Key : Type(c)
  <2>1. firmware \in {"V1", "V2"}
    BY DEF BufferInv, TypeInv
  <2> QED
    BY <1>1, <2>1, TypeV1KeepsBuffer, TypeV2KeepsBuffer
<1>2. CASE Terminate
  BY <1>2, TerminateKeepsBuffer
<1>3. CASE Reconnect
  BY <1>3, ReconnectKeepsBuffer
<1>4. CASE \/ \E i \in PacketByte, b \in Bit : Flip(i, b)
           \/ RemoteReceives \/ BaseReceives \/ UNCHANGED pathVars
  <2>1. UNCHANGED <<firmware, buffer, typed, leftover, lost>>
    BY <1>4 DEF Flip, RemoteReceives, BaseReceives, pathVars
  <2> QED
    BY <2>1 DEF BufferInv, TypeInv
<1>5. (Symbols[firmware] \cup Openers[firmware]) \subseteq Key
  BY DEF BufferInv, TypeInv, Key
<1> QED
  BY <1>1, <1>2, <1>3, <1>4, <1>5 DEF Next

\* What the buffer holds, with either firmware.
THEOREM BufferIsKnown == Spec => []BufferInv
<1> QED
  BY InitBuffer, BufferStep, PTL DEF Spec

\* BufferFollowsTyping, for every size of the buffers, any keys and lines of any
\* length, erased, over-long and interrupted: the line that a terminator runs is
\* the one the user sees, or V2 discards it, or V1 runs what fitted of it
\* (main.cpp:941-967, V1 main.c:799-819).
THEOREM BufferAlwaysFollows == Spec => []BufferFollowsTyping
<1>1. BufferInv => BufferFollowsTyping
  <2> SUFFICES ASSUME BufferInv
               PROVE  BufferFollowsTyping
    OBVIOUS
  <2>1. typed \in Seq(Key) /\ buffer.line \in Seq(Key)
    BY DEF BufferInv, TypeInv
  <2>2. ~buffer.over /\ lost = "none" => IsSuffix(typed, buffer.line)
    BY <2>1, EndsIsSuffix DEF BufferInv
  <2>3. lost = "tail" /\ ~leftover => IsStrictPrefix(buffer.line, typed)
    BY <2>1, BeginsIsPrefix DEF BufferInv
  <2> QED
    BY <2>2, <2>3 DEF BufferInv, BufferFollowsTyping
<1> QED
  BY <1>1, BufferIsKnown, PTL
=============================================================================
