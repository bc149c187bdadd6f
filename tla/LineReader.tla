----------------------------- MODULE LineReader -----------------------------
(***************************************************************************)
(* The console line readers and what they make of a line: poll_usb_lines() *)
(* and tokenize() of src/Pico2_V2_RF/src/main.cpp, poll_usb_commands() and *)
(* process_command_line() of src/Pico2_V1_RF/src/main.c.                   *)
(*                                                                         *)
(* A line is a sequence of symbols.  A verb or one digit is one symbol,    *)
(* and so is the erase key; which capitals a verb was typed in is not      *)
(* modelled.                                                               *)
(***************************************************************************)
EXTENDS Integers, Sequences, SequencesExt, FiniteSetsExt

CONSTANT LineSize        \* sizeof(line), for each firmware

Blank == " "
Erase == "erase"
Minus == "-"
Digit == [d \in {"0", "1"} |-> IF d = "0" THEN 0 ELSE 1]

\* Room for one character and the zero behind it (the code has 64).
ASSUME LineAssumption == LineSize \in [{"V1", "V2"} -> Nat \ {0, 1}]

-----------------------------------------------------------------------------
\* Readers: what a symbol does to the buffer.  over is V2's overflow; V1 has
\* no such flag, it drops what does not fit.

CollectV2Cutting(b, c) ==               \* mutant: over-long lines are cut, not discarded
  IF Len(b.line) + 1 < LineSize["V2"] THEN [b EXCEPT !.line = Append(@, c)] ELSE b

CollectV2(b, c) ==
  IF b.over THEN b
  ELSE IF Len(b.line) + 1 < LineSize["V2"] THEN [b EXCEPT !.line = Append(@, c)]
  ELSE [b EXCEPT !.over = TRUE]

CollectV1(b, c) ==
  IF c = Erase THEN (IF b.line = <<>> THEN b ELSE [b EXCEPT !.line = Front(@)])
  ELSE IF Len(b.line) < LineSize["V1"] - 1 THEN [b EXCEPT !.line = Append(@, c)]
  ELSE b

EmptyBuffer == [line |-> <<>>, over |-> FALSE]

AfterTerminatorKept(b) ==               \* mutant: an over-long line is not emptied
  IF b.over THEN [b EXCEPT !.over = FALSE] ELSE EmptyBuffer

\* '\r' or '\n', both readers.
AfterTerminator(b) == EmptyBuffer

-----------------------------------------------------------------------------
\* V2: tokenize(), at most max words; what follows the last one is dropped.

TokenStep(t, c, max) ==
  IF c = Blank THEN [t EXCEPT !.inside = FALSE]
  ELSE IF t.inside
    THEN [t EXCEPT !.token = Append(Front(@), Append(Last(@), c))]
  ELSE IF Len(t.token) < max
    THEN [t EXCEPT !.token = Append(@, <<c>>), !.inside = TRUE]
  ELSE t

Tokenize(line, max) ==
  FoldLeft(LAMBDA t, c : TokenStep(t, c, max),
           [token |-> <<>>, inside |-> FALSE], line).token

\* strtol() of a word that has to be a number to its end.
Digits(word) == IF word # <<>> /\ word[1] = Minus THEN Tail(word) ELSE word
IsNumber(word) ==
  Digits(word) # <<>> /\ \A i \in DOMAIN Digits(word) : Digits(word)[i] \in DOMAIN Digit
NumberOf(word) ==
  LET size == FoldLeft(LAMBDA n, d : 10 * n + Digit[d], 0, Digits(word))
  IN  IF word[1] = Minus THEN -size ELSE size

ParseIn(word, S) == IsNumber(word) /\ NumberOf(word) \in S

Velocities == -32768 .. 32767
Levels     == 0 .. 3
TlmRates   == 1 .. 1000

Ignored == [verb |-> "ignored", args |-> <<>>]
Error   == [verb |-> "err", args |-> <<>>]
Order(verb, args) == [verb |-> verb, args |-> args]

MaxTokensThree == 3                     \* mutant: no room for a word too many

\* token[4]: one more than any verb takes, which is enough to refuse a longer
\* list of arguments.
MaxTokens == 4

\* The outcome of a line on the base (stop stands for the verbs without
\* arguments, whose further words are not looked at; setbpa for setwpa too).
ProcessV2(line) ==
  LET token == Tokenize(line, MaxTokens)
      count == Len(token)
  IN  IF count = 0 \/ (count > 0 /\ token[1][1] = "*") THEN Ignored
      ELSE CASE token[1] = <<"stop">> -> Order("stop", <<>>)
             [] token[1] = <<"move">> ->
                  IF count # 3 \/ ~ParseIn(token[2], Velocities) \/ ~ParseIn(token[3], Velocities)
                    THEN Error
                    ELSE Order("move", <<NumberOf(token[2]), NumberOf(token[3])>>)
             [] token[1] = <<"tlm">> ->
                  IF count # 2 \/ ~ParseIn(token[2], TlmRates) THEN Error
                  ELSE Order("tlm", <<NumberOf(token[2])>>)
             [] token[1] = <<"setbpa">> ->
                  IF count # 2 \/ ~ParseIn(token[2], Levels) THEN Error
                  ELSE Order("setbpa", <<NumberOf(token[2])>>)
             [] OTHER -> Error

-----------------------------------------------------------------------------
\* V1: strcmp() and sscanf("%d %c") == 1, that is one number with nothing but
\* blanks around it.

BlankAround(rest) ==
  SelectSeq(rest, LAMBDA c : c # Blank)

OneNumber(rest) ==
  LET word == BlankAround(rest)
  IN  /\ IsNumber(word)
      /\ \A i, j, k \in DOMAIN rest :
           i < j /\ j < k /\ rest[i] # Blank /\ rest[k] # Blank => rest[j] # Blank

Moves == -127 .. 127

ProcessV1(line) ==
  IF line \in {<<"stop">>, <<"getstat">>} THEN Order(line[1], <<0>>)
  ELSE IF Len(line) >= 2 /\ line[1] = "move" /\ line[2] = Blank
    THEN LET rest == SubSeq(line, 3, Len(line))
         IN  IF OneNumber(rest) /\ NumberOf(BlankAround(rest)) \in Moves
               THEN Order("move", <<NumberOf(BlankAround(rest))>>)
               ELSE Error
  ELSE Error
=============================================================================
