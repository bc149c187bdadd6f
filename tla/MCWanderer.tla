----------------------------- MODULE MCWanderer -----------------------------
(***************************************************************************)
(* Instances of Wanderer for TLC.                                          *)
(***************************************************************************)
EXTENDS Wanderer

Wheel2(l, r) == [w \in Wheels |-> IF w = "left" THEN l ELSE r]
Ahead == Wheel2(3, 3)

OneOrder == {Ahead}

Header(kind) == [kind |-> kind]
MoveAhead    == [kind |-> "move", order |-> Ahead]
SetPa(level) == [kind |-> "setpa", level |-> level]

\* One frame of each behaviour: a malformed frame does what a NOP does, all
\* header queries queue one reply, and level 7 is refused.
RadioFrames == {Header(k) : k \in {"bad", "arm", "stop", "getstat"}}
                 \cup {MoveAhead, SetPa(2), SetPa(7)}

\* Polls and a query, for the run about the order of payloads.
QueryFrames == {Header("nop"), Header("getver")}

ConsoleLines == {Header("arm"), Header("stop"), MoveAhead, SetPa(2)}
NoLines == {}
=============================================================================
