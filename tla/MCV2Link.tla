------------------------------ MODULE MCV2Link ------------------------------
(***************************************************************************)
(* Instances of V2Link for TLC.                                            *)
(***************************************************************************)
EXTENDS V2Link

Wheel2(l, r) == [w \in Wheels |-> IF w = "left" THEN l ELSE r]
OneOrder == {Wheel2(3, 3)}

Header(kind) == [kind |-> kind]

VersionQuery == {Header("getver")}
ArmOnly      == {Header("arm")}
StopLine     == {Header("stop")}
=============================================================================
