------------------------- MODULE MCTacticalHistory -------------------------
(***************************************************************************)
(* Instances of TacticalHistory for TLC.                                   *)
(***************************************************************************)
EXTENDS TacticalHistory

Wheel2(l, r) == [w \in Wheels |-> IF w = "left" THEN l ELSE r]

\* Both ends of int16_t, a turn on the spot and a small order.
EdgeOrders == {Wheel2(-32768, 32767), Wheel2(15000, -15000), Wheel2(0, 7)}
=============================================================================
