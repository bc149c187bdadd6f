--------------------------- MODULE MCTacticalCore ---------------------------
(***************************************************************************)
(* Instances of TacticalCore for TLC.                                      *)
(***************************************************************************)
EXTENDS TacticalCore

Wheel2(l, r) == [w \in Wheels |-> IF w = "left" THEN l ELSE r]

\* One order in mm/s as a driver would give it.
DriverOrders == {Wheel2(300, -200)}
=============================================================================
