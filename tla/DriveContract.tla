--------------------------- MODULE DriveContract ---------------------------
(***************************************************************************)
(* What the rest of the vehicle may rely on about the pair of wheel        *)
(* targets, whatever sequence of commands, silences and faults occurs.     *)
(* It is the promise made by the outputs of class TacticalCore (motors     *)
(* enabled, target_left, target_right in tactical.h), with none of its     *)
(* clocks or internal orders:                                              *)
(*   - stopped wheels have zero targets and enabling them does not move;   *)
(*   - only a commander's order makes a target grow or change direction;   *)
(*   - without a commander the targets only shrink towards zero.           *)
(***************************************************************************)
EXTENDS Integers

CONSTANT Orders    \* the velocity orders a commander may give

VARIABLES mode,    \* "stopped", "driving" (orders obeyed) or "coasting"
          out      \* the target of each wheel

contractVars == <<mode, out>>

Wheels == {"left", "right"}
Halt   == [w \in Wheels |-> 0]

\* The values between v and zero: what a target v may have become while
\* nobody commands it.
Shrunk(v) == IF v >= 0 THEN 0 .. v ELSE v .. 0

Init == mode = "stopped" /\ out = Halt

\* Enabling the motors leaves the wheels at rest.
Enable == /\ mode = "stopped"
          /\ mode' = "driving"
          /\ out' = Halt

\* A fresh order is obeyed; it is also the only way out of coasting forward.
Steer(o) == /\ mode \in {"driving", "coasting"}
            /\ mode' = "driving"
            /\ out' = o

\* Losing the commander changes no target by itself.
Lose == /\ mode = "driving"
        /\ mode' = "coasting"
        /\ UNCHANGED out

\* While coasting every target stays between its value and zero.
Coast == /\ mode = "coasting"
         /\ \A w \in Wheels : out'[w] \in Shrunk(out[w])
         /\ out' = [w \in Wheels |-> out'[w]]
         /\ UNCHANGED mode

\* A stop or a fault cuts both targets at once.
Cut == mode' = "stopped" /\ out' = Halt

Next == Enable \/ (\E o \in Orders : Steer(o)) \/ Lose \/ Coast \/ Cut

Spec == Init /\ [][Next]_contractVars
=============================================================================
