---------------------------- MODULE MCCommandPath ----------------------------
(***************************************************************************)
(* Instances of CommandPath for TLC.  The V2 buffer holds nine symbols,    *)
(* enough for a verb with four arguments; the V1 buffer four.              *)
(***************************************************************************)
EXTENDS CommandPath

OfV(v1, v2) == [f \in {"V1", "V2"} |-> IF f = "V1" THEN v1 ELSE v2]

SmallBuffers  == OfV(5, 10)
Keys          == OfV({"move", "1", "-", " ", "erase"}, {"move", "1", " "})
FirstKeys     == OfV({"stop", "getstat"}, {"stop", "*", "tlm", "setbpa"})
LongestTyped  == OfV(7, 10)
=============================================================================
