--------------------------- MODULE MCBackPressure ----------------------------
(***************************************************************************)
(* Six frames among three relays.  Ring: each pair of frames starts at     *)
(* another relay and goes round the same way, so that the links can wait   *)
(* for each other.  Crossing: two flows through each other's relay to a    *)
(* third one, which cannot.                                                *)
(***************************************************************************)
EXTENDS BackPressure

CONSTANTS a, b, c, f1, f2, f3, f4, f5, f6

Ring == [f \in Frames |-> CASE f \in {f1, f2} -> <<a, b, c>>
                            [] f \in {f3, f4} -> <<b, c, a>>
                            [] OTHER          -> <<c, a, b>>]

Crossing == [f \in Frames |-> IF f \in {f1, f2, f3} THEN <<a, b, c>> ELSE <<b, a, c>>]

MCCircuits == {Ring, Crossing}
==============================================================================
