------------------------- MODULE MCEventableObject -------------------------
(* Two events for TLC: one runs once, at the next update, and never in the *)
(* world's thread; the other runs at every second update, wherever it is.  *)
EXTENDS EventableObject

CONSTANTS e1, e2

MCEvents == {e1, e2}
MCFlagged == {e1}
MCMsTime == [e \in MCEvents |-> IF e = e1 THEN 1 ELSE 2]
=============================================================================
