--------------------------- MODULE MCMaskRefresh ---------------------------
(* Constants of MaskRefresh for TLC. *)
EXTENDS MaskRefresh

CONSTANTS f1, f2

\* Both functions in one set, and one set each.
OneSet  == [f \in Functions |-> 1]
TwoSets == [f \in Functions |-> IF f = f1 THEN 1 ELSE 2]
=============================================================================
