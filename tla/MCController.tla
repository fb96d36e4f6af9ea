---------------------------- MODULE MCController ----------------------------
(* Constants of Controller for TLC: two sets as in the script, a set that shares a *)
(* function with the first, and a set without functions.                          *)
EXTENDS Controller

CONSTANTS bigToAll, littleToAll, other, empty, layout, css

EntryConfigs == [s \in FunctionSets |-> IF s = bigToAll THEN <<0, 1>> ELSE <<4, 0>>]
ExitConfigs  == [s \in FunctionSets |-> <<4, 4>>]
FunctionsOf  == [s \in FunctionSets |-> CASE s = bigToAll -> {layout}
                                          [] s = littleToAll -> {css}
                                          [] s = other -> {layout, css}
                                          [] s = empty -> {}]
Lengths      == [f \in {layout, css} |-> IF f = layout THEN 13 ELSE 10]

AddSetArguments == {<<littleToAll, bigToAll>>, <<littleToAll, other>>, <<empty>>}

\* What an experiment with one set of two functions left behind.
LeftoverFiles == {(0 :> Number(1)) @@ (2 :> Mask(Big)) @@ (11 :> Mask({0, 5}))
                  @@ (20 :> Number(2)) @@ (22 :> Name(layout)) @@ (36 :> Name(css))}
=============================================================================
