--------------------------- MODULE MCCorePermute ---------------------------
(* Values of CORE_CONFIG for TLC: the list of permutate.sh, and two that are  *)
(* impossible, one for each loop.                                             *)
EXTENDS CorePermute

Listed   == {[lil |-> 4, big |-> 0], [lil |-> 4, big |-> 4], [lil |-> 0, big |-> 4],
             [lil |-> 4, big |-> 1], [lil |-> 4, big |-> 2], [lil |-> 2, big |-> 0],
             [lil |-> 1, big |-> 0], [lil |-> 0, big |-> 1], [lil |-> 0, big |-> 2]}
Possible == Listed \cup {[lil |-> 0, big |-> 0], [lil |-> 2, big |-> 3]}
Impossible == {[lil |-> 5, big |-> 0], [lil |-> 1, big |-> 6]}

AnyConfig == Possible \cup Impossible
=============================================================================
