----------------------------- MODULE CoreChoice -----------------------------
(***************************************************************************)
(* What the hooks of the RUNCHROME_MODE build promise: on entry a thread   *)
(* is pinned, in one step, to some choice of cores with the configured     *)
(* number of each kind, and on exit it may run on every core again.        *)
(***************************************************************************)
EXTENDS Naturals, FiniteSets

CONSTANTS Threads,  \* threads that run measured functions
          Bigs,     \* the big cores
          Littles   \* the little cores

VARIABLES config,   \* how many cores of each kind a measured call gets
          depth,    \* measured calls each thread is in
          affinity  \* cores each thread may run on

vars == <<config, depth, affinity>>

Choices == {S \in SUBSET (Bigs \cup Littles) :
                /\ Cardinality(S \cap Bigs) = config.nbigs
                /\ Cardinality(S \cap Littles) = config.nlils}

Init == /\ depth = [t \in Threads |-> 0]
        /\ affinity = [t \in Threads |-> Bigs \cup Littles]

\* The kernel refuses the empty choice.
Enter(t) == /\ \E S \in Choices : affinity' =
                  IF S = {} THEN affinity ELSE [affinity EXCEPT ![t] = S]
            /\ depth' = [depth EXCEPT ![t] = @ + 1]
            /\ UNCHANGED config

Leave(t) == /\ depth[t] > 0
            /\ affinity' = [affinity EXCEPT ![t] = Bigs \cup Littles]
            /\ depth' = [depth EXCEPT ![t] = @ - 1]
            /\ UNCHANGED config

Next == \E t \in Threads : Enter(t) \/ Leave(t)

Spec == Init /\ [][Next]_vars
=============================================================================
