---------------------------- MODULE CorePermute ----------------------------
(***************************************************************************)
(* The RUNCHROME_MODE build: experiment_init reads CORE_CONFIG with        *)
(* set_config, and the entry hook of every measured function pins the      *)
(* thread to cores drawn at random by set_affinity_permute; the exit hook  *)
(* gives it all cores back.  A draw of a core that is already in the mask  *)
(* is repeated.                                                            *)
(*                                                                         *)
(* CORE_CONFIG is the record of its two digits: "4l-2b" is [lil |-> 4,     *)
(* big |-> 2].  The time stack of the hooks is in FunctionHooks.           *)
(***************************************************************************)
EXTENDS Integers, FiniteSets

CONSTANTS Threads,      \* threads that run measured functions
          CoreConfigs,  \* values of CORE_CONFIG, each [lil, big]
          MaxDepth      \* bound on nested calls of measured functions

ASSUME CorePermuteAssumption ==
    /\ CoreConfigs \subseteq [lil : 0..9, big : 0..9]
    /\ MaxDepth \in Nat

VARIABLES
    core_config,        \* the environment variable
    experiment_config,  \* what set_config made of it
    pc,                 \* where each thread is in the entry hook ("run": nowhere)
    mask,               \* the mask it builds
    bigs,               \* big cores still to draw
    lils,               \* little cores still to draw
    depth,              \* measured calls each thread is in
    affinity            \* cores each thread may run on

env   == <<core_config, experiment_config>>
local == <<pc, mask, bigs, lils>>
vars  == <<env, local, depth, affinity>>
-----------------------------------------------------------------------------
Littles == 0..3
Bigs    == 4..7
Cores   == Littles \cup Bigs

\* set_config: config[0] counts the big cores and config[3] the little ones; a
\* digit above 4 is reported on stderr and used all the same.
ConfigOf(cc) == [nbigs |-> cc.lil, nlils |-> cc.big]

TypeOK ==
    /\ core_config \in CoreConfigs
    /\ experiment_config \in [nbigs : 0..9, nlils : 0..9]
    /\ pc \in [Threads -> {"run", "bigs", "lils"}]
    /\ mask \in [Threads -> SUBSET Cores]
    /\ bigs \in [Threads -> 0..9]
    /\ lils \in [Threads -> 0..9]
    /\ depth \in [Threads -> 0..MaxDepth]
    /\ affinity \in [Threads -> (SUBSET Cores) \ {{}}]

\* experiment_init has run before the functions of the process.
Init ==
    /\ core_config \in CoreConfigs
    /\ experiment_config = ConfigOf(core_config)
    /\ pc = [t \in Threads |-> "run"]
    /\ mask = [t \in Threads |-> {}]
    /\ bigs = [t \in Threads |-> 0]
    /\ lils = [t \in Threads |-> 0]
    /\ depth = [t \in Threads |-> 0]
    /\ affinity = [t \in Threads |-> Cores]
-----------------------------------------------------------------------------
(* experiment_fentry and set_affinity_permute *)

Enter(t) ==
    /\ pc[t] = "run"
    /\ depth[t] < MaxDepth
    /\ mask' = [mask EXCEPT ![t] = {}]
    /\ bigs' = [bigs EXCEPT ![t] = experiment_config.nbigs]
    /\ lils' = [lils EXCEPT ![t] = experiment_config.nlils]
    /\ pc' = [pc EXCEPT ![t] = "bigs"]
    /\ UNCHANGED <<env, depth, affinity>>

\* Mutant: no CPU_ISSET, so a core drawn twice is counted twice.
DrawBigTwice(t, c) ==
    /\ pc[t] = "bigs"
    /\ bigs[t] > 0
    /\ mask' = [mask EXCEPT ![t] = @ \cup {c}]
    /\ bigs' = [bigs EXCEPT ![t] = @ - 1]
    /\ UNCHANGED <<env, pc, lils, depth, affinity>>

\* Mutant: the counter is not decremented.
DrawBigNoCount(t, c) ==
    /\ pc[t] = "bigs"
    /\ bigs[t] > 0
    /\ c \notin mask[t]
    /\ mask' = [mask EXCEPT ![t] = @ \cup {c}]
    /\ UNCHANGED <<env, pc, bigs, lils, depth, affinity>>

\* Mutant: the loop runs once too often (bigs >= 0).
DrawBigOneMore(t, c) ==
    /\ pc[t] = "bigs"
    /\ c \notin mask[t]
    /\ mask' = [mask EXCEPT ![t] = @ \cup {c}]
    /\ bigs' = [bigs EXCEPT ![t] = @ - 1]
    /\ UNCHANGED <<env, pc, lils, depth, affinity>>

DrawBig(t, c) ==
    /\ pc[t] = "bigs"
    /\ bigs[t] > 0
    /\ c \notin mask[t]
    /\ mask' = [mask EXCEPT ![t] = @ \cup {c}]
    /\ bigs' = [bigs EXCEPT ![t] = @ - 1]
    /\ UNCHANGED <<env, pc, lils, depth, affinity>>

DrawLittle(t, c) ==
    /\ pc[t] = "lils"
    /\ lils[t] > 0
    /\ c \notin mask[t]
    /\ mask' = [mask EXCEPT ![t] = @ \cup {c}]
    /\ lils' = [lils EXCEPT ![t] = @ - 1]
    /\ UNCHANGED <<env, pc, bigs, depth, affinity>>

\* CPU_ISSET: `continue', nothing has changed.
Redraw(t, c) ==
    /\ \/ pc[t] = "bigs" /\ bigs[t] > 0 /\ c \in Bigs
       \/ pc[t] = "lils" /\ lils[t] > 0 /\ c \in Littles
    /\ c \in mask[t]
    /\ UNCHANGED vars

EndBigs(t) ==
    /\ pc[t] = "bigs"
    /\ bigs[t] <= 0
    /\ pc' = [pc EXCEPT ![t] = "lils"]
    /\ UNCHANGED <<env, mask, bigs, lils, depth, affinity>>

\* sched_setaffinity, which refuses an empty mask; the real function runs.
Pin(t) ==
    /\ pc[t] = "lils"
    /\ lils[t] <= 0
    /\ affinity' = IF mask[t] = {} THEN affinity
                                   ELSE [affinity EXCEPT ![t] = mask[t]]
    /\ pc' = [pc EXCEPT ![t] = "run"]
    /\ depth' = [depth EXCEPT ![t] = @ + 1]
    /\ mask' = [mask EXCEPT ![t] = {}]
    /\ UNCHANGED <<env, bigs, lils>>
-----------------------------------------------------------------------------
\* experiment_fexit: set_affinity_all
Leave(t) ==
    /\ pc[t] = "run"
    /\ depth[t] > 0
    /\ affinity' = [affinity EXCEPT ![t] = Cores]
    /\ depth' = [depth EXCEPT ![t] = @ - 1]
    /\ UNCHANGED <<env, local>>
-----------------------------------------------------------------------------
Draw(t) == \/ \E c \in Bigs : DrawBig(t, c)
           \/ \E c \in Littles : DrawLittle(t, c)

Next == \E t \in Threads : \/ Enter(t) \/ Draw(t) \/ EndBigs(t) \/ Pin(t) \/ Leave(t)
                           \/ \E c \in Cores : Redraw(t, c)

Spec == Init /\ [][Next]_vars

\* dist is uniform: a core that is not in the mask is drawn some time.
FairSpec == Spec /\ \A t \in Threads : WF_vars(Draw(t) \/ EndBigs(t) \/ Pin(t))
-----------------------------------------------------------------------------
(* The draws amount to one choice among all sets with the configured numbers of *)
(* cores: no set outside them is ever pinned, nested calls included.            *)
Choice == INSTANCE CoreChoice WITH config <- experiment_config

PicksConfigured == Choice!Spec

Valid == experiment_config.nbigs <= 4 /\ experiment_config.nlils <= 4

(* Every entry hook ends when the configuration is possible ...                 *)
EntryReturns == \A t \in Threads : Valid /\ pc[t] # "run" ~> pc[t] = "run"

(* ... and with an impossible one, which set_config reports and accepts, the    *)
(* first measured function a thread calls never starts.                         *)
InvalidHangs == ~Valid => \A t \in Threads : depth[t] = 0

(* The half-drawn mask: what is drawn and what is still to draw add up to the   *)
(* configuration, so the loops stop exactly at the configured numbers.          *)
DrawnAndLeft ==
    \A t \in Threads : pc[t] # "run" =>
        /\ Cardinality(mask[t] \cap Bigs) + bigs[t] = experiment_config.nbigs
        /\ Cardinality(mask[t] \cap Littles) + lils[t] = experiment_config.nlils

\* A hook that is being entered: the first loop is done before the second, and
\* the call fits below the bound.
Entering ==
    \A t \in Threads : /\ pc[t] = "lils" => bigs[t] = 0
                       /\ pc[t] # "run" => depth[t] < MaxDepth

IInv == TypeOK /\ DrawnAndLeft /\ Entering /\ InvalidHangs
-----------------------------------------------------------------------------
(* The comment of set_config ("config is in form '4l-4b'"): the digit before    *)
(* the l is the number of little cores, the digit before the b that of big ones. *)
(* set_config reads them crosswise: with 0l-1b a call runs on one little core.  *)
NamedCores ==
    \A t \in Threads : affinity[t] # Cores =>
        /\ Cardinality(affinity[t] \cap Littles) = core_config.lil
        /\ Cardinality(affinity[t] \cap Bigs) = core_config.big
=============================================================================
