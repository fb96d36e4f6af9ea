------------------------- MODULE CorePermuteProofs -------------------------
(***************************************************************************)
(* For every set of threads, every list of configurations and every depth  *)
(* of nesting: the draws of set_affinity_permute add up to the configured  *)
(* numbers, an impossible configuration never lets a call start, and the   *)
(* loop implements the one-step choice of CoreChoice.                      *)
(***************************************************************************)
EXTENDS CorePermute, FiniteSetTheorems, TLAPS

USE CorePermuteAssumption

(* The cores of each kind are finite sets of four, and no core is of both kinds. *)
LEMMA Clusters ==
    /\ IsFiniteSet(Bigs) /\ Cardinality(Bigs) = 4
    /\ IsFiniteSet(Littles) /\ Cardinality(Littles) = 4
    /\ Bigs \cap Littles = {}
    /\ Cores = Bigs \cup Littles
<1>0. 0 \in Int /\ 3 \in Int /\ 4 \in Int /\ 7 \in Int
  BY SMT
<1>1. IsFiniteSet(4..7) /\ Cardinality(4..7) = 4
  <2>1. IsFiniteSet(4..7) /\ Cardinality(4..7) = IF 4 > 7 THEN 0 ELSE 7 - 4 + 1
    BY <1>0, FS_Interval, Zenon
  <2> QED
    BY <2>1, SMT
<1>2. IsFiniteSet(0..3) /\ Cardinality(0..3) = 4
  <2>1. IsFiniteSet(0..3) /\ Cardinality(0..3) = IF 0 > 3 THEN 0 ELSE 3 - 0 + 1
    BY <1>0, FS_Interval, Zenon
  <2> QED
    BY <2>1, SMT
<1>3. (4..7) \cap (0..3) = {}
  BY SMT
<1> QED
  BY <1>1, <1>2, <1>3 DEF Bigs, Littles, Cores

(* The cores of one kind in a mask: at most four, and drawing a new one adds one. *)
LEMMA DrawnCores ==
    ASSUME NEW K, K \in {Bigs, Littles}, NEW M
    PROVE  /\ Cardinality(M \cap K) \in Nat
           /\ Cardinality(M \cap K) <= 4
           /\ \A c \in K : c \notin M =>
                 Cardinality((M \cup {c}) \cap K) = Cardinality(M \cap K) + 1
           /\ \A c : c \notin K => (M \cup {c}) \cap K = M \cap K
<1>1. IsFiniteSet(K) /\ Cardinality(K) = 4
  BY Clusters
<1>2. M \cap K \in SUBSET K
  OBVIOUS
<1>3. IsFiniteSet(M \cap K) /\ Cardinality(M \cap K) <= 4
  BY <1>1, <1>2, FS_Subset
<1>4. Cardinality(M \cap K) \in Nat
  BY <1>3, FS_CardinalityType
<1>5. ASSUME NEW c \in K, c \notin M
      PROVE  Cardinality((M \cup {c}) \cap K) = Cardinality(M \cap K) + 1
  <2>1. (M \cup {c}) \cap K = (M \cap K) \cup {c}
    BY <1>5
  <2>2. c \notin M \cap K
    BY <1>5
  <2> QED
    BY <2>1, <2>2, <1>3, FS_AddElement
<1> QED
  BY <1>3, <1>4, <1>5

(* At first no thread is in a hook. *)
LEMMA InitInv == Init => IInv
<1> SUFFICES ASSUME Init PROVE IInv
  OBVIOUS
<1>1. Cores # {}
  BY SMT DEF Cores, Bigs, Littles
<1>2. experiment_config \in [nbigs : 0..9, nlils : 0..9]
  BY SMT DEF Init, ConfigOf
<1>3. TypeOK
  BY <1>1, <1>2, SMT DEF Init, TypeOK
<1>4. DrawnAndLeft /\ Entering /\ InvalidHangs
  BY DEF Init, DrawnAndLeft, Entering, InvalidHangs
<1> QED
  BY <1>3, <1>4 DEF IInv

(* Every step keeps the types. *)
LEMMA TypeStep == IInv /\ [Next]_vars => TypeOK'
<1> SUFFICES ASSUME IInv, [Next]_vars PROVE TypeOK'
  OBVIOUS
<1> USE DEF IInv, TypeOK, Entering, env, local
<1>0. CASE UNCHANGED vars
  BY <1>0 DEF vars
<1>1. ASSUME NEW t \in Threads, Enter(t) PROVE TypeOK'
  BY <1>1, SMT DEF Enter
<1>2. ASSUME NEW t \in Threads, NEW c \in Bigs, DrawBig(t, c) PROVE TypeOK'
  BY <1>2, SMT DEF DrawBig, Cores
<1>3. ASSUME NEW t \in Threads, NEW c \in Littles, DrawLittle(t, c) PROVE TypeOK'
  BY <1>3, SMT DEF DrawLittle, Cores
<1>4. ASSUME NEW t \in Threads, EndBigs(t) PROVE TypeOK'
  BY <1>4, SMT DEF EndBigs
<1>5. ASSUME NEW t \in Threads, Pin(t) PROVE TypeOK'
  BY <1>5, SMT DEF Pin
<1>6. ASSUME NEW t \in Threads, Leave(t) PROVE TypeOK'
  BY <1>6, Clusters, SMT DEF Leave, Cores, Bigs, Littles
<1>7. ASSUME NEW t \in Threads, NEW c \in Cores, Redraw(t, c) PROVE TypeOK'
  BY <1>7 DEF Redraw, vars
<1> QED
  BY <1>0, <1>1, <1>2, <1>3, <1>4, <1>5, <1>6, <1>7 DEF Next, Draw

(* What the sums and the loops say of one thread. *)
Sums(t) == pc[t] # "run" =>
    /\ Cardinality(mask[t] \cap Bigs) + bigs[t] = experiment_config.nbigs
    /\ Cardinality(mask[t] \cap Littles) + lils[t] = experiment_config.nlils

(* A thread that does not move keeps its sums. *)
LEMMA SumsFrame ==
    ASSUME NEW u, Sums(u), pc'[u] = pc[u], mask'[u] = mask[u], bigs'[u] = bigs[u],
           lils'[u] = lils[u], experiment_config' = experiment_config
    PROVE  Sums(u)'
BY DEF Sums

(* Every step keeps the sums of drawn and undrawn cores. *)
LEMMA DrawStep == IInv /\ [Next]_vars => DrawnAndLeft'
<1> SUFFICES ASSUME IInv, [Next]_vars, NEW u \in Threads PROVE Sums(u)'
  BY DEF DrawnAndLeft, Sums
<1>s. Sums(u)
  BY DEF IInv, DrawnAndLeft, Sums
<1>t. /\ pc \in [Threads -> {"run", "bigs", "lils"}]
      /\ mask \in [Threads -> SUBSET Cores]
      /\ bigs \in [Threads -> 0..9]
      /\ lils \in [Threads -> 0..9]
      /\ experiment_config.nbigs \in 0..9
      /\ experiment_config.nlils \in 0..9
  BY DEF IInv, TypeOK
<1>0. CASE UNCHANGED vars
  BY <1>0, <1>s, SumsFrame DEF vars, env, local
<1>1. ASSUME NEW t \in Threads, Enter(t) PROVE Sums(u)'
  <2>1. CASE u # t
    BY <1>1, <2>1, <1>s, <1>t, SumsFrame DEF Enter, env
  <2>2. CASE u = t
    <3>1. Cardinality({} \cap Bigs) = 0 /\ Cardinality({} \cap Littles) = 0
      BY FS_EmptySet
    <3>2. /\ mask'[u] = {}
          /\ bigs'[u] = experiment_config.nbigs
          /\ lils'[u] = experiment_config.nlils
          /\ experiment_config' = experiment_config
      BY <1>1, <2>2, <1>t DEF Enter, env
    <3>3. /\ 0 + experiment_config.nbigs = experiment_config.nbigs
          /\ 0 + experiment_config.nlils = experiment_config.nlils
      BY <1>t, SMT
    <3> QED
      BY <3>1, <3>2, <3>3 DEF Sums
  <2> QED
    BY <2>1, <2>2
<1>2. ASSUME NEW t \in Threads, NEW c \in Bigs, DrawBig(t, c) PROVE Sums(u)'
  <2>1. CASE u # t
    BY <1>2, <2>1, <1>s, <1>t, SumsFrame DEF DrawBig, env
  <2>2. CASE u = t
    <3>1. /\ mask'[u] = mask[u] \cup {c}
          /\ bigs'[u] = bigs[u] - 1
          /\ lils'[u] = lils[u]
          /\ experiment_config' = experiment_config
          /\ pc[u] # "run"
          /\ c \notin mask[u]
      BY <1>2, <2>2, <1>t DEF DrawBig, env
    <3>2. (mask[u] \cup {c}) \cap Littles = mask[u] \cap Littles
      BY Clusters
    <3>3. /\ Cardinality(mask[u] \cap Bigs) \in Nat
          /\ Cardinality((mask[u] \cup {c}) \cap Bigs) = Cardinality(mask[u] \cap Bigs) + 1
      BY <3>1, DrawnCores
    <3>4. bigs[u] \in Int
      BY <1>t, SMT
    <3>5. Cardinality(mask'[u] \cap Bigs) + bigs'[u]
             = Cardinality(mask[u] \cap Bigs) + bigs[u]
      BY <3>1, <3>3, <3>4, SMT
    <3> QED
      BY <3>1, <3>2, <3>5, <1>s DEF Sums
  <2> QED
    BY <2>1, <2>2
<1>3. ASSUME NEW t \in Threads, NEW c \in Littles, DrawLittle(t, c) PROVE Sums(u)'
  <2>1. CASE u # t
    BY <1>3, <2>1, <1>s, <1>t, SumsFrame DEF DrawLittle, env
  <2>2. CASE u = t
    <3>1. /\ mask'[u] = mask[u] \cup {c}
          /\ lils'[u] = lils[u] - 1
          /\ bigs'[u] = bigs[u]
          /\ experiment_config' = experiment_config
          /\ pc[u] # "run"
          /\ c \notin mask[u]
      BY <1>3, <2>2, <1>t DEF DrawLittle, env
    <3>2. (mask[u] \cup {c}) \cap Bigs = mask[u] \cap Bigs
      BY Clusters
    <3>3. /\ Cardinality(mask[u] \cap Littles) \in Nat
          /\ Cardinality((mask[u] \cup {c}) \cap Littles)
                = Cardinality(mask[u] \cap Littles) + 1
      BY <3>1, DrawnCores
    <3>4. lils[u] \in Int
      BY <1>t, SMT
    <3>5. Cardinality(mask'[u] \cap Littles) + lils'[u]
             = Cardinality(mask[u] \cap Littles) + lils[u]
      BY <3>1, <3>3, <3>4, SMT
    <3> QED
      BY <3>1, <3>2, <3>5, <1>s DEF Sums
  <2> QED
    BY <2>1, <2>2
<1>4. ASSUME NEW t \in Threads, EndBigs(t) PROVE Sums(u)'
  <2>1. CASE u # t
    BY <1>4, <2>1, <1>s, <1>t, SumsFrame DEF EndBigs, env
  <2>2. CASE u = t
    BY <1>4, <2>2, <1>s, <1>t DEF EndBigs, env, Sums
  <2> QED
    BY <2>1, <2>2
<1>5. ASSUME NEW t \in Threads, Pin(t) PROVE Sums(u)'
  <2>1. CASE u # t
    BY <1>5, <2>1, <1>s, <1>t, SumsFrame DEF Pin, env
  <2>2. CASE u = t
    BY <1>5, <2>2, <1>t DEF Pin, Sums
  <2> QED
    BY <2>1, <2>2
<1>6. ASSUME NEW t \in Threads, Leave(t) PROVE Sums(u)'
  BY <1>6, <1>s, SumsFrame DEF Leave, env, local
<1>7. ASSUME NEW t \in Threads, NEW c \in Cores, Redraw(t, c) PROVE Sums(u)'
  BY <1>7, <1>s, SumsFrame DEF Redraw, vars, env, local
<1> QED
  BY <1>0, <1>1, <1>2, <1>3, <1>4, <1>5, <1>6, <1>7 DEF Next, Draw

(* Every step keeps the order of the two loops, and calls below the bound. *)
LEMMA LoopStep == IInv /\ [Next]_vars => Entering'
<1> SUFFICES ASSUME IInv, [Next]_vars PROVE Entering'
  OBVIOUS
<1> USE DEF IInv, TypeOK, Entering, env, local
<1>0. CASE UNCHANGED vars
  BY <1>0 DEF vars
<1>1. ASSUME NEW t \in Threads, Enter(t) PROVE Entering'
  BY <1>1, SMT DEF Enter
<1>2. ASSUME NEW t \in Threads, Draw(t) PROVE Entering'
  BY <1>2, SMT DEF Draw, DrawBig, DrawLittle
<1>3. ASSUME NEW t \in Threads, EndBigs(t) PROVE Entering'
  BY <1>3, SMT DEF EndBigs
<1>4. ASSUME NEW t \in Threads, Pin(t) PROVE Entering'
  BY <1>4, SMT DEF Pin
<1>5. ASSUME NEW t \in Threads, Leave(t) PROVE Entering'
  BY <1>5, SMT DEF Leave
<1>6. ASSUME NEW t \in Threads, NEW c \in Cores, Redraw(t, c) PROVE Entering'
  BY <1>6 DEF Redraw, vars
<1> QED
  BY <1>0, <1>1, <1>2, <1>3, <1>4, <1>5, <1>6 DEF Next

(* A thread that pins has drawn exactly the configured numbers of cores. *)
LEMMA DrawnAll ==
    ASSUME IInv, NEW t \in Threads, Pin(t)
    PROVE  /\ Cardinality(mask[t] \cap Bigs) = experiment_config.nbigs
           /\ Cardinality(mask[t] \cap Littles) = experiment_config.nlils
           /\ Valid
<1>1. bigs[t] = 0 /\ lils[t] = 0
  BY SMT DEF IInv, TypeOK, Entering, Pin
<1>2. /\ Cardinality(mask[t] \cap Bigs) \in Nat
      /\ Cardinality(mask[t] \cap Bigs) <= 4
      /\ Cardinality(mask[t] \cap Littles) \in Nat
      /\ Cardinality(mask[t] \cap Littles) <= 4
  BY DrawnCores
<1>3. /\ Cardinality(mask[t] \cap Bigs) + bigs[t] = experiment_config.nbigs
      /\ Cardinality(mask[t] \cap Littles) + lils[t] = experiment_config.nlils
  BY DEF IInv, DrawnAndLeft, Pin
<1> QED
  BY <1>1, <1>2, <1>3, SMT DEF Valid

(* Only a hook that has drawn all its cores starts a call. *)
LEMMA HangStep == IInv /\ [Next]_vars => InvalidHangs'
<1> SUFFICES ASSUME IInv, [Next]_vars, ~Valid', NEW u \in Threads PROVE depth'[u] = 0
  BY DEF InvalidHangs
<1>1. experiment_config' = experiment_config
  BY DEF Next, Draw, Enter, DrawBig, DrawLittle, EndBigs, Pin, Leave, Redraw, vars, env
<1>2. ~Valid
  BY <1>1 DEF Valid
<1>3. \A t \in Threads : depth[t] = 0
  BY <1>2 DEF IInv, InvalidHangs
<1>4. \A t \in Threads : ~Pin(t)
  BY <1>2, DrawnAll
<1>5. \A t \in Threads : ~Leave(t)
  BY <1>3, SMT DEF Leave
<1>6. depth' = depth
  BY <1>4, <1>5 DEF Next, Draw, Enter, DrawBig, DrawLittle, EndBigs, Redraw, vars
<1> QED
  BY <1>3, <1>6

(* IInv is inductive, for every value of the constants. *)
THEOREM Inductive == Spec => []IInv
<1>1. IInv /\ [Next]_vars => IInv'
  BY TypeStep, DrawStep, LoopStep, HangStep DEF IInv
<1> QED
  BY InitInv, <1>1, PTL DEF Spec

(* The counters, masks and depths of set_config and set_affinity_permute keep   *)
(* their types.                                                                 *)
THEOREM TypeCorrect == Spec => []TypeOK
<1>1. IInv => TypeOK
  BY DEF IInv
<1> QED
  BY Inductive, <1>1, PTL

(* set_affinity_permute: drawn and undrawn cores always add up to the           *)
(* configuration.                                                               *)
THEOREM DrawsAddUp == Spec => []DrawnAndLeft
<1>1. IInv => DrawnAndLeft
  BY DEF IInv
<1> QED
  BY Inductive, <1>1, PTL

(* set_config accepts an impossible configuration, and then no measured         *)
(* function ever starts.                                                        *)
THEOREM ImpossibleHangs == Spec => []InvalidHangs
<1>1. IInv => InvalidHangs
  BY DEF IInv
<1> QED
  BY Inductive, <1>1, PTL

(* CoreChoice counts cores as this module does. *)
LEMMA SameCardinality == \A S : Choice!Cardinality(S) = Cardinality(S)
BY DEF Choice!Cardinality, Cardinality

(* The loop of draws implements one choice among the sets with the configured   *)
(* numbers of cores.                                                            *)
THEOREM Implements == Spec => PicksConfigured
<1>1. Init => Choice!Init
  BY Clusters DEF Init, Choice!Init
<1>2. IInv /\ [Next]_vars => [Choice!Next]_(Choice!vars)
  <2> SUFFICES ASSUME IInv, [Next]_vars PROVE [Choice!Next]_(Choice!vars)
    OBVIOUS
  <2>1. ASSUME NEW t \in Threads, Pin(t) PROVE Choice!Enter(t)
    <3>1. mask[t] \in SUBSET (Bigs \cup Littles)
      BY Clusters DEF IInv, TypeOK
    <3>2. mask[t] \in Choice!Choices
      <4>1. /\ Cardinality(mask[t] \cap Bigs) = experiment_config.nbigs
            /\ Cardinality(mask[t] \cap Littles) = experiment_config.nlils
        BY <2>1, DrawnAll
      <4> QED
        BY <3>1, <4>1, SameCardinality DEF Choice!Choices
    <3>3. /\ affinity' = IF mask[t] = {} THEN affinity
                                         ELSE [affinity EXCEPT ![t] = mask[t]]
          /\ depth' = [depth EXCEPT ![t] = @ + 1]
          /\ experiment_config' = experiment_config
      BY <2>1 DEF Pin, env
    <3> QED
      BY <3>2, <3>3 DEF Choice!Enter
  <2>2. ASSUME NEW t \in Threads, Leave(t) PROVE Choice!Leave(t)
    BY <2>2, Clusters DEF Leave, Choice!Leave, env
  <2>3. CASE \/ UNCHANGED vars
             \/ \E t \in Threads : \/ Enter(t) \/ Draw(t) \/ EndBigs(t)
                                   \/ \E c \in Cores : Redraw(t, c)
    BY <2>3 DEF Draw, Enter, DrawBig, DrawLittle, EndBigs, Redraw, vars, env, Choice!vars
  <2> QED
    BY <2>1, <2>2, <2>3 DEF Next, Choice!Next
<1> QED
  BY Inductive, <1>1, <1>2, PTL DEF Spec, PicksConfigured, Choice!Spec
=============================================================================
