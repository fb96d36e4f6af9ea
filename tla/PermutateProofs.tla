-------------------------- MODULE PermutateProofs --------------------------
(***************************************************************************)
(* For any lists of configurations and sites and any number of iterations: *)
(* whatever the random orders are, no trial is run twice, a script that    *)
(* ends by itself has run every trial, one that is stopped leaves one      *)
(* configuration of one iteration unfinished at most, and with a repeated  *)
(* configuration nothing is ever run.                                      *)
(***************************************************************************)
EXTENDS Permutate, SequenceTheorems, FiniteSetTheorems, TLAPS

USE PermutateAssumption

-----------------------------------------------------------------------------
(* Arrays *)

(* An entry of an array is one of its elements, and the array is not empty.     *)
LEMMA Arrays ==
    ASSUME NEW s \in ConfigLists \cup {Sites}
    PROVE  /\ s \in Seq(Elements(s)) /\ s # <<>>
           /\ Len(s) \in Nat \ {0}
           /\ \A x \in 1..Len(s) : s[x] \in Elements(s)
BY EmptySeq DEF Elements

(* What array+=(element) does to an array without repetition. *)
LEMMA Add ==
    ASSUME NEW S, NEW s \in Seq(S), NEW e \in S
    PROVE  /\ Append(s, e) \in Seq(S)
           /\ Len(s) \in Nat
           /\ Len(Append(s, e)) = Len(s) + 1
           /\ NoRepeat(s) /\ e \notin Elements(s) => NoRepeat(Append(s, e))
<1>1. /\ Append(s, e) \in Seq(S)
      /\ Len(Append(s, e)) = Len(s) + 1
      /\ \A i \in 1..Len(s) : Append(s, e)[i] = s[i]
      /\ Append(s, e)[Len(s) + 1] = e
  BY AppendProperties
<1>2. Len(s) \in Nat
  BY LenProperties
<1>3. ASSUME NoRepeat(s), e \notin Elements(s),
             NEW i \in 1..Len(Append(s, e)), NEW j \in 1..Len(Append(s, e)),
             Append(s, e)[i] = Append(s, e)[j]
      PROVE  i = j
  <2>1. /\ i \in 1..Len(s) \/ i = Len(s) + 1
        /\ j \in 1..Len(s) \/ j = Len(s) + 1
    BY <1>1, <1>2, SMT
  <2>2. \A k \in 1..Len(s) : s[k] # e
    BY <1>3 DEF Elements
  <2> QED
    BY <1>1, <1>3, <2>1, <2>2 DEF NoRepeat
<1> QED
  BY <1>1, <1>2, <1>3 DEF NoRepeat

(* gen_iterconfig, gen_itersite: an array of elements of another one, without   *)
(* repetition and of the same length, holds all of them, and then the other one *)
(* has no repetition either.                                                    *)
LEMMA Full ==
    ASSUME NEW a \in ConfigLists \cup {Sites},
           NEW s \in Seq(Elements(a)), NoRepeat(s), Len(s) = Len(a)
    PROVE  Elements(s) = Elements(a) /\ Distinct(a)
<1> DEFINE n == Len(a)
<1>1. n \in Nat \ {0} /\ a \in [1..n -> Elements(a)]
  BY Arrays, LenProperties
<1>2. s \in [1..n -> Elements(a)]
  BY LenProperties
<1>3. a \in Surjection(1..n, Elements(a))
  BY <1>1 DEF Elements, Surjection
<1>4. IsFiniteSet(1..n) /\ Cardinality(1..n) = n
  <2>1. 1 \in Int /\ n \in Int
    BY <1>1, SMT
  <2>2. IsFiniteSet(1..n) /\ Cardinality(1..n) = IF 1 > n THEN 0 ELSE n - 1 + 1
    BY <2>1, FS_Interval, Zenon
  <2> QED
    BY <1>1, <2>2, SMT
<1>5. IsFiniteSet(Elements(a)) /\ Cardinality(Elements(a)) <= n
  BY <1>3, <1>4, FS_Surjection
<1>6. s \in Injection(1..n, Elements(a))
  BY <1>2 DEF NoRepeat, Injection, IsInjective
<1>7. /\ n <= Cardinality(Elements(a))
      /\ n = Cardinality(Elements(a)) => s \in Surjection(1..n, Elements(a))
  BY <1>4, <1>5, <1>6, FS_Injection
<1>8. Cardinality(Elements(a)) \in Nat
  BY <1>5, FS_CardinalityType
<1>9. n = Cardinality(Elements(a))
  BY <1>1, <1>5, <1>7, <1>8, SMT
<1>10. s \in Surjection(1..n, Elements(a))
  BY <1>7, <1>9
<1>11. Elements(s) = Elements(a)
  BY <1>2, <1>10 DEF Surjection, Elements
<1> QED
  BY <1>9, <1>11 DEF Distinct
-----------------------------------------------------------------------------
(* The types *)

(* What the types say of the two random orders. *)
LEMMA Orders ==
    ASSUME TypeOK
    PROVE  /\ configs \in ConfigLists \cup {Sites} /\ Sites \in ConfigLists \cup {Sites}
           /\ Len(configs) \in Nat \ {0} /\ Len(Sites) \in Nat \ {0}
           /\ iterconfig \in Seq(Elements(configs)) /\ Len(iterconfig) \in Nat
           /\ itersite \in Seq(Elements(Sites)) /\ Len(itersite) \in Nat
           /\ iter \in Nat /\ ci \in Nat /\ si \in Nat
BY Arrays, LenProperties, SMT DEF TypeOK

(* Where the script starts. *)
LEMMA InitInv == Init => IInv
<1> SUFFICES ASSUME Init PROVE IInv
  OBVIOUS
<1>1. configs \in ConfigLists \cup {Sites} /\ Sites \in ConfigLists \cup {Sites}
  BY DEF Init
<1>2. Len(configs) \in Nat \ {0} /\ Len(Sites) \in Nat \ {0}
  BY <1>1, Arrays
<1>3. /\ <<>> \in Seq(Elements(configs)) /\ <<>> \in Seq(Elements(Sites))
      /\ Len(<<>>) = 0
  BY EmptySeq
<1>4. /\ 0 <= Len(configs) /\ 0 <= Len(Sites)
      /\ 1 \in 1..(ITERATIONS + 1)
      /\ 1 \in 1..(Len(configs) + 1)
      /\ 1 \in 1..(Len(Sites) + 1)
  BY <1>2, SMT
<1>5. Plain \in Expansions
  BY DEF Plain, Expansions
<1>6. TypeOK
  BY <1>3, <1>4, <1>5 DEF Init, TypeOK
<1>7. Shuffled
  <2>1. NoRepeat(<<>>)
    BY <1>3, SMT DEF NoRepeat
  <2> QED
    BY <2>1 DEF Init, Shuffled
<1>8. RanSoFar
  <2>1. \A t \in Trials : ~(t.iter < 1)
    BY SMT DEF Trials
  <2> QED
    BY <2>1 DEF Init, RanSoFar, Past
<1>9. Positions /\ DistinctPast
  BY DEF Init, Positions, DistinctPast
<1> QED
  BY <1>6, <1>7, <1>8, <1>9 DEF IInv

(* The trial of the innermost loop is one of the trials. *)
LEMMA TrialType ==
    ASSUME IInv, pc \in {"site", "command"}, si <= Len(itersite)
    PROVE  Trial \in Trials
<1>1. ci \in 1..Len(iterconfig) /\ si \in 1..Len(itersite) /\ iter \in 1..ITERATIONS
  BY Orders, SMT DEF IInv, TypeOK, Positions, Shuffled
<1>2. iterconfig[ci] \in Elements(configs) /\ itersite[si] \in Elements(Sites)
  BY <1>1, Orders, ElementOfSeq DEF IInv
<1> QED
  BY <1>1, <1>2 DEF Trial, Trials

(* ${text//'+keyword'/value} yields a text again. *)
LEMMA Expanded ==
    ASSUME NEW text \in Expansions, Trial \in Trials
    PROVE  Expand(text) \in Expansions
<1>1. \A k \in Keywords : Trial[k] \in Elements(configs) \cup Elements(Sites)
                                          \cup (1..ITERATIONS) \cup {Unexpanded}
  <2>1. /\ Trial.config \in Elements(configs) /\ Trial.url \in Elements(Sites)
        /\ Trial.iter \in 1..ITERATIONS
    BY DEF Trials
  <2>2. /\ Trial["config"] = Trial.config /\ Trial["url"] = Trial.url
        /\ Trial["iter"] = Trial.iter
    OBVIOUS
  <2> QED
    BY <2>1, <2>2 DEF Keywords
<1> QED
  BY <1>1 DEF Expand, Expansions

(* No step changes the arrays of the script, and so the trials stay the same.   *)
LEMMA SameTrials ==
    ASSUME [Next]_vars
    PROVE  /\ configs' = configs /\ Elements(configs)' = Elements(configs)
           /\ Elements(Sites)' = Elements(Sites)
           /\ Trials' = Trials /\ Expansions' = Expansions
<1>1. configs' = configs
  BY DEF Next, Generate, Loop, Stopped, DrawConfig, DrawSite, NextIteration, BeginConfigs,
     NextConfig, BeginSites, EndSites, Start, Return, vars
<1> QED
  BY <1>1 DEF Trials, Expansions, Elements

(* Every step keeps the types. *)
LEMMA TypeStep == IInv /\ [Next]_vars => TypeOK'
<1> SUFFICES ASSUME IInv, [Next]_vars PROVE TypeOK'
  OBVIOUS
<1>t. TypeOK
  BY DEF IInv
<1>0. CASE UNCHANGED vars \/ Stopped
  BY <1>0, <1>t, SameTrials DEF Stopped, vars, TypeOK
<1>1. CASE NextIteration
  <2>1. <<>> \in Seq(Elements(configs)) /\ Len(<<>>) = 0 /\ 0 <= Len(configs)
    BY EmptySeq, <1>t, Orders, SMT
  <2> QED
    BY <1>1, <1>t, SameTrials, <2>1 DEF NextIteration, TypeOK
<1>2. ASSUME NEW x \in 1..Len(configs), DrawConfig(x) PROVE TypeOK'
  <2>1. configs[x] \in Elements(configs)
    BY <1>t, Orders, Arrays
  <2>2. /\ Append(iterconfig, configs[x]) \in Seq(Elements(configs))
        /\ Len(Append(iterconfig, configs[x])) = Len(iterconfig) + 1
    BY <1>t, <2>1, Orders, Add
  <2>3. /\ Len(iterconfig) # Len(configs)
        /\ Len(iterconfig) <= Len(configs)
        /\ Len(iterconfig) \in Nat /\ Len(configs) \in Nat
    BY <1>2, <1>t, Orders DEF DrawConfig, TypeOK
  <2>4. Len(iterconfig) + 1 <= Len(configs)
    BY <2>3, SMT
  <2>5. iterconfig' \in Seq(Elements(configs)) /\ Len(iterconfig') <= Len(configs)
    BY <1>2, <1>t, <2>2, <2>4 DEF DrawConfig, TypeOK
  <2> QED
    BY <1>2, <1>t, SameTrials, <2>5 DEF DrawConfig, TypeOK
<1>3. CASE BeginConfigs
  <2>1. 1 \in 1..(Len(configs) + 1)
    BY <1>t, Orders, SMT
  <2> QED
    BY <1>3, <1>t, SameTrials, <2>1 DEF BeginConfigs, TypeOK
<1>4. CASE NextConfig
  <2>1. <<>> \in Seq(Elements(Sites)) /\ Len(<<>>) = 0 /\ 0 <= Len(Sites)
    BY EmptySeq, <1>t, Orders, SMT
  <2>2. iter + 1 \in 1..(ITERATIONS + 1)
    BY <1>4, <1>t, SMT DEF NextConfig, TypeOK, IInv, Positions
  <2> QED
    BY <1>4, <1>t, SameTrials, <2>1, <2>2 DEF NextConfig, TypeOK
<1>5. ASSUME NEW x \in 1..Len(Sites), DrawSite(x) PROVE TypeOK'
  <2>1. Sites[x] \in Elements(Sites)
    BY Arrays
  <2>2. /\ Append(itersite, Sites[x]) \in Seq(Elements(Sites))
        /\ Len(Append(itersite, Sites[x])) = Len(itersite) + 1
    BY <1>t, <2>1, Orders, Add
  <2>3. /\ Len(itersite) # Len(Sites)
        /\ Len(itersite) <= Len(Sites)
        /\ Len(itersite) \in Nat /\ Len(Sites) \in Nat
    BY <1>5, <1>t, Orders DEF DrawSite, TypeOK
  <2>4. Len(itersite) + 1 <= Len(Sites)
    BY <2>3, SMT
  <2>5. itersite' \in Seq(Elements(Sites)) /\ Len(itersite') <= Len(Sites)
    BY <1>5, <1>t, <2>2, <2>4 DEF DrawSite, TypeOK
  <2> QED
    BY <1>5, <1>t, SameTrials, <2>5 DEF DrawSite, TypeOK
<1>6. CASE BeginSites
  <2>1. 1 \in 1..(Len(Sites) + 1)
    BY <1>t, Orders, SMT
  <2> QED
    BY <1>6, <1>t, SameTrials, <2>1 DEF BeginSites, TypeOK
<1>7. CASE EndSites
  <2>1. ci + 1 \in 1..(Len(configs) + 1)
    BY <1>7, <1>t, Orders, SMT DEF EndSites, TypeOK, IInv, Positions
  <2> QED
    BY <1>7, <1>t, SameTrials, <2>1 DEF EndSites, TypeOK
<1>8. CASE Start
  <2>1. Trial \in Trials
    BY <1>8, TrialType DEF Start
  <2>2. Plain \in Expansions /\ FLAGS \in Expansions
    BY <1>t DEF Plain, Expansions, TypeOK
  <2>3. FLAGS' \in Expansions /\ prefix' \in Expansions
    BY <1>8, <2>1, <2>2, Expanded DEF Start
  <2>4. core_config' \in Elements(configs)
    BY <1>8, <2>1 DEF Start, Trials
  <2> QED
    BY <1>8, <1>t, SameTrials, <2>3, <2>4 DEF Start, TypeOK
<1>9. ASSUME NEW RETVAL \in RetVals, Return(RETVAL) PROVE TypeOK'
  <2>1. si \in 1..Len(Sites) /\ Len(itersite) = Len(Sites)
    BY <1>9, <1>t, Orders, SMT DEF Return, IInv, Positions, Shuffled, TypeOK
  <2>2. Trial \in Trials
    BY <1>9, <2>1, TrialType, SMT DEF Return
  <2>3. si + 1 \in 1..(Len(Sites) + 1)
    BY <2>1, <1>t, Orders, SMT
  <2> QED
    BY <1>9, <1>t, SameTrials, <2>2, <2>3 DEF Return, TypeOK
<1> QED
  BY <1>0, <1>1, <1>2, <1>3, <1>4, <1>5, <1>6, <1>7, <1>8, <1>9 DEF Next, Generate, Loop
-----------------------------------------------------------------------------
(* The parts of the invariant *)

(* The draws keep the arrays without repetition, and the loops find them full.  *)
LEMMA ShuffledStep == IInv /\ [Next]_vars => Shuffled'
<1> SUFFICES ASSUME IInv, [Next]_vars PROVE Shuffled'
  OBVIOUS
<1>t. TypeOK /\ Shuffled
  BY DEF IInv
<1>c. configs' = configs
  BY SameTrials
<1>e. NoRepeat(<<>>)
  BY EmptySeq, SMT DEF NoRepeat
<1> USE DEF Shuffled, NoRepeat
<1>0. CASE UNCHANGED vars \/ Stopped
  BY <1>0, <1>t DEF Stopped, vars
<1>1. CASE NextIteration
  BY <1>1, <1>t, <1>e DEF NextIteration
<1>2. ASSUME NEW x \in 1..Len(configs), DrawConfig(x) PROVE Shuffled'
  <2>1. configs[x] \in Elements(configs)
    BY <1>t, Orders, Arrays
  <2>2. NoRepeat(iterconfig')
    BY SMTT(30), <1>2, <1>t, <2>1, Orders, Add DEF DrawConfig
  <2> QED
    BY <1>2, <1>t, <2>2 DEF DrawConfig
<1>3. CASE BeginConfigs
  BY <1>3, <1>t, <1>c DEF BeginConfigs
<1>4. CASE NextConfig
  BY <1>4, <1>t, <1>e, <1>c DEF NextConfig
<1>5. ASSUME NEW x \in 1..Len(Sites), DrawSite(x) PROVE Shuffled'
  <2>1. Sites[x] \in Elements(Sites)
    BY Arrays
  <2>2. NoRepeat(itersite')
    <3>1. Sites[x] \notin Elements(itersite) => NoRepeat(Append(itersite, Sites[x]))
      BY <1>t, <2>1, Orders, Add
    <3> QED
      BY <1>5, <1>t, <3>1 DEF DrawSite
  <2> QED
    BY <1>5, <1>t, <1>c, <2>2 DEF DrawSite
<1>6. CASE BeginSites
  BY <1>6, <1>t, <1>c DEF BeginSites
<1>7. CASE EndSites
  BY <1>7, <1>t, <1>c DEF EndSites
<1>8. CASE Start
  BY <1>8, <1>t, <1>c DEF Start
<1>9. ASSUME NEW RETVAL \in RetVals, Return(RETVAL) PROVE Shuffled'
  BY <1>9, <1>t, <1>c DEF Return
<1> QED
  BY <1>0, <1>1, <1>2, <1>3, <1>4, <1>5, <1>6, <1>7, <1>8, <1>9 DEF Next, Generate, Loop

(* Every step keeps the positions in the ranges of their loops. *)
LEMMA PositionsStep == IInv /\ [Next]_vars => Positions'
<1> SUFFICES ASSUME IInv, [Next]_vars PROVE Positions'
  OBVIOUS
<1>t. Positions
  BY DEF IInv
<1>c. configs' = configs
  BY SameTrials
<1>l. /\ pc = "config" => Len(iterconfig) = Len(configs)
      /\ pc = "site" => Len(itersite) = Len(Sites)
  BY DEF IInv, Shuffled
<1>o. /\ iter \in 1..(ITERATIONS + 1)
      /\ ci \in Nat /\ si \in Nat
      /\ Len(configs) \in Nat /\ Len(Sites) \in Nat
  BY Orders DEF IInv, TypeOK
<1>0. CASE UNCHANGED vars \/ Stopped
  BY <1>0, <1>t DEF Stopped, vars, Positions
<1>1. CASE NextIteration
  BY <1>1, <1>o, SMT DEF NextIteration, Positions
<1>2. ASSUME NEW x \in 1..Len(configs), DrawConfig(x) PROVE Positions'
  BY <1>2, <1>t DEF DrawConfig, Positions
<1>3. CASE BeginConfigs
  BY <1>3, <1>t DEF BeginConfigs, Positions
<1>4. CASE NextConfig
  BY <1>4, <1>t, <1>c, <1>l, <1>o, SMT DEF NextConfig, Positions
<1>5. ASSUME NEW x \in 1..Len(Sites), DrawSite(x) PROVE Positions'
  BY <1>5, <1>t, <1>c DEF DrawSite, Positions
<1>6. CASE BeginSites
  BY <1>6, <1>t, <1>c DEF BeginSites, Positions
<1>7. CASE EndSites
  BY <1>7, <1>t DEF EndSites, Positions
<1>8. CASE Start
  BY <1>8, <1>t, <1>c, <1>l DEF Start, Positions
<1>9. ASSUME NEW RETVAL \in RetVals, Return(RETVAL) PROVE Positions'
  BY <1>9, <1>t, <1>c DEF Return, Positions
<1> QED
  BY <1>0, <1>1, <1>2, <1>3, <1>4, <1>5, <1>6, <1>7, <1>8, <1>9 DEF Next, Generate, Loop

(* Only an array without repetition gets past gen_iterconfig. *)
LEMMA DistinctStep == IInv /\ [Next]_vars => DistinctPast'
<1> SUFFICES ASSUME IInv, [Next]_vars PROVE DistinctPast'
  OBVIOUS
<1>t. DistinctPast /\ TypeOK /\ Shuffled
  BY DEF IInv
<1>c. Distinct(configs)' = Distinct(configs)
  BY SameTrials DEF Distinct
<1>1. CASE Distinct(configs)
  BY <1>1, <1>c DEF DistinctPast
<1>2. CASE ~Distinct(configs)
  <2>1. iter = 1 /\ pc \in {"iteration", "gen_iterconfig", "done"}
    BY <1>2, <1>t DEF DistinctPast
  <2>2. ~BeginConfigs
    BY <1>2, <1>t, Orders, Full DEF BeginConfigs, Shuffled
  <2>3. /\ ~NextConfig /\ ~BeginSites /\ ~EndSites /\ ~Start
        /\ \A RETVAL \in RetVals : ~Return(RETVAL)
        /\ \A x \in 1..Len(Sites) : ~DrawSite(x)
    BY <2>1 DEF NextConfig, BeginSites, EndSites, Start, Return, DrawSite
  <2>4. CASE NextIteration
    BY <2>1, <2>4 DEF NextIteration, DistinctPast
  <2>5. ASSUME NEW x \in 1..Len(configs), DrawConfig(x) PROVE DistinctPast'
    BY <2>1, <2>5 DEF DrawConfig, DistinctPast
  <2>6. CASE UNCHANGED vars \/ Stopped
    BY <2>1, <2>6 DEF Stopped, vars, DistinctPast
  <2> QED
    BY <2>2, <2>3, <2>4, <2>5, <2>6 DEF Next, Generate, Loop
<1> QED
  BY <1>1, <1>2


(* A trial of an iteration, its place in the two random orders being full. *)
LEMMA Places ==
    ASSUME TypeOK, Shuffled, NEW t \in Trials
    PROVE  /\ Len(iterconfig) = Len(configs) =>
                 \E c \in 1..Len(configs) : iterconfig[c] = t.config
           /\ Len(itersite) = Len(Sites) =>
                 \E s \in 1..Len(Sites) : itersite[s] = t.url
<1>1. t.config \in Elements(configs) /\ t.url \in Elements(Sites)
  BY DEF Trials
<1>2. /\ NoRepeat(iterconfig) /\ NoRepeat(itersite)
      /\ configs \in ConfigLists \cup {Sites} /\ Sites \in ConfigLists \cup {Sites}
      /\ iterconfig \in Seq(Elements(configs)) /\ itersite \in Seq(Elements(Sites))
  BY Orders DEF Shuffled
<1>3. Len(iterconfig) = Len(configs) => Elements(iterconfig) = Elements(configs)
  BY <1>2, Full
<1>4. Len(itersite) = Len(Sites) => Elements(itersite) = Elements(Sites)
  BY <1>2, Full
<1>5. /\ \A e \in Elements(iterconfig) : \E c \in 1..Len(iterconfig) : iterconfig[c] = e
      /\ \A e \in Elements(itersite) : \E s \in 1..Len(itersite) : itersite[s] = e
  BY DEF Elements
<1> QED
  BY <1>1, <1>3, <1>4, <1>5

(* What has been run are the trials before the position of the loops.           *)
LEMMA RanStep == IInv /\ [Next]_vars => RanSoFar'
<1> SUFFICES ASSUME IInv, [Next]_vars
             PROVE  ran' = {t \in Trials : Past(t)'}
  BY SameTrials DEF RanSoFar
<1>t. TypeOK /\ Shuffled /\ Positions
  BY DEF IInv
<1>o. /\ iter \in 1..(ITERATIONS + 1)
      /\ ci \in Nat \ {0} /\ si \in Nat \ {0}
      /\ Len(configs) \in Nat /\ Len(Sites) \in Nat
      /\ Len(iterconfig) \in Nat /\ Len(itersite) \in Nat
  BY <1>t, Orders, SMT DEF TypeOK
<1>r. ran = {t \in Trials : Past(t)}
  BY DEF IInv, RanSoFar
<1>i. \A t \in Trials : t.iter \in 1..ITERATIONS
  BY DEF Trials
<1>0. CASE UNCHANGED vars \/ Stopped
  BY <1>0, <1>r DEF Stopped, vars, Past, Visited
<1>1. CASE NextIteration
  <2>1. ran' = ran /\ pc = "iteration" /\ pc' \in {"gen_iterconfig", "done"} /\ iter' = iter
    BY <1>1 DEF NextIteration
  <2>2. \A t \in Trials : Past(t)' <=> Past(t)
    BY <2>1 DEF Past
  <2> QED
    BY <2>1, <2>2, <1>r
<1>2. ASSUME NEW x \in 1..Len(configs), DrawConfig(x) PROVE ran' = {t \in Trials : Past(t)'}
  <2>1. ran' = ran /\ pc = "gen_iterconfig" /\ pc' = pc /\ iter' = iter
    BY <1>2 DEF DrawConfig
  <2>2. \A t \in Trials : Past(t)' <=> Past(t)
    BY <2>1 DEF Past
  <2> QED
    BY <2>1, <2>2, <1>r
<1>3. CASE BeginConfigs
  <2>1. /\ ran' = ran /\ pc = "gen_iterconfig" /\ pc' = "config" /\ iter' = iter /\ ci' = 1
    BY <1>3 DEF BeginConfigs
  <2>2. 1..(ci' - 1) = {}
    BY <2>1, SMT
  <2>3. \A t \in Trials : Past(t)' <=> Past(t)
    BY <2>1, <2>2 DEF Past
  <2> QED
    BY <2>1, <2>3, <1>r
<1>4. CASE NextConfig
  <2>1. /\ ran' = ran /\ pc = "config" /\ iterconfig' = iterconfig /\ ci' = ci
        /\ Len(iterconfig) = Len(configs)
    BY <1>4, <1>t DEF NextConfig, Shuffled
  <2>2. CASE ci <= Len(iterconfig)
    <3>1. pc' = "gen_itersite" /\ iter' = iter
      BY <1>4, <2>2 DEF NextConfig
    <3>2. \A t \in Trials : Past(t)' <=> Past(t)
      BY <2>1, <3>1 DEF Past
    <3> QED
      BY <2>1, <3>2, <1>r
  <2>3. CASE ~(ci <= Len(iterconfig))
    <3>1. pc' = "iteration" /\ iter' = iter + 1
      BY <1>4, <2>3 DEF NextConfig
    <3>2. \A c \in 1..Len(configs) : c \in 1..(ci - 1)
      BY <1>o, <2>1, <2>3, SMT
    <3>3. ASSUME NEW t \in Trials PROVE Past(t)' <=> Past(t)
      <4>1. t.iter = iter => Past(t)
        BY <1>t, <2>1, <3>2, Places DEF Past
      <4>2. Past(t)' <=> t.iter < iter + 1
        BY <3>1 DEF Past
      <4>3. Past(t) => t.iter < iter \/ t.iter = iter
        BY DEF Past
      <4>4. t.iter < iter => Past(t)
        BY DEF Past
      <4>5. t.iter < iter + 1 <=> t.iter < iter \/ t.iter = iter
        BY <1>i, <1>o, SMT
      <4> QED
        BY <4>1, <4>2, <4>3, <4>4, <4>5
    <3> QED
      BY <2>1, <3>3, <1>r
  <2> QED
    BY <2>2, <2>3
<1>5. ASSUME NEW x \in 1..Len(Sites), DrawSite(x) PROVE ran' = {t \in Trials : Past(t)'}
  <2>1. /\ ran' = ran /\ pc = "gen_itersite" /\ pc' = pc /\ iter' = iter /\ ci' = ci
        /\ iterconfig' = iterconfig
    BY <1>5 DEF DrawSite
  <2>2. \A t \in Trials : Past(t)' <=> Past(t)
    BY <2>1 DEF Past
  <2> QED
    BY <2>1, <2>2, <1>r
<1>6. CASE BeginSites
  <2>1. /\ ran' = ran /\ pc = "gen_itersite" /\ pc' = "site" /\ iter' = iter /\ ci' = ci
        /\ iterconfig' = iterconfig /\ si' = 1
    BY <1>6 DEF BeginSites
  <2>2. 1..Visited' = {}
    BY <2>1, SMT DEF Visited
  <2>3. \A t \in Trials : Past(t)' <=> Past(t)
    BY <2>1, <2>2 DEF Past
  <2> QED
    BY <2>1, <2>3, <1>r
<1>7. CASE EndSites
  <2>1. /\ ran' = ran /\ pc = "site" /\ pc' = "config" /\ iter' = iter /\ ci' = ci + 1
        /\ iterconfig' = iterconfig
        /\ si > Len(itersite) /\ Len(itersite) = Len(Sites)
    BY <1>7, <1>t DEF EndSites, Shuffled
  <2>2. \A s \in 1..Len(Sites) : s \in 1..Visited
    BY <1>o, <2>1, SMT DEF Visited
  <2>3. /\ \A c : c \in 1..(ci' - 1) <=> c \in 1..(ci - 1) \/ c = ci
    BY <1>o, <2>1, SMT
  <2>4. ASSUME NEW t \in Trials PROVE Past(t)' <=> Past(t)
    <3>1. \E s \in 1..Visited : itersite[s] = t.url
      BY <1>t, <2>1, <2>2, Places
    <3> QED
      BY <2>1, <2>3, <3>1 DEF Past
  <2> QED
    BY <2>1, <2>4, <1>r
<1>8. CASE Start
  <2>1. /\ ran' = ran /\ pc = "site" /\ pc' = "command" /\ iter' = iter /\ ci' = ci
        /\ iterconfig' = iterconfig /\ itersite' = itersite /\ si' = si
    BY <1>8 DEF Start
  <2>2. \A t \in Trials : Past(t)' <=> Past(t)
    BY <2>1 DEF Past, Visited
  <2> QED
    BY <2>1, <2>2, <1>r
<1>9. ASSUME NEW RETVAL \in RetVals, Return(RETVAL) PROVE ran' = {t \in Trials : Past(t)'}
  <2>1. /\ ran' = ran \cup {Trial} /\ pc = "command" /\ pc' \in {"site", "exit"}
        /\ iter' = iter /\ ci' = ci /\ iterconfig' = iterconfig /\ itersite' = itersite
    BY <1>9 DEF Return
  <2>1a. Visited = si - 1 /\ Visited' = si
    <3>1. si' = (IF pc' = "exit" THEN si ELSE si + 1)
      BY <1>9 DEF Return
    <3> QED
      BY <1>o, <2>1, <3>1, SMT DEF Visited
  <2>2. \A s : s \in 1..Visited' <=> s \in 1..Visited \/ s = si
    BY <1>o, <2>1a, SMT
  <2>3. Trial \in Trials
    BY <1>t, <2>1, <1>o, TrialType, SMT DEF Positions, Shuffled
  <2>4. ASSUME NEW t \in Trials PROVE Past(t)' <=> Past(t) \/ t = Trial
    <3>1. t = Trial <=> t.iter = iter /\ iterconfig[ci] = t.config /\ itersite[si] = t.url
      <4>1. t = [config |-> t.config, url |-> t.url, iter |-> t.iter]
        BY DEF Trials
      <4> QED
        BY <4>1 DEF Trial
    <3> QED
      BY <2>1, <2>2, <3>1 DEF Past
  <2> QED
    BY <2>1, <2>3, <2>4, <1>r
<1> QED
  BY <1>0, <1>1, <1>2, <1>3, <1>4, <1>5, <1>6, <1>7, <1>8, <1>9 DEF Next, Generate, Loop

(* IInv is inductive, for every value of the constants. *)
THEOREM Inductive == Spec => []IInv
<1>1. IInv /\ [Next]_vars => IInv'
  BY TypeStep, ShuffledStep, PositionsStep, RanStep, DistinctStep DEF IInv
<1> QED
  BY InitInv, <1>1, PTL DEF Spec

(* permutate.sh: the positions, orders and texts keep their types, and only     *)
(* trials are recorded.                                                         *)
THEOREM TypeCorrect == Spec => []TypeOK
<1>1. IInv => TypeOK
  BY DEF IInv
<1> QED
  BY Inductive, <1>1, PTL

(* The loops of permutate.sh run no trial twice, and every trial before they    *)
(* end by themselves.                                                           *)
THEOREM TrialsOnce == Spec => []EveryTrialOnce
<1>1. IInv => EveryTrialOnce
  <2> SUFFICES ASSUME IInv PROVE EveryTrialOnce
    OBVIOUS
  <2>1. ASSUME pc = "command" PROVE Trial \notin ran
    <3>1. /\ ci \in 1..Len(iterconfig) /\ si \in 1..Len(itersite)
          /\ iter \in Nat
      BY <2>1, Orders, SMT DEF IInv, TypeOK, Positions, Shuffled
    <3>2. \A c \in 1..(ci - 1) : iterconfig[c] # iterconfig[ci]
      <4>1. \A c \in 1..(ci - 1) : c \in 1..Len(iterconfig) /\ c # ci
        BY <3>1, Orders, SMT DEF IInv
      <4> QED
        BY <3>1, <4>1 DEF IInv, Shuffled, NoRepeat
    <3>3. \A s \in 1..Visited : itersite[s] # itersite[si]
      <4>1. \A s \in 1..Visited : s \in 1..Len(itersite) /\ s # si
        BY <2>1, <3>1, Orders, SMT DEF IInv, Visited
      <4> QED
        BY <3>1, <4>1 DEF IInv, Shuffled, NoRepeat
    <3>4. ~(iter < iter)
      BY <3>1, SMT
    <3>5. ~Past(Trial)
      BY <3>2, <3>3, <3>4 DEF Past, Trial
    <3> QED
      BY <2>1, <3>5 DEF IInv, RanSoFar
  <2>2. ASSUME pc = "done" PROVE ran = Trials
    <3>1. iter = ITERATIONS + 1
      BY <2>2 DEF IInv, Positions
    <3>2. \A t \in Trials : t.iter < iter
      <4>1. \A t \in Trials : t.iter \in 1..ITERATIONS
        BY DEF Trials
      <4> QED
        BY <3>1, <4>1, SMT
    <3> QED
      BY <2>2, <3>2 DEF IInv, RanSoFar, Past
  <2> QED
    BY <2>1, <2>2 DEF EveryTrialOnce
<1> QED
  BY Inductive, <1>1, PTL

(* The `exit' of permutate.sh after a command that failed or was interrupted,   *)
(* like any other moment, finds whole iterations but the last one, and in that  *)
(* one whole configurations but one.                                            *)
THEOREM StopsWhole == Spec => []StopsInOneBlock
<1>1. IInv => StopsInOneBlock
  <2> SUFFICES ASSUME IInv PROVE StopsInOneBlock
    OBVIOUS
  <2>1. /\ \A t \in ran : t \in Trials /\ Past(t)
        /\ \A u \in Missing : u \in Trials /\ ~Past(u)
    BY DEF IInv, RanSoFar, Missing
  <2>2. /\ \A t \in Trials : t.iter \in Nat
        /\ iter \in Nat
    BY Orders DEF IInv, Trials
  <2>3. ASSUME NEW t \in ran, NEW u \in Missing PROVE t.iter <= u.iter
    <3>1. t.iter < iter \/ t.iter = iter
      BY <2>1 DEF Past
    <3>2. ~(u.iter < iter)
      BY <2>1 DEF Past
    <3>3. t.iter \in Nat /\ u.iter \in Nat
      BY <2>1, <2>2
    <3> QED
      BY <2>2, <3>1, <3>2, <3>3, SMT
  <2>4. ASSUME NEW b \in Broken
        PROVE  b = [iter |-> iter, config |-> iterconfig[ci]]
    <3>1. PICK t \in ran, u \in Missing : b = Block(t) /\ b = Block(u)
      BY DEF Broken
    <3>2. t.iter = u.iter /\ t.config = u.config
      <4>1. \A x : Block(x).iter = x.iter /\ Block(x).config = x.config
        BY DEF Block
      <4> QED
        BY <3>1, <4>1, Zenon
    <3>3. Past(t) /\ ~Past(u)
      BY <2>1
    <3>4. t.iter = iter /\ iterconfig[ci] = t.config
      BY <3>2, <3>3 DEF Past
    <3> QED
      BY <3>1, <3>4 DEF Block
  <2> QED
    BY <2>3, <2>4 DEF StopsInOneBlock
<1> QED
  BY Inductive, <1>1, PTL

(* gen_iterconfig never gets an array full that has a repeated configuration:   *)
(* no command is ever started with it.                                          *)
THEOREM RepeatNeverRuns == Spec => []RepeatsHang
<1>1. IInv => RepeatsHang
  <2> SUFFICES ASSUME IInv, ~Distinct(configs)
               PROVE  /\ ran = {} /\ pc \notin {"command", "exit"}
                      /\ pc = "done" => ITERATIONS = 0
    BY DEF RepeatsHang
  <2>1. iter = 1 /\ pc \in {"iteration", "gen_iterconfig", "done"}
    BY DEF IInv, DistinctPast
  <2>2. \A t \in Trials : ~(t.iter < iter)
    BY <2>1, SMT DEF Trials
  <2>3. ran = {}
    BY <2>1, <2>2 DEF IInv, RanSoFar, Past
  <2>4. pc = "done" => ITERATIONS = 0
    BY <2>1, SMT DEF IInv, Positions
  <2> QED
    BY <2>1, <2>3, <2>4
<1> QED
  BY Inductive, <1>1, PTL
=============================================================================
