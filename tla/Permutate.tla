----------------------------- MODULE Permutate -----------------------------
(***************************************************************************)
(* permutate.sh: for every iteration, every core configuration in a random *)
(* order and, for each, every site in a random order, one run of a command *)
(* with CORE_CONFIG, LOG_FILE and the expanded flags of that trial.        *)
(*                                                                         *)
(* A text with keywords is a function from the keyword to what stands      *)
(* there: Unexpanded, or the value it was replaced with.  +site behaves as *)
(* +url; +gov is replaced by nothing (the loop over governors is disabled) *)
(* and is left out.                                                        *)
(***************************************************************************)
EXTENDS Naturals, Sequences, FiniteSets

CONSTANTS ConfigLists,  \* values of the array configs
          Sites,        \* the array sites
          ITERATIONS,   \* iterations asked for
          RetVals,      \* exit codes the command can have
          Unexpanded    \* a keyword that has not been replaced

Elements(s) == {s[i] : i \in 1..Len(s)}

ASSUME PermutateAssumption ==
    /\ ITERATIONS \in Nat
    /\ \A s \in ConfigLists \cup {Sites} : s \in Seq(Elements(s)) /\ s # <<>>

VARIABLES
    configs,      \* the array of core configurations
    pc,           \* which loop the script is in
    iter,         \* iteration
    iterconfig,   \* the configurations in the order of this iteration
    itersite,     \* the sites in the order of this configuration
    ci, si,       \* positions of the two `for' loops
    FLAGS,        \* flags of the command
    prefix,       \* FILE_PREFIX_P, the expanded prefix of LOG_FILE
    core_config,  \* the exported CORE_CONFIG
    ran           \* trials whose command has returned

vars == <<configs, pc, iter, iterconfig, itersite, ci, si, FLAGS, prefix,
          core_config, ran>>
-----------------------------------------------------------------------------
Keywords == {"config", "url", "iter"}
Plain    == [k \in Keywords |-> Unexpanded]

\* The variables the keywords stand for.
Trial == [config |-> iterconfig[ci], url |-> itersite[si], iter |-> iter]
Trials == [config : Elements(configs), url : Elements(Sites), iter : 1..ITERATIONS]

\* ${text//'+keyword'/value} for every keyword
Expand(text) == [k \in Keywords |-> IF text[k] = Unexpanded THEN Trial[k] ELSE text[k]]

Expansions == [Keywords -> Elements(configs) \cup Elements(Sites)
                              \cup (1..ITERATIONS) \cup {Unexpanded}]

TypeOK ==
    /\ configs \in ConfigLists
    /\ pc \in {"iteration", "gen_iterconfig", "config", "gen_itersite", "site",
               "command", "done", "exit"}
    /\ iter \in 1..(ITERATIONS + 1)
    /\ iterconfig \in Seq(Elements(configs)) /\ Len(iterconfig) <= Len(configs)
    /\ itersite \in Seq(Elements(Sites)) /\ Len(itersite) <= Len(Sites)
    /\ ci \in 1..(Len(configs) + 1)
    /\ si \in 1..(Len(Sites) + 1)
    /\ FLAGS \in Expansions /\ prefix \in Expansions
    /\ core_config \in Elements(configs) \cup {Unexpanded}
    /\ ran \subseteq Trials

Init ==
    /\ configs \in ConfigLists
    /\ pc = "iteration"
    /\ iter = 1
    /\ iterconfig = <<>> /\ itersite = <<>>
    /\ ci = 1 /\ si = 1
    /\ FLAGS = Plain /\ prefix = Plain
    /\ core_config = Unexpanded
    /\ ran = {}
-----------------------------------------------------------------------------
\* Mutant: the loop runs once too often.
NextIterationOneMore ==
    /\ pc = "iteration"
    /\ IF iter <= ITERATIONS + 1 THEN pc' = "gen_iterconfig" ELSE pc' = "done"
    /\ iterconfig' = <<>>
    /\ UNCHANGED <<configs, iter, itersite, ci, si, FLAGS, prefix, core_config, ran>>

NextIteration ==
    /\ pc = "iteration"
    /\ IF iter <= ITERATIONS THEN pc' = "gen_iterconfig" ELSE pc' = "done"
    /\ iterconfig' = <<>>
    /\ UNCHANGED <<configs, iter, itersite, ci, si, FLAGS, prefix, core_config, ran>>

\* Mutant: no array_contains.
DrawConfigAgain(x) ==
    /\ pc = "gen_iterconfig"
    /\ Len(iterconfig) # Len(configs)
    /\ iterconfig' = Append(iterconfig, configs[x])
    /\ UNCHANGED <<configs, pc, iter, itersite, ci, si, FLAGS, prefix, core_config, ran>>

\* gen_iterconfig: an element the array contains is drawn again.
DrawConfig(x) ==
    /\ pc = "gen_iterconfig"
    /\ Len(iterconfig) # Len(configs)
    /\ iterconfig' = IF configs[x] \in Elements(iterconfig) THEN iterconfig
                     ELSE Append(iterconfig, configs[x])
    /\ UNCHANGED <<configs, pc, iter, itersite, ci, si, FLAGS, prefix, core_config, ran>>

BeginConfigs ==
    /\ pc = "gen_iterconfig"
    /\ Len(iterconfig) = Len(configs)
    /\ pc' = "config"
    /\ ci' = 1
    /\ UNCHANGED <<configs, iter, iterconfig, itersite, si, FLAGS, prefix, core_config, ran>>

\* Mutant: iter is not incremented.
NextConfigSameIter ==
    /\ pc = "config"
    /\ pc' = IF ci <= Len(iterconfig) THEN "gen_itersite" ELSE "iteration"
    /\ itersite' = <<>>
    /\ UNCHANGED <<configs, iter, iterconfig, ci, si, FLAGS, prefix, core_config, ran>>

NextConfig ==
    /\ pc = "config"
    /\ IF ci <= Len(iterconfig)
       THEN pc' = "gen_itersite" /\ UNCHANGED iter
       ELSE pc' = "iteration" /\ iter' = iter + 1
    /\ itersite' = <<>>
    /\ UNCHANGED <<configs, iterconfig, ci, si, FLAGS, prefix, core_config, ran>>

\* gen_itersite
DrawSite(x) ==
    /\ pc = "gen_itersite"
    /\ Len(itersite) # Len(Sites)
    /\ itersite' = IF Sites[x] \in Elements(itersite) THEN itersite
                   ELSE Append(itersite, Sites[x])
    /\ UNCHANGED <<configs, pc, iter, iterconfig, ci, si, FLAGS, prefix, core_config, ran>>

BeginSites ==
    /\ pc = "gen_itersite"
    /\ Len(itersite) = Len(Sites)
    /\ pc' = "site"
    /\ si' = 1
    /\ UNCHANGED <<configs, iter, iterconfig, itersite, ci, FLAGS, prefix, core_config, ran>>
-----------------------------------------------------------------------------
EndSites ==
    /\ pc = "site"
    /\ si > Len(itersite)
    /\ pc' = "config"
    /\ ci' = ci + 1
    /\ UNCHANGED <<configs, iter, iterconfig, itersite, si, FLAGS, prefix, core_config, ran>>


\* expand_FLAGS_and_FP, then the exports and the command.  FLAGS itself is
\* replaced, the prefix is expanded from FILE_PREFIX every time.
Start ==
    /\ pc = "site"
    /\ si <= Len(itersite)
    /\ FLAGS' = Expand(FLAGS)
    /\ prefix' = Expand(Plain)
    /\ core_config' = Trial.config
    /\ pc' = "command"
    /\ UNCHANGED <<configs, iter, iterconfig, itersite, ci, si, ran>>

\* Mutant: `break' for `exit', an error ends the loop over the sites only.
ReturnBreaks(RETVAL) ==
    /\ pc = "command"
    /\ ran' = ran \cup {Trial}
    /\ IF RETVAL \in {1, 2} THEN pc' = "config" /\ ci' = ci + 1 /\ UNCHANGED si
                            ELSE pc' = "site" /\ si' = si + 1 /\ UNCHANGED ci
    /\ UNCHANGED <<configs, iter, iterconfig, itersite, FLAGS, prefix, core_config>>

\* The command returns: an error or a Ctrl-C in it ends the script.
Return(RETVAL) ==
    /\ pc = "command"
    /\ ran' = ran \cup {Trial}
    /\ IF RETVAL \in {1, 2} THEN pc' = "exit" /\ UNCHANGED si
                            ELSE pc' = "site" /\ si' = si + 1
    /\ UNCHANGED <<configs, iter, iterconfig, itersite, ci, FLAGS, prefix, core_config>>

Stopped == pc \in {"done", "exit"} /\ UNCHANGED vars
-----------------------------------------------------------------------------
Generate == \/ \E x \in 1..Len(configs) : DrawConfig(x)
            \/ \E x \in 1..Len(Sites) : DrawSite(x)

Loop == NextIteration \/ BeginConfigs \/ NextConfig \/ BeginSites \/ EndSites \/ Start

Next == Generate \/ Loop \/ Stopped \/ \E RETVAL \in RetVals : Return(RETVAL)

Spec == Init /\ [][Next]_vars

\* $RANDOM yields every index some time, and the command returns.
FairSpec == Spec /\ WF_vars(Generate) /\ WF_vars(Loop)
                 /\ WF_vars(\E RETVAL \in RetVals : Return(RETVAL))
-----------------------------------------------------------------------------
Distinct(s) == Cardinality(Elements(s)) = Len(s)

(* No trial is run twice, and a script that ends by itself has run them all,    *)
(* whatever the random orders are.                                              *)
EveryTrialOnce ==
    /\ pc = "command" => Trial \notin ran
    /\ pc = "done" => ran = Trials

(* Wherever a failing command or a Ctrl-C stops the script, what was measured   *)
(* is whole but for one place: no iteration is begun before the one before it   *)
(* is complete, and at most one configuration of one iteration has been run on  *)
(* some of the sites and not on others, so the runs of any two configurations   *)
(* can be compared.                                                             *)
Missing  == Trials \ ran
Block(t) == [iter |-> t.iter, config |-> t.config]
Broken   == {Block(t) : t \in ran} \cap {Block(t) : t \in Missing}

StopsInOneBlock ==
    /\ \A t \in ran, u \in Missing : t.iter <= u.iter
    /\ \A b, c \in Broken : b = c

(* With distinct entries the script ends: gen_iterconfig and gen_itersite find  *)
(* every element in the end.                                                    *)
Terminates == Distinct(configs) /\ Distinct(Sites) ~> pc \in {"done", "exit"}

(* A repeated configuration makes gen_iterconfig draw for ever: nothing is run, *)
(* and the script does not end if it was asked for an iteration.                *)
RepeatsHang ==
    ~Distinct(configs) => /\ ran = {} /\ pc \notin {"command", "exit"}
                          /\ pc = "done" => ITERATIONS = 0
-----------------------------------------------------------------------------
(* What these invariants need to be inductive *)

NoRepeat(s) == \A i, j \in 1..Len(s) : s[i] = s[j] => i = j

(* The arrays hold no entry twice, and are full where their loop runs.          *)
Shuffled ==
    /\ NoRepeat(iterconfig) /\ NoRepeat(itersite)
    /\ pc \in {"config", "gen_itersite", "site", "command", "exit"} =>
          Len(iterconfig) = Len(configs)
    /\ pc \in {"site", "command", "exit"} => Len(itersite) = Len(Sites)

(* Inside a loop its position is in its range.                                  *)
Positions ==
    /\ IF pc = "done" THEN iter = ITERATIONS + 1
                      ELSE pc # "iteration" => iter <= ITERATIONS
    /\ pc \in {"gen_itersite", "site", "command", "exit"} => ci <= Len(configs)
    /\ pc \in {"command", "exit"} => si <= Len(Sites)

(* The trials before the position of the three loops are those that were run,   *)
(* the one that ended the script included.                                      *)
Visited == IF pc = "exit" THEN si ELSE si - 1

Past(t) ==
    \/ t.iter < iter
    \/ /\ t.iter = iter
       /\ pc \in {"config", "gen_itersite", "site", "command", "exit"}
       /\ \/ \E c \in 1..(ci - 1) : iterconfig[c] = t.config
          \/ /\ pc \in {"site", "command", "exit"}
             /\ iterconfig[ci] = t.config
             /\ \E s \in 1..Visited : itersite[s] = t.url

RanSoFar == ran = {t \in Trials : Past(t)}

(* Nothing is past gen_iterconfig with a repeated configuration.                *)
DistinctPast ==
    \/ Distinct(configs)
    \/ iter = 1 /\ pc \in {"iteration", "gen_iterconfig", "done"}

IInv == TypeOK /\ Shuffled /\ Positions /\ RanSoFar /\ DistinctPast
-----------------------------------------------------------------------------
(* The usage text of permutate.sh: +url = url, +iter = iteration, +config =     *)
(* core configuration, so the flags of a run are those of its own trial.        *)
FlagsMatchTrial == pc = "command" => FLAGS = Trial
=============================================================================
