---------------------------- MODULE MeasuredRun ----------------------------
(***************************************************************************)
(* A run of the browser and the analysis of the log files it left: when    *)
(* all processes have ended, summarize.sh and processing.py read the       *)
(* files.                                                                  *)
(***************************************************************************)
EXTENDS PageTiming

VARIABLES summary,  \* the table, None before the analysis
          matrix    \* the rows that are plotted, <<>> before

vars == <<runVars, summary, matrix>>

\* Initialised processes have a log file each; ls lists them in some fixed order.
Files == LET logs == SetToSeq({p \in Procs : Initialized(p)})
         IN [k \in DOMAIN logs |-> SubSeq(lines[logs[k]], 1, written[logs[k]])]

\* No process of the run is left that could still write to its file.
RunOver == pc[Browser] \in Exited /\ \A p \in Renderers : ~Live(p)

Init == RunInit /\ summary = None /\ matrix = <<>>

Run == RunStep /\ UNCHANGED <<summary, matrix>>

\* Without log files there is nothing to summarise.
Analyse ==
    /\ RunOver /\ summary = None /\ Files # <<>>
    /\ summary' = Summary(Files)
    /\ matrix' \in gen_data_matrix(Files)
    /\ UNCHANGED runVars

Terminating ==
    /\ RunOver /\ (summary # None \/ Files = <<>>)
    /\ UNCHANGED vars

Next == Run \/ Analyse \/ Terminating

Spec == Init /\ [][Next]_vars /\ RunFairness
-----------------------------------------------------------------------------
Analysed == summary # None

\* The entries and exits that are in the files, by process and line.
WrittenCalls == {l \in UNION {{p} \X (1..written[p]) : p \in Procs} :
                    lines[l[1]][l[2]].fields # 8}

(* Every measurement of a process that ended through exit has its value in the summary, *)
(* and the summary has no value that was not measured: through the shutdown, the two     *)
(* filters and the grouping.  Equal times of a function are counted once only.           *)
SummaryOfTheRun ==
    Analysed =>
        /\ \A p \in Procs : pc[p] = "exited" =>
              \A k \in DOMAIN lines[p] : lines[p][k].fields # 9 =>
                  /\ lines[p][k].fn \in DOMAIN summary
                  /\ lines[p][k].ms \in summary[lines[p][k].fn].values
        /\ \A f \in DOMAIN summary, ms \in 0..MaxClock :
              ms \in summary[f].values =>
                  \E p \in Procs : \E k \in 1..written[p] :
                      lines[p][k].fields # 9 /\ lines[p][k].fn = f /\ lines[p][k].ms = ms

(* The plotted rows are the written entries and exits of all processes, each once, in   *)
(* the order of time within a second; across seconds they are not, as the microseconds  *)
(* count as milliseconds (processing.py:17).                                            *)
OrderWithinSeconds ==
    Analysed =>
        /\ \E line \in Bijection(DOMAIN matrix, WrittenCalls) :
              \A k \in DOMAIN matrix :
                 matrix[k] = process_line(lines[line[k][1]][line[k][2]])
        /\ \A j, k \in DOMAIN matrix :
              j < k /\ matrix[j].at \div Ticks = matrix[k].at \div Ticks
                 => matrix[j].at <= matrix[k].at

\* The inductive invariant: the files do not change once they are analysed.
IInv ==
    /\ RunInv
    /\ Analysed => RunOver /\ summary = Summary(Files) /\ matrix \in gen_data_matrix(Files)
=============================================================================
