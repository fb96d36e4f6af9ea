---------------------------- MODULE LogAnalysis ----------------------------
(***************************************************************************)
(* What is made of the log files of a run: the table of summarize.sh and   *)
(* the matrix of processing.py.  A file is the sequence of its lines, the  *)
(* four lines of its header left out.                                      *)
(***************************************************************************)
EXTENDS Integers, SequencesExt, FiniteSetsExt

CONSTANT Ticks  \* clock ticks of a second

Microseconds == 1000000  \* of a second, which time stamps have

ASSUME LogAnalysisAssumption == Ticks \in Nat \ {0} /\ Ticks <= Microseconds

PageLoadTime == "PageLoadTime"

\* LOG lines: entry and exit of a call, and the page load time.
EntryLine(tid, f, now)      == [fields |-> 9,  fn |-> f, tid |-> tid, at |-> now]
ExitLine(tid, f, now, ms)   == [fields |-> 10, fn |-> f, tid |-> tid, at |-> now, ms |-> ms]
LoadLine(tid, now, ms)      == [fields |-> 8, fn |-> PageLoadTime, tid |-> tid, at |-> now,
                                ms |-> ms]
-----------------------------------------------------------------------------
(* summarize.sh *)

\* Mutant: the filter of the page load times looks at another field count.
RowsWithoutLoads(lines) ==
    {[fn |-> line.fn, ms |-> line.ms] : line \in {l \in ToSet(lines) : l.fields = 10}}

\* The two awk filters over a file; the order of the rows does not outlive sort | uniq.
Rows(lines) ==
    LET Exit(line) == line.fields = 10
        Load(line) == line.fields = 8 /\ line.fn = PageLoadTime
    IN {[fn |-> line.fn, ms |-> line.ms] :
           line \in {l \in ToSet(lines) : Exit(l) \/ Load(l)}}

FuncLog(files) == UNION {Rows(files[k]) : k \in DOMAIN files}

\* sort | uniq, grouped by function: equal rows count once.
Summary(files) ==
    LET rows == FuncLog(files)
    IN [f \in {r.fn : r \in rows} |->
           LET ms == {r.ms : r \in {q \in rows : q.fn = f}}
           IN [count |-> Cardinality(ms), min |-> Min(ms), max |-> Max(ms), values |-> ms]]
-----------------------------------------------------------------------------
(* processing.py *)

\* The microseconds are added as if they were milliseconds.
time_ms(line) == (line.at \div Ticks) * 1000 + (line.at % Ticks) * (Microseconds \div Ticks)

\* Entries and exits; a thread id has 16 bits.
Accepted(line)     == line.fields \in 9..10
process_line(line) == [time_ms |-> time_ms(line), tid |-> line.tid % 2^16, fn |-> line.fn,
                       at |-> line.at]

\* The accepted lines, by file and line.
AcceptedLines(files) == {l \in UNION {{n} \X DOMAIN files[n] : n \in DOMAIN files} :
                            Accepted(files[l[1]][l[2]])}

\* Their rows in any order.
Matrices(files) ==
    {[k \in DOMAIN order |-> process_line(files[order[k][1]][order[k][2]])] :
        order \in Bijection(1..Cardinality(AcceptedLines(files)), AcceptedLines(files))}

\* Mutant: the rows are not sorted.
gen_unsorted_matrix(files) == Matrices(files)

\* argsort leaves rows of the same time in no particular order.
gen_data_matrix(files) ==
    {rows \in Matrices(files) :
        \A j, k \in DOMAIN rows : j < k => rows[j].time_ms <= rows[k].time_ms}
=============================================================================
