----------------------------- MODULE PageTiming -----------------------------
(***************************************************************************)
(* A run of the browser under the framework, from main to the death of its *)
(* processes: the environment experiment_init reads, the alarm of internal *)
(* timing, the page load time that SetReadyState records, and the log that *)
(* exit, _exit and the alarm's handler flush.                              *)
(*                                                                         *)
(* g3log, external, takes lines while logging is on and writes them to the *)
(* file later; shutting it down writes what it has taken, and a process    *)
(* that dies without that loses the rest.  Chromium, external, completes   *)
(* documents, spawns renderers, and ends on SIGINT or with its browser.    *)
(***************************************************************************)
EXTENDS LogAnalysis

CONSTANTS Browser, Renderers, \* the processes
          Threads,      \* the threads of a process
          TidOf,        \* of each process, the thread id that its lines carry
          Runs,         \* how the browser is started, and what its pages do
          Timeout,      \* of the alarm in ticks, TIMING or else 45 seconds
          MaxClock,     \* bound on the clock
          Function,     \* a measured function
          None          \* no time

Procs == {Browser} \cup Renderers

ASSUME PageTimingAssumption ==
    /\ IsFiniteSet(Renderers) /\ Browser \notin Renderers
    /\ IsFiniteSet(Threads)
    /\ Timeout \in Nat \ {0} /\ MaxClock \in Nat /\ Timeout <= MaxClock
    /\ \A r \in Runs :
          \* the environment variables; is argv[1] of the browser --no-zygote?
          /\ r.TIMING \in {"unset", "external", "number", "invalid"}
          /\ r.IPC \in {"unset", "on", "other"}
          /\ {r.MMAP_FILE, r.LOG_FILE, r.CORE_CONFIG, r.noZygote} \subseteq BOOLEAN
          \* renderers spawned, none with --single-process; threads with documents and
          \* bound on the measured calls in the processes with pages
          /\ r.renderers \subseteq Renderers
          /\ r.documents \subseteq Threads /\ r.calls \in Nat
    /\ None \notin Int

VARIABLES
    run,         \* how the browser was started
    now,         \* the clock
    pc,          \* where a process is
    logging,     \* g3log: "off", "on" or "shut"
    lines,       \* the lines LOG was given while logging was on
    written,     \* how many of them are in the file
    page_start,  \* set by experiment_init
    page_end,    \* shared by the threads of a process, seconds and fraction
    page_loaded,
    mark,        \* where a thread is in experiment_mark_page_loaded, and its local value
    firstMark,   \* when the first document of a process was complete
    overlapped,  \* two threads of the process were in the mark at a time
    callStart,   \* entry time of the measured call a process is in
    calls,       \* its measured calls so far
    alarm,       \* ticks to SIGALRM, or None
    handler,     \* sigalrm_handler: "none", "stopped" the experiment, "killed" the group
    sigint       \* processes with a pending SIGINT

clock    == <<now, run>>
log      == <<logging, lines, written>>
pageload == <<page_start, page_end, page_loaded, mark, firstMark, overlapped>>
measured == <<callStart, calls>>
signals  == <<alarm, handler, sigint>>
runVars  == <<clock, pc, log, pageload, measured, signals>>

external_timing == run.TIMING = "external"

\* The processes with pages.
Blink == IF run.renderers = {} THEN {Browser} ELSE run.renderers

NotMarking == <<"none", 0>>

Live(p)        == pc[p] = "running"
Initialized(p) == logging[p] # "off"
Exited         == {"exited", "died"}

LogLines ==
    LET tids  == {TidOf[p] : p \in Procs}
        times == 0..MaxClock
    IN       [fields : {9}, fn : {Function}, tid : tids, at : times]
       \cup [fields : {10}, fn : {Function}, tid : tids, at : times, ms : Int]
       \cup [fields : {8}, fn : {PageLoadTime}, tid : tids, at : times, ms : Int]

\* A thread's place in experiment_mark_page_loaded, with its part of a second or the
\* time it is going to log.
Marks == ({"fraction"} \X (0..(Ticks - 1))) \cup ({"none", "lock", "log"} \X Int)

TypeOK ==
    /\ run \in Runs /\ now \in 0..MaxClock
    /\ pc \in [Procs -> {"none", "running"} \cup Exited]
    /\ logging \in [Procs -> {"off", "on", "shut"}]
    /\ lines \in [Procs -> Seq(LogLines)]
    /\ written \in [Procs -> Nat]
    /\ \A p \in Procs : /\ written[p] \in 0..Len(lines[p])
                        /\ logging[p] = "off" => lines[p] = <<>>
                        /\ logging[p] # "off" => page_start[p] # None
    /\ page_start \in [Procs -> (0..MaxClock) \cup {None}]
    /\ page_end \in [Procs -> [s : 0..MaxClock, f : 0..(Ticks - 1)]]
    /\ page_loaded \in [Procs -> BOOLEAN]
    /\ mark \in [Procs -> [Threads -> Marks]]
    /\ firstMark \in [Procs -> (0..MaxClock) \cup {None}]
    /\ overlapped \in [Procs -> BOOLEAN]
    /\ callStart \in [Procs -> (0..MaxClock) \cup {None}]
    /\ calls \in [Procs -> Nat] /\ \A p \in Procs : calls[p] <= run.calls
    /\ alarm \in (0..Timeout) \cup {None} /\ handler \in {"none", "stopped", "killed"}
    /\ sigint \subseteq Procs

RunInit ==
    /\ run \in Runs
    /\ now = 0
    /\ pc = [p \in Procs |-> "none"]
    /\ logging = [p \in Procs |-> "off"]
    /\ lines = [p \in Procs |-> <<>>] /\ written = [p \in Procs |-> 0]
    /\ page_start = [p \in Procs |-> None]
    /\ page_end = [p \in Procs |-> [s |-> 0, f |-> 0]]
    /\ page_loaded = [p \in Procs |-> FALSE]
    /\ mark = [p \in Procs |-> [t \in Threads |-> NotMarking]]
    /\ firstMark = [p \in Procs |-> None]
    /\ overlapped = [p \in Procs |-> FALSE]
    /\ callStart = [p \in Procs |-> None] /\ calls = [p \in Procs |-> 0]
    /\ alarm = None /\ handler = "none" /\ sigint = {}

\* LOG: logging that is not on takes nothing.
LOG(p, line) == lines' = IF logging[p] = "on" THEN [lines EXCEPT ![p] = Append(@, line)]
                                              ELSE lines
-----------------------------------------------------------------------------
(* my_main, experiment_init and experiment_start_timer *)

\* The errors on which experiment_init calls exit.
Incomplete == \/ run.IPC = "on" /\ ~run.MMAP_FILE
              \/ ~run.LOG_FILE
              \/ run.IPC = "unset" /\ ~run.CORE_CONFIG

\* argv[1] decides whether a process is one of the experiment.
Measured(p) == p # Browser \/ run.noZygote

my_main(p) ==
    /\ pc[p] = "none"
    /\ p # Browser => p \in run.renderers /\ Live(Browser)  \* the browser spawns renderers
    /\ IF ~Measured(p) THEN pc' = [pc EXCEPT ![p] = "running"] /\ UNCHANGED <<logging, page_start, alarm>>
       ELSE /\ page_start' = [page_start EXCEPT ![p] = now]
            /\ IF Incomplete
               THEN pc' = [pc EXCEPT ![p] = "exited"] /\ UNCHANGED <<logging, alarm>>
               ELSE /\ pc' = [pc EXCEPT ![p] = "running"]
                    /\ logging' = [logging EXCEPT ![p] = "on"]
                    /\ alarm' = IF p = Browser /\ ~external_timing THEN Timeout ELSE alarm
    /\ UNCHANGED <<clock, lines, written, page_end, page_loaded, mark, firstMark, overlapped,
                   measured, handler, sigint>>

Tick ==
    /\ now < MaxClock /\ pc[Browser] # "none"
    /\ now' = now + 1
    /\ alarm' = IF alarm # None /\ alarm > 0 THEN alarm - 1 ELSE alarm
    /\ UNCHANGED <<run, pc, log, pageload, measured, handler, sigint>>
-----------------------------------------------------------------------------
(* Measured functions and page loads *)

Enter(p) ==
    /\ Live(p) /\ Initialized(p) /\ p \in Blink
    /\ callStart[p] = None /\ calls[p] < run.calls
    /\ LOG(p, EntryLine(TidOf[p], Function, now))
    /\ callStart' = [callStart EXCEPT ![p] = now]
    /\ calls' = [calls EXCEPT ![p] = @ + 1]
    /\ UNCHANGED <<clock, pc, logging, written, pageload, signals>>

Leave(p) ==
    /\ Live(p) /\ callStart[p] # None
    /\ LOG(p, ExitLine(TidOf[p], Function, now, now - callStart[p]))
    /\ callStart' = [callStart EXCEPT ![p] = None]
    /\ UNCHANGED <<clock, pc, logging, written, pageload, calls, signals>>

\* Mutant: every document that completes is a page load.
MarkEveryLoaded(p, t) ==
    /\ Live(p) /\ Initialized(p) /\ p \in Blink /\ t \in run.documents
    /\ mark[p][t] = NotMarking
    /\ ~external_timing
    /\ page_end' = [page_end EXCEPT ![p].s = now \div Ticks]
    /\ mark' = [mark EXCEPT ![p][t] = <<"fraction", now % Ticks>>]
    /\ firstMark' = [firstMark EXCEPT ![p] = IF @ = None THEN now ELSE @]
    /\ overlapped' = [overlapped EXCEPT
                         ![p] = @ \/ \E u \in Threads : mark[p][u][1] \in {"fraction", "lock"}]
    /\ UNCHANGED <<clock, pc, log, page_start, page_loaded, measured, signals>>

\* SetReadyState(kComplete): page_loaded is tested without time_mut, and clock_gettime
\* stores the seconds in page_end.
MarkLoaded(p, t) ==
    /\ Live(p) /\ Initialized(p) /\ p \in Blink /\ t \in run.documents
    /\ mark[p][t] = NotMarking
    /\ ~page_loaded[p] /\ ~external_timing
    /\ page_end' = [page_end EXCEPT ![p].s = now \div Ticks]
    /\ mark' = [mark EXCEPT ![p][t] = <<"fraction", now % Ticks>>]
    /\ firstMark' = [firstMark EXCEPT ![p] = IF @ = None THEN now ELSE @]
    /\ overlapped' = [overlapped EXCEPT
                         ![p] = @ \/ \E u \in Threads : mark[p][u][1] \in {"fraction", "lock"}]
    /\ UNCHANGED <<clock, pc, log, page_start, page_loaded, measured, signals>>

MarkFraction(p, t) ==
    /\ Live(p) /\ mark[p][t][1] = "fraction"
    /\ page_end' = [page_end EXCEPT ![p].f = mark[p][t][2]]
    /\ mark' = [mark EXCEPT ![p][t] = <<"lock", 0>>]
    /\ UNCHANGED <<clock, pc, log, page_start, page_loaded, firstMark, overlapped, measured, signals>>

\* Under time_mut, with whatever page_end holds by now.
MarkUnderLock(p, t) ==
    /\ Live(p) /\ mark[p][t][1] = "lock"
    /\ mark' = [mark EXCEPT ![p][t] =
                   <<"log", (page_end[p].s * Ticks + page_end[p].f) - page_start[p]>>]
    /\ page_loaded' = [page_loaded EXCEPT ![p] = TRUE]
    /\ UNCHANGED <<clock, pc, log, page_start, page_end, firstMark, overlapped, measured, signals>>

MarkLog(p, t) ==
    /\ Live(p) /\ mark[p][t][1] = "log"
    /\ LOG(p, LoadLine(TidOf[p], now, mark[p][t][2]))
    /\ mark' = [mark EXCEPT ![p][t] = NotMarking]
    /\ UNCHANGED <<clock, pc, logging, written, page_start, page_end, page_loaded, firstMark,
                   overlapped, measured, signals>>

MarkStep(p, t) == MarkLoaded(p, t) \/ MarkFraction(p, t) \/ MarkUnderLock(p, t) \/ MarkLog(p, t)
-----------------------------------------------------------------------------
(* The end of a process *)

\* Mutant: nothing is shut down.
experiment_ignore(p) == UNCHANGED log

\* Mutant: did_start is not tested.
experiment_stop_anyway(p) ==
    /\ logging' = [logging EXCEPT ![p] = "shut"]
    /\ written' = [written EXCEPT ![p] = Len(lines[p])]
    /\ UNCHANGED lines

\* experiment_stop: did_start is logging not off; the rest is shutDownLogging.
experiment_stop(p) ==
    /\ logging' = [logging EXCEPT ![p] = IF @ = "off" THEN @ ELSE "shut"]
    /\ written' = [written EXCEPT ![p] = IF logging[p] = "on" THEN Len(lines[p]) ELSE @]
    /\ UNCHANGED lines

\* exit and _exit first stop the experiment; what other threads log after that is lost.
Exit(p) ==
    /\ Live(p)
    /\ experiment_stop(p)
    /\ pc' = [pc EXCEPT ![p] = "exited"]
    /\ sigint' = sigint \ {p}
    /\ UNCHANGED <<clock, pageload, measured, alarm, handler>>

\* sigalrm_handler: the browser's log is closed, then its process group is interrupted.
sigalrm_handler ==
    /\ Live(Browser) /\ alarm = 0
    /\ experiment_stop(Browser)
    /\ alarm' = None /\ handler' = "stopped"
    /\ UNCHANGED <<clock, pc, pageload, measured, sigint>>

\* Mutant: the browser is not in its own group.
KillpgOthers ==
    /\ Live(Browser) /\ handler = "stopped"
    /\ handler' = "killed"
    /\ sigint' = {p \in Renderers : Live(p)}
    /\ UNCHANGED <<clock, pc, log, pageload, measured, alarm>>

Killpg ==
    /\ Live(Browser) /\ handler = "stopped"
    /\ handler' = "killed"
    /\ sigint' = {p \in Procs : Live(p)}
    /\ UNCHANGED <<clock, pc, log, pageload, measured, alarm>>

\* A process dies without a stop: the background thread of g3log has got so far.
Die(p) ==
    /\ pc' = [pc EXCEPT ![p] = "died"]
    /\ \E n \in written[p]..Len(lines[p]) : written' = [written EXCEPT ![p] = n]
    /\ sigint' = sigint \ {p}
    /\ UNCHANGED <<clock, logging, lines, pageload, measured, alarm, handler>>

\* SIGINT is fatal unless Chromium has a handler of its own, which exits.
Interrupted(p) == p \in sigint /\ Die(p)

\* Chromium or the user kills a process.
Killed(p) == Live(p) /\ Die(p)
-----------------------------------------------------------------------------
RunStep ==
    \/ Tick \/ sigalrm_handler \/ Killpg
    \/ \E p \in Procs : \/ my_main(p) \/ Enter(p) \/ Leave(p)
                        \/ Exit(p) \/ Interrupted(p) \/ Killed(p)
                        \/ \E t \in Threads : MarkStep(p, t)

\* What the machine does by itself: time passes, the browser starts, signals are handled,
\* and a renderer whose browser is gone exits.  Each of these happens finitely often.
\* Nothing is assumed of documents, calls, or a browser without a signal.
Progress ==
    \/ Tick \/ my_main(Browser) \/ sigalrm_handler \/ Killpg
    \/ \E p \in Procs : Interrupted(p)
    \/ pc[Browser] \in Exited /\ \E r \in Renderers : Exit(r)

RunFairness == WF_runVars(Progress)
-----------------------------------------------------------------------------
(* Properties *)

\* The lines with a page load time.
LoadTimes(p) == {k \in DOMAIN lines[p] : lines[p][k].fields = 8}

(* Internal timing records the page load time of a process once, and it is the time    *)
(* from experiment_init to the first document that was complete; only threads that     *)
(* pass the unlocked test together (line 229) record more, one each at most, or a      *)
(* time that is a mixture of theirs.  External timing records none.                    *)
FirstDocumentIsThePage ==
    \A p \in Procs :
        /\ external_timing => LoadTimes(p) = {}
        /\ Cardinality(LoadTimes(p)) <= Cardinality(Threads)
        /\ ~overlapped[p] =>
              /\ Cardinality(LoadTimes(p)) <= 1
              /\ \A k \in LoadTimes(p) : lines[p][k].ms = firstMark[p] - page_start[p]

(* A process that ends by exit or _exit, and the browser once its timer has expired,    *)
(* however it ends after that, leave every line they logged in the file; what other    *)
(* processes have not written when they are interrupted or killed is lost.             *)
NothingLostByExit ==
    \A p \in Procs :
        pc[p] = "exited" \/ (p = Browser /\ handler # "none") => written[p] = Len(lines[p])

(* With internal timing a browser that was started as the initial process ends, with   *)
(* all its renderers, also those spawned between the alarm and the end.                 *)
TimerEndsTheRun ==
    run.noZygote /\ ~external_timing ~> \A p \in Procs : pc[p] \in {"none"} \cup Exited
-----------------------------------------------------------------------------
(* The inductive invariant behind the safety properties, for one process *)

Marking(p) == {t \in Threads : mark[p][t][1] # "none"}

\* Who has not opened its log has done nothing, and who has ended keeps what is written.
LogInv(p) ==
    /\ logging[p] = "off" => written[p] = 0 /\ Marking(p) = {}
    /\ logging[p] # "off" => pc[p] # "none"
    /\ logging[p] = "shut" => written[p] = Len(lines[p])
    /\ pc[p] = "exited" => logging[p] # "on"
    /\ p = Browser /\ handler # "none" => logging[p] # "on" /\ pc[p] # "none"
    /\ p \in sigint => Live(p)

\* Every thread marks at most once: page_loaded is set before the first one returns.
OnceInv(p) ==
    /\ external_timing => Marking(p) = {} /\ LoadTimes(p) = {}
    /\ ~page_loaded[p] => LoadTimes(p) = {} /\ \A t \in Threads : mark[p][t][1] # "log"
    /\ ~page_loaded[p] /\ Marking(p) = {} => firstMark[p] = None
    /\ Marking(p) # {} => firstMark[p] # None
    /\ Cardinality(LoadTimes(p)) + Cardinality(Marking(p)) <= Cardinality(Threads)
    /\ ~overlapped[p] => Cardinality(LoadTimes(p)) + Cardinality(Marking(p)) <= 1

\* A thread that marks alone carries the time of the first document through page_end.
TimeInv(p) ==
    ~overlapped[p] =>
        /\ \A k \in LoadTimes(p) : lines[p][k].ms = firstMark[p] - page_start[p]
        /\ \A t \in Threads :
              /\ mark[p][t][1] = "fraction" =>
                    page_end[p].s * Ticks + mark[p][t][2] = firstMark[p]
              /\ mark[p][t][1] = "lock" =>
                    page_end[p].s * Ticks + page_end[p].f = firstMark[p]
              /\ mark[p][t][1] = "log" => mark[p][t][2] = firstMark[p] - page_start[p]

RunInv == TypeOK /\ \A p \in Procs : LogInv(p) /\ OnceInv(p) /\ TimeInv(p)
=============================================================================
