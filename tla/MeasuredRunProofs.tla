------------------------- MODULE MeasuredRunProofs -------------------------
(***************************************************************************)
(* Proofs about MeasuredRun, for any processes, threads, clock and ways to *)
(* start the browser.  The inductive invariant is stated in PageTiming     *)
(* (RunInv, one process at a time) and MeasuredRun (IInv).                 *)
(***************************************************************************)
EXTENDS MeasuredRun, FiniteSetTheorems, SequenceTheorems, TLAPS

USE LogAnalysisAssumption, PageTimingAssumption

\* Seconds and part of a second.
LEMMA DivMod ==
  \A n \in Nat : /\ n \div Ticks \in 0..n
                 /\ n % Ticks \in 0..(Ticks - 1)
                 /\ (n \div Ticks) * Ticks + (n % Ticks) = n
<1>1. \A n \in Nat : \A d \in Nat \ {0} :
        /\ n \div d \in 0..n
        /\ n % d \in 0..(d - 1)
        /\ n = (n \div d) * d + (n % d)
  BY Z3
<1> QED
  BY <1>1

\* A tick of the clock is no missing time.
LEMMA NoTime == \A n \in Int : n # None
OBVIOUS

\* The components of TypeOK, the ones of a process one by one.
LEMMA Types ==
  ASSUME TypeOK
  PROVE  /\ now \in 0..MaxClock /\ now \in Nat
         /\ pc \in [Procs -> {"none", "running"} \cup Exited]
         /\ logging \in [Procs -> {"off", "on", "shut"}]
         /\ lines \in [Procs -> Seq(LogLines)]
         /\ written \in [Procs -> Nat]
         /\ page_start \in [Procs -> (0..MaxClock) \cup {None}]
         /\ page_end \in [Procs -> [s : 0..MaxClock, f : 0..(Ticks - 1)]]
         /\ page_loaded \in [Procs -> BOOLEAN]
         /\ mark \in [Procs -> [Threads -> Marks]]
         /\ firstMark \in [Procs -> (0..MaxClock) \cup {None}]
         /\ overlapped \in [Procs -> BOOLEAN]
         /\ callStart \in [Procs -> (0..MaxClock) \cup {None}]
         /\ calls \in [Procs -> Nat]
         /\ run \in Runs
BY DEF TypeOK

\* What LOG is given are lines of a log.
LEMMA LineTypes ==
  ASSUME NEW p \in Procs, NEW t \in 0..MaxClock, NEW ms \in Int
  PROVE  /\ EntryLine(TidOf[p], Function, t) \in LogLines
         /\ ExitLine(TidOf[p], Function, t, ms) \in LogLines
         /\ LoadLine(TidOf[p], t, ms) \in LogLines
BY DEF EntryLine, ExitLine, LoadLine, LogLines

\* The effect of LOG on the lines of a process.
LEMMA LogEffect ==
  ASSUME TypeOK, NEW p \in Procs, NEW line \in LogLines, LOG(p, line)
  PROVE  /\ lines' \in [Procs -> Seq(LogLines)]
         /\ \A q \in Procs : q # p => lines'[q] = lines[q]
         /\ logging[p] = "on" => lines'[p] = Append(lines[p], line)
         /\ logging[p] # "on" => lines'[p] = lines[p]
<1>1. lines \in [Procs -> Seq(LogLines)]
  BY Types
<1>2. CASE logging[p] = "on"
  <2>1. Append(lines[p], line) \in Seq(LogLines)
    BY <1>1, AppendProperties
  <2>2. lines' = [lines EXCEPT ![p] = Append(lines[p], line)]
    BY <1>2 DEF LOG
  <2> QED
    BY <1>1, <1>2, <2>1, <2>2
<1>3. CASE logging[p] # "on"
  BY <1>1, <1>3 DEF LOG
<1> QED
  BY <1>2, <1>3

\* LOG never takes a line back, and a closed log takes none.
LEMMA LogKeeps ==
  ASSUME TypeOK, NEW p \in Procs, NEW line \in LogLines, LOG(p, line), NEW q \in Procs
  PROVE  /\ written[q] \in 0..Len(lines'[q])
         /\ logging[q] = "off" => lines'[q] = <<>>
<1>1. /\ lines[q] \in Seq(LogLines)
      /\ written[q] \in 0..Len(lines[q])
      /\ logging[q] = "off" => lines[q] = <<>>
  BY DEF TypeOK
<1>2. CASE lines'[q] = lines[q]
  BY <1>1, <1>2
<1>3. CASE q = p /\ logging[p] = "on"
  <2>1. lines'[q] = Append(lines[q], line)
    BY <1>3, LogEffect
  <2>2. Len(lines'[q]) = Len(lines[q]) + 1 /\ Len(lines[q]) \in Nat
    BY <1>1, <2>1, AppendProperties, LenProperties
  <2> QED
    BY <1>1, <1>3, <2>2
<1> QED
  BY <1>2, <1>3, LogEffect
-----------------------------------------------------------------------------
(* Types *)

\* experiment_stop keeps the types of the log.
LEMMA StopTypes ==
  ASSUME TypeOK, NEW p \in Procs, experiment_stop(p)
  PROVE  /\ logging' \in [Procs -> {"off", "on", "shut"}]
         /\ written' \in [Procs -> Nat]
         /\ lines' = lines
         /\ \A q \in Procs : /\ written'[q] \in 0..Len(lines[q])
                             /\ (logging'[q] = "off") <=> (logging[q] = "off")
<1>1. /\ logging \in [Procs -> {"off", "on", "shut"}]
      /\ lines \in [Procs -> Seq(LogLines)]
      /\ written \in [Procs -> Nat]
      /\ \A q \in Procs : written[q] \in 0..Len(lines[q])
  BY DEF TypeOK
<1>2. Len(lines[p]) \in Nat
  BY <1>1, LenProperties
<1> QED
  BY <1>1, <1>2 DEF experiment_stop

\* The time a thread is going to log.
LEMMA LoadTimeType ==
  ASSUME TypeOK, NEW p \in Procs, LogInv(p), NEW t \in Threads, mark[p][t][1] = "lock"
  PROVE  (page_end[p].s * Ticks + page_end[p].f) - page_start[p] \in Int
<1>1. page_start[p] # None
  BY DEF LogInv, Marking, TypeOK
<1>2. page_start[p] \in 0..MaxClock
  BY <1>1, Types
<1>3. page_end[p].s \in 0..MaxClock /\ page_end[p].f \in 0..(Ticks - 1)
  BY Types
<1>4. page_start[p] \in Int /\ page_end[p].s \in Int /\ page_end[p].f \in Int /\ Ticks \in Int
  BY <1>2, <1>3
<1> QED
  BY <1>4

\* Every step of the run keeps the types.
LEMMA TypeStep == TypeOK /\ (\A p \in Procs : LogInv(p)) /\ [RunStep]_runVars => TypeOK'
<1> SUFFICES ASSUME TypeOK, \A p \in Procs : LogInv(p), [RunStep]_runVars PROVE TypeOK'
  OBVIOUS
<1> USE DEF clock, log, pageload, measured, signals
<1>1. CASE Tick
  <2>1. now' \in 0..MaxClock /\ alarm' \in (0..Timeout) \cup {None}
    BY <1>1 DEF Tick, TypeOK
  <2> QED
    BY <1>1, <2>1 DEF Tick, TypeOK
<1>2. CASE sigalrm_handler
  <2>1. Browser \in Procs /\ experiment_stop(Browser)
    BY <1>2 DEF sigalrm_handler, Procs
  <2>2. /\ logging' \in [Procs -> {"off", "on", "shut"}]
        /\ written' \in [Procs -> Nat]
        /\ lines' = lines
        /\ \A q \in Procs : /\ written'[q] \in 0..Len(lines[q])
                            /\ (logging'[q] = "off") <=> (logging[q] = "off")
    BY <2>1, StopTypes
  <2> QED
    BY <1>2, <2>2 DEF sigalrm_handler, TypeOK
<1>3. CASE Killpg
  BY <1>3 DEF Killpg, TypeOK
<1>4. ASSUME NEW p \in Procs, my_main(p) PROVE TypeOK'
  <2>1. page_start' \in [Procs -> (0..MaxClock) \cup {None}]
    BY SMTT(30), <1>4 DEF my_main, TypeOK
  <2>2. logging' \in [Procs -> {"off", "on", "shut"}] /\ pc' \in [Procs -> {"none", "running"} \cup Exited]
    BY <1>4 DEF my_main, TypeOK, Exited
  <2>3. alarm' \in (0..Timeout) \cup {None}
    BY <1>4 DEF my_main, TypeOK
  <2>4. \A q \in Procs : /\ logging'[q] = "off" => lines[q] = <<>>
                         /\ logging'[q] # "off" => page_start'[q] # None
    BY SMTT(30), <1>4 DEF my_main, TypeOK
  <2> QED
    BY <1>4, <2>1, <2>2, <2>3, <2>4 DEF my_main, TypeOK
<1>5. ASSUME NEW p \in Procs, Enter(p) PROVE TypeOK'
  <2>1. PICK line \in LogLines : LOG(p, line)
    BY <1>5, LineTypes, Types DEF Enter
  <2>2. lines' \in [Procs -> Seq(LogLines)]
    BY <2>1, LogEffect
  <2>3. \A q \in Procs : /\ written[q] \in 0..Len(lines'[q])
                         /\ logging[q] = "off" => lines'[q] = <<>>
    BY <2>1, LogKeeps
  <2>4. calls' \in [Procs -> Nat] /\ \A q \in Procs : calls'[q] <= run.calls
    <3>1. calls \in [Procs -> Nat] /\ \A q \in Procs : calls[q] <= run.calls
      BY DEF TypeOK
    <3>2. run.calls \in Nat
      BY Types
    <3>3. calls' = [calls EXCEPT ![p] = calls[p] + 1] /\ calls[p] < run.calls
      BY <1>5 DEF Enter
    <3> QED
      BY <3>1, <3>2, <3>3
  <2>5. callStart' \in [Procs -> (0..MaxClock) \cup {None}]
    BY <1>5 DEF Enter, TypeOK
  <2> QED
    BY <1>5, <2>2, <2>3, <2>4, <2>5 DEF Enter, TypeOK
<1>6. ASSUME NEW p \in Procs, Leave(p) PROVE TypeOK'
  <2>1. now - callStart[p] \in Int
    BY <1>6, Types DEF Leave
  <2>2. PICK line \in LogLines : LOG(p, line)
    BY <1>6, <2>1, LineTypes, Types DEF Leave
  <2>3. lines' \in [Procs -> Seq(LogLines)]
    BY <2>2, LogEffect
  <2>4. \A q \in Procs : /\ written[q] \in 0..Len(lines'[q])
                         /\ logging[q] = "off" => lines'[q] = <<>>
    BY <2>2, LogKeeps
  <2>5. callStart' \in [Procs -> (0..MaxClock) \cup {None}]
    BY <1>6 DEF Leave, TypeOK
  <2> QED
    BY <1>6, <2>3, <2>4, <2>5 DEF Leave, TypeOK
<1>7. ASSUME NEW p \in Procs, Exit(p) PROVE TypeOK'
  <2>1. pc' \in [Procs -> {"none", "running"} \cup Exited]
    BY <1>7 DEF Exit, TypeOK, Exited
  <2>2. experiment_stop(p) /\ sigint' \subseteq Procs
    BY <1>7 DEF Exit, TypeOK
  <2> QED
    BY <1>7, <2>1, <2>2, StopTypes DEF Exit, TypeOK
<1>8. ASSUME NEW p \in Procs, Die(p) PROVE TypeOK'
  <2>1. pc' \in [Procs -> {"none", "running"} \cup Exited]
    BY <1>8 DEF Die, TypeOK, Exited
  <2>2. /\ written' \in [Procs -> Nat]
        /\ \A q \in Procs : written'[q] \in 0..Len(lines[q])
    BY <1>8, LenProperties, Types DEF Die, TypeOK
  <2> QED
    BY <1>8, <2>1, <2>2 DEF Die, TypeOK
<1>9. ASSUME NEW p \in Procs, NEW t \in Threads, MarkLoaded(p, t) PROVE TypeOK'
  <2>1. /\ now \div Ticks \in 0..MaxClock
        /\ now % Ticks \in 0..(Ticks - 1)
    <3>1. now \in Nat /\ MaxClock \in Nat /\ now <= MaxClock
      BY Types
    <3> QED
      BY <3>1, DivMod
  <2>2. page_end' \in [Procs -> [s : 0..MaxClock, f : 0..(Ticks - 1)]]
    BY ZenonT(30), <1>9, <2>1, Types DEF MarkLoaded
  <2>3. mark' \in [Procs -> [Threads -> Marks]]
    <3>1. <<"fraction", now % Ticks>> \in Marks
      BY <2>1 DEF Marks
    <3> QED
      BY <1>9, <3>1, Types DEF MarkLoaded
  <2>4. firstMark' \in [Procs -> (0..MaxClock) \cup {None}]
    BY <1>9, Types DEF MarkLoaded
  <2>5. overlapped' \in [Procs -> BOOLEAN]
    <3>1. PICK b : overlapped' = [overlapped EXCEPT ![p] = @ \/ b]
      BY <1>9 DEF MarkLoaded
    <3> QED
      BY <3>1, Types
  <2> QED
    BY <1>9, <2>2, <2>3, <2>4, <2>5 DEF MarkLoaded, TypeOK
<1>10. ASSUME NEW p \in Procs, NEW t \in Threads, MarkFraction(p, t) PROVE TypeOK'
  <2>1. mark[p][t][2] \in 0..(Ticks - 1)
    <3>1. mark[p][t] \in Marks /\ mark[p][t][1] = "fraction"
      BY <1>10, Types DEF MarkFraction
    <3> QED
      BY <3>1 DEF Marks
  <2>2. page_end' \in [Procs -> [s : 0..MaxClock, f : 0..(Ticks - 1)]]
    BY ZenonT(30), <1>10, <2>1, Types DEF MarkFraction
  <2>3. mark' \in [Procs -> [Threads -> Marks]]
    BY <1>10, Types DEF MarkFraction, Marks
  <2> QED
    BY <1>10, <2>2, <2>3 DEF MarkFraction, TypeOK
<1>11. ASSUME NEW p \in Procs, NEW t \in Threads, MarkUnderLock(p, t) PROVE TypeOK'
  <2>1. (page_end[p].s * Ticks + page_end[p].f) - page_start[p] \in Int
    BY <1>11, LoadTimeType DEF MarkUnderLock
  <2>2. mark' \in [Procs -> [Threads -> Marks]]
    <3>1. <<"log", (page_end[p].s * Ticks + page_end[p].f) - page_start[p]>> \in Marks
      BY <2>1 DEF Marks
    <3> QED
      BY <1>11, <3>1, Types DEF MarkUnderLock
  <2>3. page_loaded' \in [Procs -> BOOLEAN]
    BY <1>11, Types DEF MarkUnderLock
  <2> QED
    BY <1>11, <2>2, <2>3 DEF MarkUnderLock, TypeOK
<1>12. ASSUME NEW p \in Procs, NEW t \in Threads, MarkLog(p, t) PROVE TypeOK'
  <2>1. mark[p][t][2] \in Int
    <3>1. mark[p][t] \in Marks
      BY Types
    <3> QED
      BY <3>1 DEF Marks
  <2>2. PICK line \in LogLines : LOG(p, line)
    BY <1>12, <2>1, LineTypes, Types DEF MarkLog
  <2>3. lines' \in [Procs -> Seq(LogLines)]
    BY <2>2, LogEffect
  <2>4. \A q \in Procs : /\ written[q] \in 0..Len(lines'[q])
                         /\ logging[q] = "off" => lines'[q] = <<>>
    BY <2>2, LogKeeps
  <2>5. mark' \in [Procs -> [Threads -> Marks]]
    BY <1>12, Types DEF MarkLog, Marks, NotMarking
  <2> QED
    BY <1>12, <2>3, <2>4, <2>5 DEF MarkLog, TypeOK
<1>13. CASE UNCHANGED runVars
  BY <1>13 DEF TypeOK, runVars
<1> QED
  BY <1>1, <1>2, <1>3, <1>4, <1>5, <1>6, <1>7, <1>8, <1>9, <1>10, <1>11, <1>12, <1>13
  DEF RunStep, Interrupted, Killed, MarkStep
-----------------------------------------------------------------------------
(* The log of a process *)

\* A process whose log, marks and end are left alone keeps LogInv.
LEMMA LogFrame ==
  ASSUME NEW q \in Procs, LogInv(q),
         UNCHANGED <<pc[q], logging[q], lines[q], written[q], mark[q], handler>>,
         q \in sigint' => q \in sigint
  PROVE  LogInv(q)'
BY DEF LogInv, Marking, Live

\* experiment_stop closes a log that is open.
LEMMA StopEffect ==
  ASSUME TypeOK, NEW p \in Procs, experiment_stop(p)
  PROVE  /\ lines' = lines
         /\ \A q \in Procs \ {p} : logging'[q] = logging[q] /\ written'[q] = written[q]
         /\ logging'[p] # "on"
         /\ (logging'[p] = "off") <=> (logging[p] = "off")
         /\ logging[p] = "on" => written'[p] = Len(lines[p])
         /\ logging[p] # "on" => written'[p] = written[p]
BY Types DEF experiment_stop

\* Every step keeps LogInv.
LEMMA LogStep ==
  ASSUME TypeOK, \A p \in Procs : LogInv(p), [RunStep]_runVars, NEW q \in Procs
  PROVE  LogInv(q)'
<1> USE DEF clock, log, pageload, measured, signals
<1>0. /\ LogInv(q)
      /\ pc \in [Procs -> {"none", "running"} \cup Exited]
      /\ logging \in [Procs -> {"off", "on", "shut"}]
      /\ written \in [Procs -> Nat]
      /\ mark \in [Procs -> [Threads -> Marks]]
  BY Types
<1>1. CASE Tick \/ UNCHANGED runVars
  BY <1>0, <1>1, LogFrame DEF Tick, runVars
<1>2. CASE sigalrm_handler
  <2>1. Browser \in Procs /\ experiment_stop(Browser) /\ pc[Browser] = "running"
    BY <1>2 DEF sigalrm_handler, Procs, Live
  <2>2. UNCHANGED <<pc, mark, sigint>>
    BY <1>2 DEF sigalrm_handler
  <2>3. CASE q = Browser
    BY <1>0, <2>1, <2>2, <2>3, StopEffect DEF LogInv, Marking, Live
  <2>4. CASE q # Browser
    BY <1>0, <2>1, <2>2, <2>4, StopEffect DEF LogInv, Marking, Live
  <2> QED
    BY <2>3, <2>4
<1>3. CASE Killpg
  BY <1>0, <1>3 DEF Killpg, LogInv, Marking, Live
<1>4. ASSUME NEW p \in Procs, my_main(p) PROVE LogInv(q)'
  <2>1. UNCHANGED <<lines, written, mark, handler, sigint>>
    BY <1>4 DEF my_main
  <2>2. CASE q # p
    <3>1. UNCHANGED <<pc[q], logging[q]>>
      BY <1>0, <1>4, <2>2 DEF my_main
    <3> QED
      BY <1>0, <2>1, <3>1, LogFrame
  <2>3. CASE q = p
    <3>1. logging[q] = "off" /\ pc[q] = "none" /\ written[q] = 0 /\ Marking(q) = {}
      BY <1>0, <1>4, <2>3 DEF my_main, LogInv
    <3>2. \/ pc'[q] = "running" /\ logging'[q] \in {"off", "on"}
          \/ pc'[q] = "exited" /\ logging'[q] = "off"
      BY <1>0, <1>4, <2>3, <3>1 DEF my_main
    <3>3. lines[q] = <<>> /\ q \notin sigint
      BY <1>0, <3>1 DEF TypeOK, LogInv, Live
    <3>4. ~(q = Browser /\ handler # "none")
      BY <1>0, <3>1 DEF LogInv
    <3> QED
      BY <2>1, <3>1, <3>2, <3>3, <3>4 DEF LogInv, Marking, Live
  <2> QED
    BY <2>2, <2>3
<1>5. ASSUME NEW p \in Procs, NEW line \in LogLines, LOG(p, line),
             Live(p), logging[p] # "off",
             UNCHANGED <<pc, logging, written, handler, sigint>>,
             \A t \in Threads : mark'[q][t][1] = mark[q][t][1] \/ mark'[q][t][1] = "none"
      PROVE  LogInv(q)'
  <2>1. logging[q] = "shut" => lines'[q] = lines[q]
    BY <1>5, LogEffect
  <2>2. Marking(q)' \subseteq Marking(q)
    BY <1>5 DEF Marking
  <2> QED
    BY <1>0, <1>5, <2>1, <2>2 DEF LogInv, Live
<1>6. ASSUME NEW p \in Procs, Enter(p) PROVE LogInv(q)'
  <2>1. EntryLine(TidOf[p], Function, now) \in LogLines
    BY LineTypes, Types
  <2> QED
    BY <1>5, <1>6, <2>1 DEF Enter, Initialized
<1>7. ASSUME NEW p \in Procs, Leave(p) PROVE LogInv(q)'
  <2>1. now - callStart[p] \in Int
    BY SMTT(30), <1>7, Types DEF Leave
  <2>2. PICK line \in LogLines : LOG(p, line)
    BY <1>7, <2>1, LineTypes, Types DEF Leave
  <2>3. CASE logging[p] = "on"
    BY <1>5, <1>7, <2>2, <2>3 DEF Leave
  <2>4. CASE logging[p] # "on"
    <3>1. lines'[q] = lines[q]
      BY <2>2, <2>4, LogEffect
    <3> QED
      BY <1>0, <1>7, <3>1, LogFrame DEF Leave
  <2> QED
    BY <2>3, <2>4
<1>8. ASSUME NEW p \in Procs, Exit(p) PROVE LogInv(q)'
  <2>1. experiment_stop(p) /\ pc[p] = "running" /\ UNCHANGED <<mark, handler>>
    BY <1>8 DEF Exit, Live
  <2>2. pc' = [pc EXCEPT ![p] = "exited"] /\ sigint' = sigint \ {p}
    BY <1>8 DEF Exit
  <2>3. CASE q = p
    BY <1>0, <2>1, <2>2, <2>3, StopEffect DEF LogInv, Marking, Live
  <2>4. CASE q # p
    BY <1>0, <2>1, <2>2, <2>4, StopEffect DEF LogInv, Marking, Live
  <2> QED
    BY <2>3, <2>4
<1>9. ASSUME NEW p \in Procs, Die(p), Live(p) PROVE LogInv(q)'
  <2>1. CASE q # p
    <3>1. UNCHANGED <<pc[q], logging[q], lines[q], written[q], mark[q], handler>>
      BY <1>0, <1>9, <2>1 DEF Die
    <3> QED
      BY <1>0, <1>9, <3>1, LogFrame DEF Die
  <2>2. CASE q = p
    <3>1. PICK n \in written[p]..Len(lines[p]) : written' = [written EXCEPT ![p] = n]
      BY <1>9 DEF Die
    <3>2. /\ lines[p] \in Seq(LogLines)
          /\ logging[p] = "off" => lines[p] = <<>>
      BY DEF TypeOK
    <3>3. Len(lines[p]) \in Nat /\ (logging[p] = "off" => Len(lines[p]) = 0)
      BY <3>2, LenProperties
    <3>4. /\ logging[p] = "off" => written'[p] = 0
          /\ logging[p] = "shut" => written'[p] = Len(lines[p])
      BY <1>0, <2>2, <3>1, <3>3 DEF LogInv
    <3>5. /\ pc'[q] = "died" /\ q \notin sigint'
          /\ UNCHANGED <<logging, lines, mark, handler>>
      BY <1>0, <1>9, <2>2 DEF Die
    <3> QED
      BY <1>0, <1>9, <2>2, <3>4, <3>5 DEF LogInv, Marking, Live
  <2> QED
    BY <2>1, <2>2
<1>10. ASSUME NEW p \in Procs, NEW t \in Threads,
              MarkLoaded(p, t) \/ MarkFraction(p, t) \/ MarkUnderLock(p, t)
       PROVE  LogInv(q)'
  <2>1. UNCHANGED <<pc, logging, lines, written, handler, sigint>>
    BY <1>10 DEF MarkLoaded, MarkFraction, MarkUnderLock
  <2>2. logging[p] # "off"
    BY <1>10 DEF MarkLoaded, MarkFraction, MarkUnderLock, Initialized, LogInv, Marking
  <2>3. q # p => mark'[q] = mark[q]
    BY <1>0, <1>10 DEF MarkLoaded, MarkFraction, MarkUnderLock
  <2> QED
    BY <1>0, <2>1, <2>2, <2>3 DEF LogInv, Marking, Live
<1>11. ASSUME NEW p \in Procs, NEW t \in Threads, MarkLog(p, t) PROVE LogInv(q)'
  <2>1. mark[p][t][2] \in Int
    <3>1. mark[p][t] \in Marks
      BY <1>0
    <3> QED
      BY <3>1 DEF Marks
  <2>2. PICK line \in LogLines : LOG(p, line)
    BY <1>11, <2>1, LineTypes, Types DEF MarkLog
  <2>3. logging[p] # "off" /\ Live(p)
    BY <1>11 DEF MarkLog, LogInv, Marking
  <2>4. \A u \in Threads : mark'[q][u][1] = mark[q][u][1] \/ mark'[q][u][1] = "none"
    BY <1>0, <1>11 DEF MarkLog, NotMarking
  <2>5. UNCHANGED <<pc, logging, written, handler, sigint>>
    BY <1>11 DEF MarkLog
  <2> QED
    BY <1>5, <2>2, <2>3, <2>4, <2>5
<1>12. ASSUME NEW p \in Procs, Interrupted(p) PROVE LogInv(q)'
  BY <1>9, <1>12 DEF Interrupted, LogInv
<1> QED
  BY <1>1, <1>2, <1>3, <1>4, <1>6, <1>7, <1>8, <1>9, <1>10, <1>11, <1>12
  DEF RunStep, Killed, MarkStep
-----------------------------------------------------------------------------
(* The page load times of a process *)

\* The sets whose sizes are compared are finite.
LEMMA Sizes ==
  ASSUME TypeOK, NEW q \in Procs
  PROVE  /\ IsFiniteSet(LoadTimes(q)) /\ Cardinality(LoadTimes(q)) \in Nat
         /\ IsFiniteSet(Marking(q)) /\ Cardinality(Marking(q)) \in Nat
         /\ Cardinality(Marking(q)) <= Cardinality(Threads)
         /\ Cardinality(Threads) \in Nat
<1>1. lines[q] \in Seq(LogLines)
  BY Types
<1>2. Len(lines[q]) \in Nat /\ DOMAIN lines[q] = 1..Len(lines[q])
  BY <1>1, LenProperties
<1>3. IsFiniteSet(1..Len(lines[q])) /\ LoadTimes(q) \in SUBSET (1..Len(lines[q]))
  BY <1>2, FS_Interval DEF LoadTimes
<1>4. IsFiniteSet(Threads) /\ Marking(q) \in SUBSET Threads
  BY DEF Marking
<1>5. /\ IsFiniteSet(LoadTimes(q)) /\ IsFiniteSet(Marking(q))
      /\ Cardinality(Marking(q)) <= Cardinality(Threads)
  BY <1>3, <1>4, FS_Subset
<1> QED
  BY <1>4, <1>5, FS_CardinalityType

\* A set of at most one element.
LEMMA AtMostOne ==
  ASSUME NEW S, IsFiniteSet(S), Cardinality(S) <= 1, NEW t \in S, NEW u \in S
  PROVE  t = u
<1> SUFFICES ASSUME t # u PROVE FALSE
  OBVIOUS
<1>1. /\ IsFiniteSet(S \ {t})
      /\ Cardinality(S \ {t}) = Cardinality(S) - 1
      /\ Cardinality(S \ {t}) \in Nat
      /\ Cardinality(S) \in Nat
  BY FS_RemoveElement, FS_CardinalityType
<1>2. Cardinality(S \ {t}) = 0
  BY <1>1
<1> QED
  BY <1>1, <1>2, FS_EmptySet

\* Without an overlap a marking thread is alone.
LEMMA Alone ==
  ASSUME TypeOK, NEW q \in Procs, OnceInv(q), ~overlapped[q],
         NEW t \in Marking(q), NEW u \in Marking(q)
  PROVE  t = u
<1>1. Cardinality(LoadTimes(q)) + Cardinality(Marking(q)) <= 1
  BY DEF OnceInv
<1>2. Cardinality(Marking(q)) <= 1
  BY <1>1, Sizes
<1> QED
  BY <1>2, Sizes, AtMostOne

\* The load times of q stay as they are.
LoadsKept(q) == /\ LoadTimes(q)' = LoadTimes(q)
                /\ \A k \in LoadTimes(q) : lines'[q][k] = lines[q][k]

\* A process that does not mark keeps its invariant.
LEMMA MarkFrame ==
  ASSUME NEW q \in Procs, OnceInv(q), TimeInv(q), LoadsKept(q),
         UNCHANGED <<run, page_loaded[q], mark[q], firstMark[q], overlapped[q],
                     page_start[q], page_end[q]>>
  PROVE  OnceInv(q)' /\ TimeInv(q)'
<1>1. Marking(q)' = Marking(q)
  BY DEF Marking
<1>2. LoadTimes(q)' = LoadTimes(q)
  BY DEF LoadsKept
<1>3. OnceInv(q)'
  BY <1>1, <1>2 DEF OnceInv, external_timing
<1>4. TimeInv(q)'
  BY <1>2 DEF TimeInv, LoadsKept
<1> QED
  BY <1>3, <1>4

\* The line of a call is no load time, the one of experiment_mark_page_loaded is.
LEMMA LogLoads ==
  ASSUME TypeOK, NEW p \in Procs, NEW line \in LogLines, LOG(p, line), NEW q \in Procs
  PROVE  /\ line.fields # 8 => LoadsKept(q)
         /\ q # p => LoadsKept(q)
         /\ \/ LoadsKept(q)
            \/ \E n : /\ n \notin LoadTimes(q)
                      /\ LoadTimes(q)' = LoadTimes(q) \cup {n}
                      /\ \A k \in LoadTimes(q) : lines'[q][k] = lines[q][k]
                      /\ lines'[q][n] = line
<1>1. lines[q] \in Seq(LogLines)
  BY Types
<1>2. CASE lines'[q] = lines[q]
  BY <1>2 DEF LoadsKept, LoadTimes
<1>3. CASE q = p /\ logging[p] = "on"
  <2>1. lines'[q] = Append(lines[q], line)
    BY <1>3, LogEffect
  <2> DEFINE n == Len(lines[q]) + 1
  <2>2. /\ DOMAIN lines[q] = 1..Len(lines[q]) /\ Len(lines[q]) \in Nat
        /\ DOMAIN lines'[q] = 1..n
        /\ \A k \in 1..Len(lines[q]) : lines'[q][k] = lines[q][k]
        /\ lines'[q][n] = line
    BY <1>1, <2>1, AppendProperties, LenProperties
  <2>3. /\ n \notin 1..Len(lines[q])
        /\ 1..n = (1..Len(lines[q])) \cup {n}
    BY <2>2
  <2>4. LoadTimes(q) = {k \in 1..Len(lines[q]) : lines[q][k].fields = 8}
    BY <2>2 DEF LoadTimes
  <2>5. LoadTimes(q)' = {k \in 1..n : lines'[q][k].fields = 8}
    BY <2>2 DEF LoadTimes
  <2> HIDE DEF n
  <2>6. CASE line.fields = 8
    <3>1. LoadTimes(q)' = LoadTimes(q) \cup {n}
      BY <2>2, <2>3, <2>4, <2>5, <2>6
    <3>2. n \notin LoadTimes(q)
      BY <2>3, <2>4
    <3>3. \A k \in LoadTimes(q) : lines'[q][k] = lines[q][k]
      BY <2>2, <2>4
    <3> QED
      BY <1>3, <2>2, <2>6, <3>1, <3>2, <3>3
  <2>7. CASE line.fields # 8
    <3>1. LoadTimes(q)' = LoadTimes(q)
      BY <2>2, <2>3, <2>4, <2>5, <2>7
    <3>2. \A k \in LoadTimes(q) : lines'[q][k] = lines[q][k]
      BY <2>2, <2>4
    <3> QED
      BY <3>1, <3>2 DEF LoadsKept
  <2> QED
    BY <2>6, <2>7
<1> QED
  BY <1>2, <1>3, LogEffect

\* A thread that finds page_loaded unset marks: it is the first, or it overlaps.
LEMMA LoadedStep ==
  ASSUME TypeOK, NEW q \in Procs, OnceInv(q), TimeInv(q), NEW t \in Threads, MarkLoaded(q, t)
  PROVE  OnceInv(q)' /\ TimeInv(q)'
<1> USE DEF clock, log, pageload, measured, signals
<1>1. /\ mark \in [Procs -> [Threads -> Marks]]
      /\ page_end \in [Procs -> [s : 0..MaxClock, f : 0..(Ticks - 1)]]
      /\ firstMark \in [Procs -> (0..MaxClock) \cup {None}]
      /\ overlapped \in [Procs -> BOOLEAN]
      /\ now \in Nat
  BY Types
<1>2. /\ mark[q][t][1] = "none" /\ ~page_loaded[q] /\ ~external_timing
      /\ mark'[q] = [mark[q] EXCEPT ![t] = <<"fraction", now % Ticks>>]
      /\ UNCHANGED <<run, lines, page_loaded, page_start>>
  BY <1>1 DEF MarkLoaded, NotMarking
<1>3. LoadTimes(q) = {} /\ LoadTimes(q)' = {} /\ \A u \in Threads : mark[q][u][1] # "log"
  BY <1>2 DEF OnceInv, LoadTimes
<1>4. Marking(q)' = Marking(q) \cup {t}
  BY <1>1, <1>2 DEF Marking
<1>5. firstMark'[q] # None /\ (Marking(q) = {} => firstMark'[q] = now)
  BY <1>1, <1>2, NoTime DEF MarkLoaded, OnceInv
<1>6. Cardinality(LoadTimes(q)') = 0
  BY <1>3, FS_EmptySet
<1>7. Cardinality(Marking(q)') <= Cardinality(Threads) /\ Cardinality(Marking(q)') \in Nat
  <2>1. Marking(q)' \in SUBSET Threads
    BY DEF Marking
  <2> QED
    BY <2>1, FS_Subset, FS_CardinalityType
<1>8. ~overlapped'[q] => Marking(q) = {}
  <2> SUFFICES ASSUME ~overlapped'[q], NEW u \in Threads PROVE mark[q][u][1] = "none"
    BY DEF Marking
  <2>1. mark[q][u][1] \notin {"fraction", "lock"}
    BY <1>1 DEF MarkLoaded
  <2>2. mark[q][u] \in Marks
    BY <1>1
  <2>3. mark[q][u][1] \in {"none", "fraction", "lock", "log"}
    BY <2>2 DEF Marks
  <2> QED
    BY <1>3, <2>1, <2>3
<1>9. ~overlapped'[q] => Cardinality(Marking(q)') = 1
  <2>1. Cardinality({t}) = 1
    BY FS_Singleton, Zenon
  <2>2. ~overlapped'[q] => Marking(q)' = {t}
    BY <1>4, <1>8
  <2> QED
    BY <2>1, <2>2
<1>10. Cardinality(Threads) \in Nat
  BY Sizes
<1>11. OnceInv(q)'
  <2>1. Marking(q)' # {} /\ ~external_timing'
    BY <1>2, <1>4 DEF external_timing
  <2>2. \A u \in Threads : mark'[q][u][1] # "log"
    BY <1>1, <1>2, <1>3
  <2>3. Cardinality(LoadTimes(q)') + Cardinality(Marking(q)') <= Cardinality(Threads)
    BY <1>6, <1>7, <1>10
  <2>4. ~overlapped'[q] => Cardinality(LoadTimes(q)') + Cardinality(Marking(q)') <= 1
    BY <1>6, <1>9
  <2> QED
    BY <1>2, <1>3, <1>5, <2>1, <2>2, <2>3, <2>4 DEF OnceInv
<1>12. TimeInv(q)'
  <2> SUFFICES ASSUME ~overlapped'[q], NEW u \in Threads
               PROVE  /\ mark'[q][u][1] = "fraction" =>
                            page_end'[q].s * Ticks + mark'[q][u][2] = firstMark'[q]
                      /\ mark'[q][u][1] \notin {"lock", "log"}
    BY <1>3 DEF TimeInv
  <2>1. CASE u = t
    <3>1. mark'[q][u] = <<"fraction", now % Ticks>> /\ page_end'[q].s = now \div Ticks
      BY <1>1, <1>2, <2>1 DEF MarkLoaded
    <3>2. firstMark'[q] = now
      BY <1>5, <1>8
    <3> QED
      BY <1>1, <3>1, <3>2, DivMod
  <2>2. CASE u # t
    BY <1>1, <1>2, <1>8, <2>2 DEF Marking
  <2> QED
    BY <2>1, <2>2
<1> QED
  BY <1>11, <1>12

\* Its part of a second follows its seconds, if no thread came between.
LEMMA FractionStep ==
  ASSUME TypeOK, NEW q \in Procs, OnceInv(q), TimeInv(q), NEW t \in Threads, MarkFraction(q, t)
  PROVE  OnceInv(q)' /\ TimeInv(q)'
<1> USE DEF clock, log, pageload, measured, signals
<1>1. /\ mark \in [Procs -> [Threads -> Marks]]
      /\ page_end \in [Procs -> [s : 0..MaxClock, f : 0..(Ticks - 1)]]
  BY Types
<1>2. /\ mark[q][t][1] = "fraction"
      /\ mark'[q] = [mark[q] EXCEPT ![t] = <<"lock", 0>>]
      /\ UNCHANGED <<run, lines, page_loaded, page_start, firstMark, overlapped>>
  BY <1>1 DEF MarkFraction
<1>3. LoadTimes(q)' = LoadTimes(q)
  BY <1>2 DEF LoadTimes
<1>4. Marking(q)' = Marking(q) /\ t \in Marking(q)
  BY <1>1, <1>2 DEF Marking
<1>5. \A u \in Threads : mark'[q][u][1] = "log" => mark[q][u][1] = "log"
  BY <1>1, <1>2
<1>6. OnceInv(q)'
  BY <1>2, <1>3, <1>4, <1>5 DEF OnceInv, external_timing
<1>7. TimeInv(q)'
  <2> SUFFICES ASSUME ~overlapped[q], NEW u \in Threads
               PROVE  /\ mark'[q][u][1] = "lock" =>
                            page_end'[q].s * Ticks + page_end'[q].f = firstMark[q]
                      /\ mark'[q][u][1] \notin {"fraction", "log"}
    BY <1>2, <1>3 DEF TimeInv
  <2>1. CASE u = t
    <3>1. page_end'[q].s = page_end[q].s /\ page_end'[q].f = mark[q][t][2]
      BY <1>1 DEF MarkFraction
    <3>2. page_end[q].s * Ticks + mark[q][t][2] = firstMark[q]
      BY <1>2 DEF TimeInv
    <3>3. mark'[q][u] = <<"lock", 0>>
      BY <1>1, <1>2, <2>1
    <3> QED
      BY <3>1, <3>2, <3>3
  <2>2. CASE u # t
    <3>1. u \notin Marking(q)
      BY <1>4, <2>2, Alone
    <3>2. mark'[q][u][1] = "none"
      BY <1>1, <1>2, <2>2, <3>1 DEF Marking
    <3> QED
      BY <3>2
  <2> QED
    BY <2>1, <2>2
<1> QED
  BY <1>6, <1>7

\* It reads what it stored, and closes the door for others.
LEMMA UnderLockStep ==
  ASSUME TypeOK, NEW q \in Procs, OnceInv(q), TimeInv(q), NEW t \in Threads, MarkUnderLock(q, t)
  PROVE  OnceInv(q)' /\ TimeInv(q)'
<1> USE DEF clock, log, pageload, measured, signals
<1>1. mark \in [Procs -> [Threads -> Marks]] /\ page_loaded \in [Procs -> BOOLEAN]
  BY Types
<1>2. /\ mark[q][t][1] = "lock"
      /\ mark'[q] = [mark[q] EXCEPT ![t] =
                       <<"log", (page_end[q].s * Ticks + page_end[q].f) - page_start[q]>>]
      /\ page_loaded'[q]
      /\ UNCHANGED <<run, lines, page_start, page_end, firstMark, overlapped>>
  BY <1>1 DEF MarkUnderLock
<1>3. LoadTimes(q)' = LoadTimes(q)
  BY <1>2 DEF LoadTimes
<1>4. Marking(q)' = Marking(q) /\ t \in Marking(q)
  BY <1>1, <1>2 DEF Marking
<1>5. OnceInv(q)'
  BY <1>2, <1>3, <1>4 DEF OnceInv, external_timing
<1>6. TimeInv(q)'
  <2> SUFFICES ASSUME ~overlapped[q], NEW u \in Threads
               PROVE  /\ mark'[q][u][1] = "log" => mark'[q][u][2] = firstMark[q] - page_start[q]
                      /\ mark'[q][u][1] \notin {"fraction", "lock"}
    BY <1>2, <1>3 DEF TimeInv
  <2>1. CASE u = t
    <3>1. page_end[q].s * Ticks + page_end[q].f = firstMark[q]
      BY <1>2 DEF TimeInv
    <3>2. mark'[q][u] = <<"log", (page_end[q].s * Ticks + page_end[q].f) - page_start[q]>>
      BY <1>1, <1>2, <2>1
    <3>3. (page_end[q].s * Ticks + page_end[q].f) - page_start[q] = firstMark[q] - page_start[q]
      BY <3>1
    <3>4. mark'[q][u][2] = firstMark[q] - page_start[q] /\ mark'[q][u][1] = "log"
      BY <3>2, <3>3
    <3> QED
      BY <3>4
  <2>2. CASE u # t
    <3>1. u \notin Marking(q)
      BY <1>4, <2>2, Alone
    <3>2. mark'[q][u][1] = "none"
      BY <1>1, <1>2, <2>2, <3>1 DEF Marking
    <3> QED
      BY <3>2
  <2> QED
    BY <2>1, <2>2
<1> QED
  BY <1>5, <1>6

\* It logs the time it read, and is done for good.
LEMMA LogLoadStep ==
  ASSUME TypeOK, NEW q \in Procs, OnceInv(q), TimeInv(q), NEW t \in Threads, MarkLog(q, t)
  PROVE  OnceInv(q)' /\ TimeInv(q)'
<1> USE DEF clock, log, pageload, measured, signals
<1>1. mark \in [Procs -> [Threads -> Marks]]
  BY Types
<1>2. /\ mark[q][t][1] = "log"
      /\ mark'[q] = [mark[q] EXCEPT ![t] = <<"none", 0>>]
      /\ UNCHANGED <<run, page_loaded, page_start, page_end, firstMark, overlapped>>
  BY <1>1 DEF MarkLog, NotMarking
<1>3. t \in Marking(q) /\ Marking(q)' = Marking(q) \ {t}
  BY <1>1, <1>2 DEF Marking
<1>4. page_loaded[q] /\ ~external_timing
  BY <1>2, <1>3 DEF OnceInv
<1> DEFINE line == LoadLine(TidOf[q], now, mark[q][t][2])
<1>5. line \in LogLines /\ LOG(q, line) /\ line.ms = mark[q][t][2]
  <2>1. mark[q][t] \in Marks
    BY <1>1
  <2>2. mark[q][t][2] \in Int
    BY <2>1 DEF Marks
  <2> QED
    BY <2>2, LineTypes, Types DEF MarkLog, LoadLine
<1> HIDE DEF line
<1>6. \/ LoadsKept(q)
      \/ \E n : /\ n \notin LoadTimes(q)
                /\ LoadTimes(q)' = LoadTimes(q) \cup {n}
                /\ \A k \in LoadTimes(q) : lines'[q][k] = lines[q][k]
                /\ lines'[q][n] = line
  BY <1>5, LogLoads
<1>7. Cardinality(Marking(q)') = Cardinality(Marking(q)) - 1
  BY ZenonT(30), <1>3, Sizes, FS_RemoveElement
<1>8. /\ Cardinality(LoadTimes(q)') \in Nat
      /\ Cardinality(LoadTimes(q)') <= Cardinality(LoadTimes(q)) + 1
  <2>1. ASSUME NEW n, n \notin LoadTimes(q), LoadTimes(q)' = LoadTimes(q) \cup {n}
        PROVE  Cardinality(LoadTimes(q)') = Cardinality(LoadTimes(q)) + 1
    BY ZenonT(30), <2>1, Sizes, FS_AddElement
  <2> QED
    BY <1>6, <2>1, Sizes DEF LoadsKept
<1>9. Cardinality(LoadTimes(q)') + Cardinality(Marking(q)')
        <= Cardinality(LoadTimes(q)) + Cardinality(Marking(q))
  BY <1>7, <1>8, Sizes
<1>10. OnceInv(q)'
  <2>1. Marking(q)' # {} => firstMark'[q] # None
    BY <1>2, <1>3 DEF OnceInv
  <2>2. /\ Cardinality(LoadTimes(q)') + Cardinality(Marking(q)') <= Cardinality(Threads)
        /\ ~overlapped'[q] => Cardinality(LoadTimes(q)') + Cardinality(Marking(q)') <= 1
    BY <1>2, <1>7, <1>8, <1>9, Sizes DEF OnceInv
  <2> QED
    BY <1>2, <1>4, <2>1, <2>2 DEF OnceInv, external_timing
<1>11. TimeInv(q)'
  <2> SUFFICES ASSUME ~overlapped[q]
               PROVE  /\ \A k \in LoadTimes(q)' : lines'[q][k].ms = firstMark[q] - page_start[q]
                      /\ \A u \in Threads :
                           /\ mark'[q][u][1] = "fraction" =>
                                 page_end[q].s * Ticks + mark'[q][u][2] = firstMark[q]
                           /\ mark'[q][u][1] = "lock" =>
                                 page_end[q].s * Ticks + page_end[q].f = firstMark[q]
                           /\ mark'[q][u][1] = "log" =>
                                 mark'[q][u][2] = firstMark[q] - page_start[q]
    BY <1>2 DEF TimeInv
  <2>1. line.ms = firstMark[q] - page_start[q]
    BY <1>2, <1>5 DEF TimeInv
  <2>2. \A k \in LoadTimes(q) : lines[q][k].ms = firstMark[q] - page_start[q]
    BY DEF TimeInv
  <2>3. \A k \in LoadTimes(q)' : lines'[q][k].ms = firstMark[q] - page_start[q]
    BY <1>6, <2>1, <2>2 DEF LoadsKept
  <2>4. \A u \in Threads : u # t => mark'[q][u] = mark[q][u]
    BY <1>1, <1>2
  <2>5. mark'[q][t][1] = "none"
    BY <1>1, <1>2
  <2> QED
    BY <2>3, <2>4, <2>5 DEF TimeInv
<1> QED
  BY <1>10, <1>11

\* Every step keeps what the mark of a process does.
LEMMA MarkStepInv ==
  ASSUME TypeOK, \A p \in Procs : LogInv(p), [RunStep]_runVars,
         NEW q \in Procs, OnceInv(q), TimeInv(q)
  PROVE  OnceInv(q)' /\ TimeInv(q)'
<1> USE DEF clock, log, pageload, measured, signals
<1>0. /\ mark \in [Procs -> [Threads -> Marks]]
      /\ page_end \in [Procs -> [s : 0..MaxClock, f : 0..(Ticks - 1)]]
      /\ page_loaded \in [Procs -> BOOLEAN]
      /\ page_start \in [Procs -> (0..MaxClock) \cup {None}]
      /\ firstMark \in [Procs -> (0..MaxClock) \cup {None}]
      /\ overlapped \in [Procs -> BOOLEAN]
  BY Types
<1>1. lines' = lines => LoadsKept(q)
  BY DEF LoadsKept, LoadTimes
<1>2. CASE Tick \/ Killpg \/ UNCHANGED runVars
  <2>1. UNCHANGED <<lines, run, pageload>>
    BY <1>2 DEF Tick, Killpg, runVars
  <2> QED
    BY <1>1, <2>1, MarkFrame
<1>3. ASSUME NEW p \in Procs, Exit(p) \/ Die(p) PROVE OnceInv(q)' /\ TimeInv(q)'
  <2>1. UNCHANGED <<lines, run, pageload>>
    BY <1>3 DEF Exit, Die, experiment_stop
  <2> QED
    BY <1>1, <2>1, MarkFrame
<1>4. CASE sigalrm_handler
  <2>1. UNCHANGED <<lines, run, pageload>>
    BY <1>4 DEF sigalrm_handler, experiment_stop
  <2> QED
    BY <1>1, <2>1, MarkFrame
<1>5. ASSUME NEW p \in Procs, Enter(p) \/ Leave(p) PROVE OnceInv(q)' /\ TimeInv(q)'
  <2>1. \E line \in LogLines : LOG(p, line) /\ line.fields # 8
    <3>1. CASE Enter(p)
      <4>1. EntryLine(TidOf[p], Function, now).fields # 8
        BY DEF EntryLine
      <4>2. now \in 0..MaxClock /\ 0 \in Int
        BY Types
      <4>3. EntryLine(TidOf[p], Function, now) \in LogLines
        BY <4>2, LineTypes
      <4>4. LOG(p, EntryLine(TidOf[p], Function, now))
        BY <3>1 DEF Enter
      <4> QED
        BY <4>1, <4>3, <4>4
    <3>2. CASE Leave(p)
      <4>1. now - callStart[p] \in Int
        BY <3>2, Types DEF Leave
      <4>2. ExitLine(TidOf[p], Function, now, now - callStart[p]).fields # 8
        BY DEF ExitLine
      <4> QED
        BY <3>2, <4>1, <4>2, LineTypes, Types DEF Leave
    <3> QED
      BY <1>5, <3>1, <3>2
  <2>2. LoadsKept(q)
    BY <2>1, LogLoads
  <2>3. UNCHANGED <<run, pageload>>
    BY <1>5 DEF Enter, Leave
  <2> QED
    BY <2>2, <2>3, MarkFrame
<1>6. ASSUME NEW p \in Procs, my_main(p) PROVE OnceInv(q)' /\ TimeInv(q)'
  <2>1. UNCHANGED <<run, lines, page_loaded, mark, firstMark, overlapped, page_end>>
    BY <1>6 DEF my_main
  <2>2. CASE page_start'[q] = page_start[q]
    BY <1>1, <2>1, <2>2, MarkFrame
  <2>3. CASE page_start'[q] # page_start[q]
    <3>1. q = p /\ pc[q] = "none"
      BY <1>0, <1>6, <2>3 DEF my_main
    <3>2. logging[q] = "off"
      BY <3>1 DEF LogInv
    <3>3. Marking(q) = {} /\ lines[q] = <<>>
      BY <3>2 DEF LogInv, TypeOK
    <3>4. LoadTimes(q)' = {} /\ LoadTimes(q)' = LoadTimes(q) /\ Marking(q)' = Marking(q)
      BY <2>1, <3>3 DEF LoadTimes, Marking
    <3>5. OnceInv(q)'
      BY <2>1, <3>4 DEF OnceInv, external_timing
    <3>6. \A t \in Threads : mark'[q][t][1] = "none"
      BY <2>1, <3>3 DEF Marking
    <3>7. TimeInv(q)'
      BY <3>4, <3>6 DEF TimeInv
    <3> QED
      BY <3>5, <3>7
  <2> QED
    BY <2>2, <2>3
<1>7. ASSUME NEW p \in Procs, NEW t \in Threads, MarkStep(p, t)
      PROVE  OnceInv(q)' /\ TimeInv(q)'
  <2>1. CASE p = q
    BY <1>7, <2>1, LoadedStep, FractionStep, UnderLockStep, LogLoadStep DEF MarkStep
  <2>2. CASE p # q
    <3>1. UNCHANGED <<run, page_loaded[q], mark[q], firstMark[q], overlapped[q],
                      page_start[q], page_end[q]>>
      BY <1>0, <1>7, <2>2 DEF MarkStep, MarkLoaded, MarkFraction, MarkUnderLock, MarkLog
    <3>2. CASE MarkLog(p, t)
      <4>1. mark[p][t] \in Marks
        BY <1>0
      <4>2. mark[p][t][2] \in Int
        BY <4>1 DEF Marks
      <4>3. \E line \in LogLines : LOG(p, line)
        BY <3>2, <4>2, LineTypes, Types DEF MarkLog
      <4> QED
        BY <2>2, <3>1, <4>3, LogLoads, MarkFrame
    <3>3. CASE ~MarkLog(p, t)
      BY <1>1, <1>7, <3>1, <3>3, MarkFrame DEF MarkStep, MarkLoaded, MarkFraction, MarkUnderLock
    <3> QED
      BY <3>2, <3>3
  <2> QED
    BY <2>1, <2>2
<1> QED
  BY <1>2, <1>3, <1>4, <1>5, <1>6, <1>7 DEF RunStep, Interrupted, Killed
-----------------------------------------------------------------------------
(* The files and their summary *)

\* ls lists every element of a finite set.
LEMMA Listed ==
  ASSUME NEW S, IsFiniteSet(S)
  PROVE  /\ \A k \in DOMAIN SetToSeq(S) : SetToSeq(S)[k] \in S
         /\ \A x \in S : \E k \in DOMAIN SetToSeq(S) : SetToSeq(S)[k] = x
         /\ \A j, k \in DOMAIN SetToSeq(S) : SetToSeq(S)[j] = SetToSeq(S)[k] => j = k
<1> DEFINE n == Cardinality(S)
<1>1. n \in Nat /\ ExistsBijection(1..n, S)
  BY FS_CardinalityType
<1>2. \E f \in [1..n -> S] : IsInjective(f)
  BY <1>1 DEF ExistsBijection, Bijection, Injection
<1>3. SetToSeq(S) \in [1..n -> S] /\ IsInjective(SetToSeq(S))
  BY <1>2 DEF SetToSeq
<1>4. SetToSeq(S) \in Injection(1..n, S)
  BY <1>3 DEF Injection
<1>5. Cardinality(1..n) = n /\ IsFiniteSet(1..n)
  BY <1>1, FS_Interval
<1>6. SetToSeq(S) \in Surjection(1..n, S)
  BY <1>4, <1>5, FS_Injection
<1> QED
  BY <1>3, <1>6 DEF Surjection, IsInjective

\* Each file is what one of the initialised processes has written.
OwnersOfFiles(owner) ==
    /\ \A k \in DOMAIN Files : /\ owner[k] \in Procs /\ Initialized(owner[k])
                               /\ Files[k] = SubSeq(lines[owner[k]], 1, written[owner[k]])
    /\ \A p \in Procs : Initialized(p) => \E k \in DOMAIN Files : owner[k] = p
    /\ \A j, k \in DOMAIN Files : owner[j] = owner[k] => j = k

LEMMA FileOwners == \E owner : OwnersOfFiles(owner)
<1> DEFINE S == {p \in Procs : Initialized(p)}
<1>1. IsFiniteSet(S)
  <2>1. IsFiniteSet(Procs)
    BY FS_AddElement DEF Procs
  <2> QED
    BY <2>1, FS_Subset
<1>2. Files = [k \in DOMAIN SetToSeq(S) |->
                 SubSeq(lines[SetToSeq(S)[k]], 1, written[SetToSeq(S)[k]])]
  BY DEF Files
<1> DEFINE L == SetToSeq(S)
<1>3. /\ \A k \in DOMAIN L : L[k] \in S
      /\ \A p \in S : \E k \in DOMAIN L : L[k] = p
      /\ \A j, k \in DOMAIN L : L[j] = L[k] => j = k
  BY <1>1, Listed
<1>4. /\ DOMAIN Files = DOMAIN L
      /\ \A k \in DOMAIN L : Files[k] = SubSeq(lines[L[k]], 1, written[L[k]])
  BY <1>2
<1> HIDE DEF L
<1>5. OwnersOfFiles(L)
  BY <1>3, <1>4 DEF OwnersOfFiles
<1> QED
  BY <1>5

\* The files are what initialised processes have written.
LEMMA FilesAre ==
  /\ \A k \in DOMAIN Files : \E p \in Procs :
        Initialized(p) /\ Files[k] = SubSeq(lines[p], 1, written[p])
  /\ \A p \in Procs : Initialized(p) =>
        \E k \in DOMAIN Files : Files[k] = SubSeq(lines[p], 1, written[p])
BY FileOwners DEF OwnersOfFiles

\* What the filters select of a line.
Selected(line) == line.fields = 10 \/ (line.fields = 8 /\ line.fn = PageLoadTime)

\* The rows of the summary are those of the selected lines of all files.
LEMMA RowsOfTheRun ==
  ASSUME TypeOK
  PROVE  \A r : r \in FuncLog(Files) <=>
           \E p \in Procs : \E k \in 1..written[p] :
              /\ Initialized(p) /\ Selected(lines[p][k])
              /\ r = [fn |-> lines[p][k].fn, ms |-> lines[p][k].ms]
<1>1. ASSUME NEW p \in Procs
      PROVE  ToSet(SubSeq(lines[p], 1, written[p])) = {lines[p][k] : k \in 1..written[p]}
  <2>1. /\ lines[p] \in Seq(LogLines)
        /\ written[p] \in 0..Len(lines[p]) /\ Len(lines[p]) \in Nat
    BY LenProperties DEF TypeOK
  <2>2. /\ DOMAIN SubSeq(lines[p], 1, written[p]) = 1..written[p]
        /\ \A k \in 1..written[p] : SubSeq(lines[p], 1, written[p])[k] = lines[p][k]
    BY <2>1
  <2> DEFINE s == SubSeq(lines[p], 1, written[p])
  <2>3. ToSet(s) = {s[k] : k \in 1..written[p]}
    BY <2>2 DEF ToSet
  <2> HIDE DEF s
  <2>4. \A k \in 1..written[p] : s[k] = lines[p][k]
    BY <2>2 DEF s
  <2>5. ToSet(s) = {lines[p][k] : k \in 1..written[p]}
    BY <2>3, <2>4
  <2> QED
    BY <2>5 DEF s
<1>2. \A p \in Procs : \A r :
        r \in Rows(SubSeq(lines[p], 1, written[p])) <=>
           \E k \in 1..written[p] :
              /\ Selected(lines[p][k])
              /\ r = [fn |-> lines[p][k].fn, ms |-> lines[p][k].ms]
  BY <1>1 DEF Rows, Selected
<1>3. \A r : r \in FuncLog(Files) <=> \E k \in DOMAIN Files : r \in Rows(Files[k])
  BY DEF FuncLog
<1>4. \A r : r \in FuncLog(Files) <=>
        \E p \in Procs : Initialized(p) /\ r \in Rows(SubSeq(lines[p], 1, written[p]))
  <2> TAKE r
  <2>1. ASSUME NEW k \in DOMAIN Files, r \in Rows(Files[k])
        PROVE  \E p \in Procs : Initialized(p) /\ r \in Rows(SubSeq(lines[p], 1, written[p]))
    <3>1. PICK p \in Procs : Initialized(p) /\ Files[k] = SubSeq(lines[p], 1, written[p])
      BY FilesAre
    <3> QED
      BY <2>1, <3>1
  <2>2. ASSUME NEW p \in Procs, Initialized(p), r \in Rows(SubSeq(lines[p], 1, written[p]))
        PROVE  \E k \in DOMAIN Files : r \in Rows(Files[k])
    <3>1. PICK k \in DOMAIN Files : Files[k] = SubSeq(lines[p], 1, written[p])
      BY <2>2, FilesAre
    <3> QED
      BY <2>2, <3>1
  <2> QED
    BY <1>3, <2>1, <2>2
<1> QED
  BY <1>2, <1>4

\* The values of the summary are those of the rows.
LEMMA SummaryRows ==
  ASSUME NEW files
  PROVE  /\ DOMAIN Summary(files) = {r.fn : r \in FuncLog(files)}
         /\ \A f \in DOMAIN Summary(files) :
               Summary(files)[f].values = {r.ms : r \in {q \in FuncLog(files) : q.fn = f}}
BY DEF Summary

\* The invariant gives the property of the summary.
LEMMA SummaryHolds == IInv => SummaryOfTheRun
<1> SUFFICES ASSUME IInv, Analysed PROVE SummaryOfTheRun
  BY DEF SummaryOfTheRun
<1>1. TypeOK /\ summary = Summary(Files) /\ \A p \in Procs : LogInv(p)
  BY DEF IInv, RunInv
<1> DEFINE rows == FuncLog(Files)
<1>0. /\ DOMAIN summary = {r.fn : r \in rows}
      /\ \A f \in DOMAIN summary : summary[f].values = {r.ms : r \in {q \in rows : q.fn = f}}
  <2>1. /\ DOMAIN Summary(Files) = {r.fn : r \in rows}
        /\ \A f \in DOMAIN Summary(Files) :
              Summary(Files)[f].values = {r.ms : r \in {q \in rows : q.fn = f}}
    BY SummaryRows
  <2> QED
    BY <1>1, <2>1
<1> HIDE DEF rows
<1>2. ASSUME NEW p \in Procs, pc[p] = "exited", NEW k \in DOMAIN lines[p],
             lines[p][k].fields # 9
      PROVE  /\ lines[p][k].fn \in DOMAIN summary
             /\ lines[p][k].ms \in summary[lines[p][k].fn].values
  <2>1. /\ lines[p] \in Seq(LogLines)
        /\ logging[p] \in {"off", "on", "shut"}
        /\ logging[p] = "off" => lines[p] = <<>>
    BY <1>1 DEF TypeOK
  <2>2. DOMAIN lines[p] = 1..Len(lines[p]) /\ lines[p][k] \in LogLines
    BY <2>1, ElementOfSeq, LenProperties
  <2>3. logging[p] # "off"
    BY <1>2, <2>1
  <2>4. logging[p] = "shut" /\ k \in 1..written[p]
    BY <1>1, <1>2, <2>1, <2>2, <2>3 DEF LogInv
  <2>5. Selected(lines[p][k])
    BY <1>2, <2>2 DEF Selected, LogLines
  <2> DEFINE row == [fn |-> lines[p][k].fn, ms |-> lines[p][k].ms]
  <2>6. row \in rows
    BY <1>1, <2>3, <2>4, <2>5, RowsOfTheRun DEF Initialized, rows
  <2>7. row.fn = lines[p][k].fn /\ row.ms = lines[p][k].ms
    OBVIOUS
  <2> HIDE DEF row
  <2> QED
    BY <1>0, <2>6, <2>7
<1>3. ASSUME NEW f \in DOMAIN summary, NEW ms \in summary[f].values
      PROVE  \E p \in Procs : \E k \in 1..written[p] :
                lines[p][k].fields # 9 /\ lines[p][k].fn = f /\ lines[p][k].ms = ms
  <2>1. PICK r \in rows : r.fn = f /\ r.ms = ms
    BY <1>0, <1>3
  <2>2. PICK p \in Procs : \E k \in 1..written[p] :
           /\ Selected(lines[p][k])
           /\ r = [fn |-> lines[p][k].fn, ms |-> lines[p][k].ms]
    BY <1>1, RowsOfTheRun DEF rows
  <2>3. PICK k \in 1..written[p] :
           /\ Selected(lines[p][k])
           /\ r = [fn |-> lines[p][k].fn, ms |-> lines[p][k].ms]
    BY <2>2
  <2>4. lines[p][k].fields # 9
    BY <2>3 DEF Selected
  <2> QED
    BY <2>1, <2>3, <2>4
<1> QED
  BY <1>2, <1>3 DEF SummaryOfTheRun

\* The lines of a file, one by one.
LEMMA FileLines ==
  ASSUME TypeOK, NEW owner, OwnersOfFiles(owner), NEW n \in DOMAIN Files
  PROVE  /\ DOMAIN Files[n] = 1..written[owner[n]]
         /\ \A k \in 1..written[owner[n]] : /\ Files[n][k] = lines[owner[n]][k]
                                            /\ lines[owner[n]][k] \in LogLines
<1> DEFINE p == owner[n]
<1>1. p \in Procs /\ Files[n] = SubSeq(lines[p], 1, written[p])
  BY DEF OwnersOfFiles
<1> HIDE DEF p
<1>2. lines[p] \in Seq(LogLines) /\ written[p] \in 0..Len(lines[p]) /\ Len(lines[p]) \in Nat
  BY <1>1, LenProperties DEF TypeOK
<1>3. /\ DOMAIN SubSeq(lines[p], 1, written[p]) = 1..written[p]
      /\ \A k \in 1..written[p] : SubSeq(lines[p], 1, written[p])[k] = lines[p][k]
  BY <1>2
<1>4. \A k \in 1..written[p] : lines[p][k] \in LogLines
  BY <1>2, ElementOfSeq
<1> QED
  BY <1>1, <1>3, <1>4 DEF p

\* The accepted lines of the files are the written entries and exits.
LEMMA AcceptedAre ==
  ASSUME TypeOK, NEW owner, OwnersOfFiles(owner)
  PROVE  \A l : l \in AcceptedLines(Files) <=>
            /\ l = <<l[1], l[2]>> /\ l[1] \in DOMAIN Files /\ l[2] \in 1..written[owner[l[1]]]
            /\ lines[owner[l[1]]][l[2]].fields # 8
<1>1. \A n \in DOMAIN Files : \A k \in 1..written[owner[n]] :
         Accepted(Files[n][k]) <=> lines[owner[n]][k].fields # 8
  <2>1. \A l \in LogLines : Accepted(l) <=> l.fields # 8
    <3> SUFFICES ASSUME NEW l \in LogLines PROVE Accepted(l) <=> l.fields # 8
      OBVIOUS
    <3>1. l.fields \in {8, 9, 10}
      BY DEF LogLines
    <3> QED
      BY <3>1 DEF Accepted
  <2> QED
    BY <2>1, FileLines
<1>2. \A n \in DOMAIN Files : DOMAIN Files[n] = 1..written[owner[n]]
  BY FileLines
<1>3. \A l : l \in UNION {{n} \X DOMAIN Files[n] : n \in DOMAIN Files} <=>
               l = <<l[1], l[2]>> /\ l[1] \in DOMAIN Files /\ l[2] \in DOMAIN Files[l[1]]
  OBVIOUS
<1> QED
  BY <1>1, <1>2, <1>3 DEF AcceptedLines

LEMMA ManyMicroseconds == Microseconds \in Nat
BY SMT DEF Microseconds

\* Within a second the rows' times are in the order of the clock.
LEMMA SameSecond ==
  ASSUME NEW a \in Nat, NEW b \in Nat, a \div Ticks = b \div Ticks,
         (a \div Ticks) * 1000 + (a % Ticks) * (Microseconds \div Ticks)
            <= (b \div Ticks) * 1000 + (b % Ticks) * (Microseconds \div Ticks)
  PROVE  a <= b
<1> DEFINE u == Microseconds \div Ticks
           s == a \div Ticks
           x == a % Ticks
           y == b % Ticks
<1>1. u \in Nat /\ u >= 1
  <2>1. \A n \in Nat : \A d \in 1..n : n \div d \in Nat /\ n \div d >= 1
    BY Z3
  <2>2. Microseconds \in Nat /\ Ticks \in 1..Microseconds
    BY ManyMicroseconds
  <2> QED
    BY <2>1, <2>2
<1>2. s \in Nat /\ x \in Nat /\ y \in Nat /\ s * Ticks + x = a /\ s * Ticks + y = b
  BY DivMod
<1>3. s * 1000 + x * u <= s * 1000 + y * u
  OBVIOUS
<1> HIDE DEF u, s, x, y
<1>4. \A m, n, d \in Nat : m > n /\ d >= 1 => m * d > n * d
  BY Z3
<1>5. x * u \in Nat /\ y * u \in Nat /\ s * 1000 \in Nat /\ s * Ticks \in Nat
  BY <1>1, <1>2
<1>6. x * u <= y * u
  BY <1>3, <1>5
<1>7. ~(x > y)
  BY <1>1, <1>2, <1>4, <1>5, <1>6
<1> QED
  BY <1>2, <1>5, <1>7

\* The invariant gives the property of the plotted rows.
LEMMA MatrixHolds == IInv => OrderWithinSeconds
<1> SUFFICES ASSUME IInv, Analysed PROVE OrderWithinSeconds
  BY DEF OrderWithinSeconds
<1>1. TypeOK /\ matrix \in gen_data_matrix(Files)
  BY DEF IInv, RunInv
<1> DEFINE D == 1..Cardinality(AcceptedLines(Files))
           A == AcceptedLines(Files)
<1>2. PICK order \in Bijection(D, A) :
         matrix = [k \in DOMAIN order |-> process_line(Files[order[k][1]][order[k][2]])]
  BY <1>1 DEF gen_data_matrix, Matrices
<1>3. \A j, k \in DOMAIN matrix : j < k => matrix[j].time_ms <= matrix[k].time_ms
  BY <1>1 DEF gen_data_matrix
<1> HIDE DEF D, A
<1>4. /\ order \in [D -> A] /\ DOMAIN matrix = D
      /\ \A j, k \in D : order[j] = order[k] => j = k
      /\ \A l \in A : \E k \in D : order[k] = l
  BY <1>2 DEF Bijection, Injection, Surjection, IsInjective
<1>5. PICK owner : OwnersOfFiles(owner)
  BY FileOwners
<1>6. \A l : l \in A <=>
         /\ l = <<l[1], l[2]>> /\ l[1] \in DOMAIN Files /\ l[2] \in 1..written[owner[l[1]]]
         /\ lines[owner[l[1]]][l[2]].fields # 8
  BY <1>1, <1>5, AcceptedAre DEF A
<1>7. ASSUME NEW l \in A
      PROVE  /\ Files[l[1]][l[2]] = lines[owner[l[1]]][l[2]]
             /\ lines[owner[l[1]]][l[2]] \in LogLines
             /\ owner[l[1]] \in Procs /\ l[2] \in 1..written[owner[l[1]]]
  BY <1>1, <1>5, <1>6, FileLines DEF OwnersOfFiles
<1> DEFINE line == [k \in D |-> <<owner[order[k][1]], order[k][2]>>]
<1>8. ASSUME NEW k \in D
      PROVE  /\ order[k] \in A /\ line[k] = <<owner[order[k][1]], order[k][2]>>
             /\ matrix[k] = process_line(lines[line[k][1]][line[k][2]])
             /\ lines[line[k][1]][line[k][2]] \in LogLines
             /\ line[k] \in WrittenCalls
  <2>1. order[k] \in A
    BY <1>4
  <2>2. matrix[k] = process_line(Files[order[k][1]][order[k][2]])
    BY <1>2, <1>4
  <2>3. line[k] \in WrittenCalls
    BY <1>6, <1>7, <2>1 DEF WrittenCalls
  <2> QED
    BY <1>7, <2>1, <2>2, <2>3
<1>9. line \in Bijection(D, WrittenCalls)
  <2>1. line \in [D -> WrittenCalls]
    BY <1>8
  <2>2. ASSUME NEW j \in D, NEW k \in D, line[j] = line[k] PROVE j = k
    <3>1. order[j] \in A /\ order[k] \in A
      BY <1>8
    <3>2. owner[order[j][1]] = owner[order[k][1]] /\ order[j][2] = order[k][2]
      BY <1>8, <2>2
    <3>3. order[j][1] = order[k][1]
      BY <1>5, <1>6, <3>1, <3>2 DEF OwnersOfFiles
    <3>4. order[j] = order[k]
      BY <1>6, <3>1, <3>2, <3>3
    <3> QED
      BY <1>4, <3>4
  <2>3. ASSUME NEW c \in WrittenCalls PROVE \E k \in D : line[k] = c
    <3>0. PICK p \in Procs : \E x \in 1..written[p] : c = <<p, x>> /\ lines[p][x].fields # 8
      BY DEF WrittenCalls
    <3>1. PICK x \in 1..written[p] : c = <<p, x>> /\ lines[p][x].fields # 8
      BY <3>0
    <3>2. Initialized(p)
      <4>1. LogInv(p) /\ (logging[p] = "off" => written[p] = 0)
        BY DEF IInv, RunInv, LogInv
      <4> QED
        BY <3>1, <4>1 DEF Initialized
    <3>3. PICK n \in DOMAIN Files : owner[n] = p
      BY <1>5, <3>2 DEF OwnersOfFiles
    <3>4. <<n, x>> \in A
      BY <1>6, <3>1, <3>3
    <3>5. PICK k \in D : order[k] = <<n, x>>
      BY <1>4, <3>4
    <3> QED
      BY <1>8, <3>1, <3>3, <3>5
  <2> HIDE DEF line
  <2> QED
    BY <2>1, <2>2, <2>3 DEF Bijection, Injection, Surjection, IsInjective
<1>10. ASSUME NEW j \in D, NEW k \in D, j < k,
              matrix[j].at \div Ticks = matrix[k].at \div Ticks
       PROVE  matrix[j].at <= matrix[k].at
  <2> DEFINE a == lines[line[j][1]][line[j][2]]
             c == lines[line[k][1]][line[k][2]]
  <2>1. matrix[j] = process_line(a) /\ matrix[k] = process_line(c)
        /\ a \in LogLines /\ c \in LogLines
    BY <1>8
  <2>2. matrix[j].time_ms <= matrix[k].time_ms
    BY <1>3, <1>4, <1>10
  <2> HIDE DEF a, c, line
  <2>3. /\ matrix[j].at = a.at /\ matrix[k].at = c.at
        /\ matrix[j].time_ms = time_ms(a) /\ matrix[k].time_ms = time_ms(c)
    BY <2>1 DEF process_line
  <2>4. a.at \in Nat /\ c.at \in Nat
    BY <2>1 DEF LogLines
  <2> QED
    BY <1>10, <2>2, <2>3, <2>4, SameSecond DEF time_ms
<1> HIDE DEF line
<1> QED
  BY <1>4, <1>8, <1>9, <1>10 DEF OrderWithinSeconds
-----------------------------------------------------------------------------
(* The theorems *)

\* A step of the whole is a step of the run, the analysis, or nothing.
LEMMA Steps ==
  ASSUME [Next]_vars
  PROVE  /\ [RunStep]_runVars
         /\ \/ RunStep /\ UNCHANGED <<summary, matrix>>
            \/ Analyse
            \/ UNCHANGED vars
BY DEF Next, vars, Run, Analyse, Terminating

\* When all processes have ended nothing happens to their logs.
LEMMA Frozen ==
  ASSUME \A p \in Procs : LogInv(p), RunOver, RunStep
  PROVE  UNCHANGED <<pc, logging, lines, written>>
<1>1. \A p \in Procs : ~Live(p) /\ p \notin sigint
  BY DEF RunOver, Procs, Live, Exited, LogInv
<1>2. Browser \in Procs /\ ~Live(Browser) /\ pc[Browser] # "none"
  BY <1>1 DEF Procs, RunOver, Exited
<1>3. \A p \in Procs : ~my_main(p)
  BY <1>2 DEF my_main
<1>4. ASSUME NEW p \in Procs
      PROVE  /\ ~Enter(p) /\ ~Leave(p) /\ ~Exit(p) /\ ~Interrupted(p) /\ ~Killed(p)
             /\ \A t \in Threads : ~MarkStep(p, t)
  BY <1>1 DEF Enter, Leave, Exit, Interrupted, Killed, MarkStep, MarkLoaded, MarkFraction,
        MarkUnderLock, MarkLog
<1>5. ~sigalrm_handler /\ ~Killpg
  BY <1>2 DEF sigalrm_handler, Killpg
<1> QED
  BY <1>3, <1>4, <1>5 DEF RunStep, Tick, log

\* The invariant holds at the start.
LEMMA InitInv == Init => IInv
<1> SUFFICES ASSUME Init PROVE IInv
  OBVIOUS
<1> USE DEF Init, RunInit
<1>1. /\ 0 \in 0..MaxClock /\ 0 \in 0..(Ticks - 1) /\ run.calls \in Nat
      /\ <<"none", 0>> \in Marks
  BY DEF Marks
<1>2. TypeOK
  BY <1>1 DEF TypeOK, NotMarking, Exited
<1>3. ASSUME NEW p \in Procs PROVE LogInv(p) /\ OnceInv(p) /\ TimeInv(p)
  <2>1. Marking(p) = {} /\ LoadTimes(p) = {}
    BY <1>3 DEF Marking, NotMarking, LoadTimes
  <2>2. LogInv(p)
    BY <1>3, <2>1 DEF LogInv
  <2>3. Cardinality(LoadTimes(p)) = 0 /\ Cardinality(Marking(p)) = 0
    BY <2>1, FS_EmptySet
  <2>4. OnceInv(p)
    <3>1. Cardinality(Threads) \in Nat
      BY FS_CardinalityType
    <3>2. \A t \in Threads : mark[p][t][1] # "log"
      BY <1>3 DEF NotMarking
    <3> QED
      BY <1>3, <2>1, <2>3, <3>1, <3>2 DEF OnceInv
  <2>5. TimeInv(p)
    BY <1>3, <2>1 DEF TimeInv, NotMarking
  <2> QED
    BY <2>2, <2>4, <2>5
<1> QED
  BY <1>2, <1>3 DEF IInv, RunInv, Analysed

\* Every step preserves it.
LEMMA StepInv == IInv /\ [Next]_vars => IInv'
<1> SUFFICES ASSUME IInv, [Next]_vars PROVE IInv'
  OBVIOUS
<1>1. TypeOK /\ \A p \in Procs : LogInv(p) /\ OnceInv(p) /\ TimeInv(p)
  BY DEF IInv, RunInv
<1>2. RunInv'
  <2>1. TypeOK'
    BY <1>1, TypeStep, Steps
  <2>2. \A p \in Procs : LogInv(p)' /\ OnceInv(p)' /\ TimeInv(p)'
    BY <1>1, LogStep, MarkStepInv, Steps
  <2> QED
    BY <2>1, <2>2 DEF RunInv
<1>3. ASSUME UNCHANGED <<pc, logging, lines, written>> PROVE Files' = Files /\ RunOver' = RunOver
  BY <1>3 DEF Files, Initialized, RunOver, Live
<1>4. Analysed' => /\ RunOver' /\ summary' = Summary(Files')
                   /\ matrix' \in gen_data_matrix(Files')
  <2>1. CASE RunStep /\ UNCHANGED <<summary, matrix>>
    BY <1>1, <1>3, <2>1, Frozen DEF IInv, Analysed
  <2>2. CASE Analyse
    <3>1. UNCHANGED <<pc, logging, lines, written>>
      BY <2>2 DEF Analyse, runVars, log
    <3> QED
      BY <1>3, <2>2, <3>1 DEF Analyse
  <2>3. CASE UNCHANGED vars
    <3>1. UNCHANGED <<pc, logging, lines, written, summary, matrix>>
      BY <2>3 DEF vars, runVars, log
    <3> QED
      BY <1>3, <3>1 DEF IInv, Analysed
  <2> QED
    BY <2>1, <2>2, <2>3, Steps
<1> QED
  BY <1>2, <1>4 DEF IInv

\* The inductive invariant holds in every reachable state.
THEOREM Inductive == Spec => []IInv
BY InitInv, StepInv, PTL DEF Spec

\* In every reachable state the variables have their types.
THEOREM TypeCorrect == Spec => []TypeOK
<1>1. IInv => TypeOK
  BY DEF IInv, RunInv
<1> QED
  BY <1>1, Inductive, PTL

\* experiment_mark_page_loaded, any number of threads: each one records a page load time
\* at most, and without threads that pass the unlocked test together there is one, the
\* time from experiment_init to the first document that was complete.
THEOREM FirstDocument == Spec => []FirstDocumentIsThePage
<1>1. IInv => FirstDocumentIsThePage
  <2> SUFFICES ASSUME IInv, NEW p \in Procs
               PROVE  /\ external_timing => LoadTimes(p) = {}
                      /\ Cardinality(LoadTimes(p)) <= Cardinality(Threads)
                      /\ ~overlapped[p] =>
                            /\ Cardinality(LoadTimes(p)) <= 1
                            /\ \A k \in LoadTimes(p) :
                                  lines[p][k].ms = firstMark[p] - page_start[p]
    BY DEF FirstDocumentIsThePage
  <2>1. TypeOK /\ OnceInv(p) /\ TimeInv(p)
    BY DEF IInv, RunInv
  <2>2. /\ Cardinality(LoadTimes(p)) \in Nat /\ Cardinality(Marking(p)) \in Nat
        /\ Cardinality(Threads) \in Nat
    BY <2>1, Sizes
  <2>3. /\ Cardinality(LoadTimes(p)) + Cardinality(Marking(p)) <= Cardinality(Threads)
        /\ ~overlapped[p] => Cardinality(LoadTimes(p)) + Cardinality(Marking(p)) <= 1
    BY <2>1 DEF OnceInv
  <2>4. /\ Cardinality(LoadTimes(p)) <= Cardinality(Threads)
        /\ ~overlapped[p] => Cardinality(LoadTimes(p)) <= 1
    BY <2>2, <2>3
  <2> QED
    BY <2>1, <2>4 DEF OnceInv, TimeInv
<1> QED
  BY <1>1, Inductive, PTL

\* exit, _exit and sigalrm_handler: every line a process was given before its log was
\* closed is in its file when it has ended that way.
THEOREM NothingLost == Spec => []NothingLostByExit
<1>1. IInv => NothingLostByExit
  <2> SUFFICES ASSUME IInv, NEW p \in Procs,
                      pc[p] = "exited" \/ (p = Browser /\ handler # "none")
               PROVE  written[p] = Len(lines[p])
    BY DEF NothingLostByExit
  <2>1. LogInv(p) /\ logging[p] \in {"off", "on", "shut"}
    BY DEF IInv, RunInv, TypeOK
  <2>2. logging[p] = "off" => lines[p] = <<>>
    BY DEF IInv, RunInv, TypeOK
  <2>3. Len(<<>>) = 0
    OBVIOUS
  <2> QED
    BY <2>1, <2>2, <2>3 DEF LogInv
<1> QED
  BY <1>1, Inductive, PTL

\* summarize.sh: the summary has the values of the processes that ended through exit, and
\* no value that was not measured.
THEOREM SummaryComplete == Spec => []SummaryOfTheRun
BY SummaryHolds, Inductive, PTL

\* processing.py, any number of processes and any resolution of the clock down to the
\* microsecond: the plotted rows are the written entries and exits, each once, and those
\* of one second are in the order of time.
THEOREM RowsOrdered == Spec => []OrderWithinSeconds
BY MatrixHolds, Inductive, PTL
=============================================================================
