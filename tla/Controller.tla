----------------------------- MODULE Controller -----------------------------
(***************************************************************************)
(* chrome-experimenter.py from the addSet calls to pageloads.log, with the *)
(* IPC interface it owns and a browser behind DevTools that may answer     *)
(* late, answer for another document, refuse, or die.  The other program   *)
(* that owns an interface is the self-test of ipc.py: it catches the       *)
(* exceptions and goes on calling, which end the script.                   *)
(*                                                                         *)
(* A page is the index of its turn in the sample of the sites; document 0  *)
(* is the one the browser starts with.  A number reported by the browser   *)
(* is the document it was taken from, Zero, or None.                       *)
(***************************************************************************)
EXTENDS IpcInterface

CONSTANTS Arguments,   \* arguments of the addSet calls: sequences of sets
          MaxAdds,     \* bound on the calls of addSet
          Leftovers,   \* content a file of the right size may be found with
          Retries,     \* connection attempts after the first, 10 in the script
          Pages,       \* pages of the experiment
          Zero         \* the number 0

ASSUME ControllerAssumption ==
    /\ \A fSet \in Arguments : fSet \in Seq(FunctionSets)
    /\ \A content \in Leftovers : \A p \in DOMAIN content :
          p \in Nat /\ LineSize(content[p]) \in Nat \ {0}
    /\ MaxAdds \in Nat /\ Retries \in Nat /\ Pages \in Nat \ {0}
    /\ Zero \notin Nat /\ Zero # None

VARIABLES
    pc,       \* where the program is
    adds,     \* addSet calls so far
    single,   \* --single-process: expectedProcesses is 1
    listed,   \* --timeout: the value stays the list argparse makes of it
    display,  \* a display server was running before the script
    retries,  \* connection attempts left
    page,     \* turn of the page loop
    result,   \* navigationStart and duration of the page
    woke,     \* the document whose load event ended the wait, or None
    loadTimes,\* what is recorded for each page
    log,      \* pageloads.log
    browser,  \* the browser process
    nav,      \* the page of a navigation that has not committed, or None
    doc,      \* the document of the tab
    loaded,   \* its load event has happened
    stopped,  \* Page.stopLoading ended it before that
    told,     \* the masks in the file when its processes were last told to read it
    event     \* the first load event in the DevTools socket, by document, or None

options == <<single, listed, display>>
pages   == <<page, result, woke, loadTimes, log>>
script  == <<pc, adds, options, retries, pages>>
chrome  == <<browser, nav, doc, loaded, stopped, event, told>>
vars    == <<script, chrome, ipcVars>>
-----------------------------------------------------------------------------
Turns     == 1..Pages
Documents == 0..Pages
Results   == [nav : Documents \cup {None}, dur : Documents \cup {Zero, None}]
NoResult  == [nav |-> None, dur |-> None]

ResultLoop == {"start", "duration", "check"}
Ended      == {"done", "exit", "exception"}

TypeOK ==
    /\ pc \in {"sets", "self test", "initIpc", "launch", "connect", "signal", "navigate",
               "wait", "stopLoading", "stopped", "randomize", "closing", "kill", "write"}
              \cup ResultLoop \cup Ended
    /\ adds \in 0..MaxAdds
    /\ single \in BOOLEAN /\ listed \in BOOLEAN /\ display \in BOOLEAN
    /\ retries \in 0..Retries
    /\ page \in 0..Pages
    /\ result \in Results
    /\ woke \in Documents \cup {None}
    /\ loadTimes \in Seq(Results) /\ Len(loadTimes) <= Pages /\ log \in {None, loadTimes}
    /\ browser \in {"none", "starting", "listening", "dead"}
    /\ nav \in Turns \cup {None} /\ doc \in Documents
    /\ loaded \in BOOLEAN /\ stopped \in BOOLEAN
    /\ event \in Documents \cup {None}
    /\ functionSetList \in Seq(FunctionSets)
    /\ globalSet \subseteq Names
    /\ ipcWritable \in BOOLEAN /\ raised \in BOOLEAN
    /\ op \in {"none", "init", "randomize"} /\ i \in 1..(Len(functionSetList) + 1)

Init ==
    /\ pc \in {"sets", "self test"}
    /\ adds = 0
    /\ single \in BOOLEAN /\ listed \in BOOLEAN /\ display \in BOOLEAN
    /\ retries = Retries
    /\ page = 0
    /\ result = NoResult
    /\ woke = None
    /\ loadTimes = <<>> /\ log = None
    /\ browser = "none"
    /\ nav = None /\ doc = 0 /\ loaded = FALSE /\ stopped = FALSE /\ event = None
    /\ IpcInit
    /\ told = drawn

Goto(l) == pc' = l
-----------------------------------------------------------------------------
(* The self-test of ipc.py, with its calls in any order. *)

TestStep ==
    /\ pc = "self test"
    /\ \/ adds < MaxAdds /\ adds' = adds + 1 /\ \E fSet \in Arguments : addSet(fSet)
       \/ (initIpc \/ randomizeMasks \/ ipcStep) /\ UNCHANGED adds
    /\ UNCHANGED <<pc, options, retries, pages, chrome>>
-----------------------------------------------------------------------------
(* Set-up *)

\* The sets an experimenter wrote into the script; an exception ends it.
AddSet ==
    /\ pc = "sets" /\ adds < MaxAdds
    /\ \E fSet \in Arguments : addSet(fSet)
    /\ adds' = adds + 1
    /\ IF raised' THEN Goto("exception") ELSE Goto("sets")
    /\ UNCHANGED <<options, retries, pages, chrome>>

\* Preallocate the file: one of the right size is kept.
Prepare ==
    /\ pc = "sets"
    /\ \E content \in Leftovers \cup {<<>>} :
         Allocate([p \in {q \in DOMAIN content : q + LineSize(content[q]) <= size}
                      |-> content[p]])
    /\ Goto("initIpc")
    /\ UNCHANGED <<adds, options, retries, pages, chrome>>

CallInitIpc ==
    /\ pc = "initIpc" /\ ~ipcWritable
    /\ initIpc
    /\ UNCHANGED <<script, chrome>>

\* The loop of the call over the sets.
IpcLoop ==
    /\ pc \in {"initIpc", "randomize"}
    /\ ipcStep
    /\ UNCHANGED <<script, chrome>>

LeaveInitIpc ==
    /\ pc = "initIpc" /\ ipcWritable /\ Idle
    /\ IF raised THEN Goto("exception") ELSE Goto("launch")
    /\ UNCHANGED <<adds, options, retries, pages, chrome, ipcVars>>

\* Mutant: an empty list when there is no such process.
procIsReallyAlive(alive) == alive

\* The lines of pgrep's output: no output is one empty line.
findProcess(n)     == IF n = 0 THEN 1 ELSE n
procIsAlive(alive) == findProcess(IF alive THEN 1 ELSE 0) > 0

\* Xvfb is started when none is alive; without one the browser dies at once.  Each
\* process reads the file when it starts.
Launch ==
    /\ pc = "launch"
    /\ \/ /\ Goto("connect")
          /\ browser' = IF display \/ ~procIsAlive(display) THEN "starting" ELSE "dead"
          /\ told' = drawn
       \/ Goto("exit") /\ UNCHANGED <<browser, told>>  \* printe: no such file
    /\ UNCHANGED <<adds, options, retries, pages, nav, doc, loaded, stopped, event, ipcVars>>

Connect ==
    /\ pc = "connect"
    /\ browser = "listening"
    /\ Goto("signal") \/ Goto("exit")  \* printe: an error other than a refusal
    /\ UNCHANGED <<adds, options, retries, pages, chrome, ipcVars>>

\* The number of processes pgrep finds; a dead browser has not been reaped.
Alive == IF browser = "dead" THEN {1} ELSE {1, 2}

\* Mutant: a refusal counts only while a process is missing.
RetryForEver ==
    /\ pc = "connect" /\ browser \in {"starting", "dead"}
    /\ \E n \in Alive :
         IF findProcess(n) < (IF single THEN 1 ELSE 2)
         THEN Goto("exit") /\ UNCHANGED retries
         ELSE Goto("connect") /\ UNCHANGED retries
    /\ UNCHANGED <<adds, options, pages, chrome, ipcVars>>

\* The connection is refused.
Retry ==
    /\ pc = "connect" /\ browser \in {"starting", "dead"}
    /\ \E n \in Alive :
         IF retries <= 0 \/ findProcess(n) < (IF single THEN 1 ELSE 2)
         THEN Goto("exit") /\ UNCHANGED retries
         ELSE Goto("connect") /\ retries' = retries - 1
    /\ UNCHANGED <<adds, options, pages, chrome, ipcVars>>
-----------------------------------------------------------------------------
(* The page loop *)

\* Mutant: one page too many.
SignalOneMore ==
    /\ pc = "signal"
    /\ IF page > Pages THEN Goto("closing") /\ UNCHANGED page
                       ELSE Goto("navigate") /\ page' = page + 1
    /\ told' = drawn
    /\ UNCHANGED <<adds, options, retries, result, woke, loadTimes, log,
                   browser, nav, doc, loaded, stopped, event, ipcVars>>

\* The first SIGCONT, or the one after the masks were randomized; then the next page.
Signal ==
    /\ pc = "signal"
    /\ IF page = Pages THEN Goto("closing") /\ UNCHANGED page
                       ELSE Goto("navigate") /\ page' = page + 1
    /\ told' = drawn
    /\ UNCHANGED <<adds, options, retries, result, woke, loadTimes, log,
                   browser, nav, doc, loaded, stopped, event, ipcVars>>

\* Mutant: the result is initialised once, before the loop.
NavigateKeepsResult ==
    /\ pc = "navigate"
    /\ event' = None
    /\ woke' = None
    /\ \/ browser = "listening" /\ Goto("wait") /\ nav' = page
       \/ browser = "dead" /\ Goto("exception") /\ UNCHANGED nav
    /\ UNCHANGED <<adds, options, retries, page, result, loadTimes, log,
                   browser, doc, loaded, stopped, told, ipcVars>>

\* A command drops the events that were in the socket.
Navigate ==
    /\ pc = "navigate"
    /\ event' = None
    /\ result' = NoResult /\ woke' = None
    /\ \/ browser = "listening" /\ Goto("wait") /\ nav' = page
       \/ browser = "dead" /\ Goto("exception") /\ UNCHANGED nav
    /\ UNCHANGED <<adds, options, retries, page, loadTimes, log,
                   browser, doc, loaded, stopped, told, ipcVars>>

\* wait_event: the first load event, of whatever document, or the timeout; the
\* comparison with a list is a TypeError.
WaitEvent ==
    /\ pc = "wait"
    /\ IF listed THEN Goto("exception") /\ UNCHANGED woke ELSE
       /\ Goto("start")
       /\ woke' \in {event, None}
    /\ event' = None
    /\ UNCHANGED <<adds, options, retries, page, result, loadTimes, log,
                   browser, nav, doc, loaded, stopped, told, ipcVars>>

\* An evaluation answers for the document of the moment, or raises: both are in one try.
EvaluateStart ==
    /\ pc = "start" /\ browser = "listening"
    /\ result' = [result EXCEPT !.nav = doc]
    /\ Goto("duration")
    /\ UNCHANGED <<adds, options, retries, page, woke, loadTimes, log, chrome, ipcVars>>

\* The duration is 0 until the document has loaded.
EvaluateDuration ==
    /\ pc = "duration" /\ browser = "listening"
    /\ result' = [result EXCEPT !.dur = IF loaded THEN doc ELSE Zero]
    /\ Goto("check")
    /\ UNCHANGED <<adds, options, retries, page, woke, loadTimes, log, chrome, ipcVars>>

EvaluateRaises ==
    /\ pc \in {"start", "duration"}
    /\ Goto("check")
    /\ UNCHANGED <<adds, options, retries, pages, chrome, ipcVars>>

Missing == {Zero, None} \cap {result.nav, result.dur} # {}

\* Mutant: a 0 is taken for a result.
CheckNone ==
    /\ pc = "check"
    /\ IF None \in {result.nav, result.dur} THEN Goto("start") /\ UNCHANGED loadTimes
       ELSE Goto("stopLoading") /\ loadTimes' = Append(loadTimes, result)
    /\ UNCHANGED <<adds, options, retries, page, result, woke, log, chrome, ipcVars>>

Check ==
    /\ pc = "check"
    /\ IF Missing THEN Goto("start") /\ UNCHANGED loadTimes
       ELSE Goto("stopLoading") /\ loadTimes' = Append(loadTimes, result)
    /\ UNCHANGED <<adds, options, retries, page, result, woke, log, chrome, ipcVars>>

\* Mutant: a failure is only reported.
StopLoadingReported ==
    /\ pc = "stopLoading"
    /\ Goto("stopped")
    /\ \/ browser = "listening" /\ nav' = None /\ stopped' = ~loaded
       \/ UNCHANGED <<nav, stopped>>
    /\ UNCHANGED <<adds, options, retries, pages, browser, doc, loaded, event, told, ipcVars>>

\* Mutant: a failure is tried again.
StopLoadingAgain ==
    /\ pc = "stopLoading"
    /\ IF browser = "listening"
       THEN Goto("stopped") /\ nav' = None /\ stopped' = ~loaded
       ELSE UNCHANGED <<pc, nav, stopped>>
    /\ UNCHANGED <<adds, options, retries, pages, browser, doc, loaded, event, told, ipcVars>>

\* A navigation that has not committed is cancelled, and a document that is still
\* loading stops, without a load event.
StopLoading ==
    /\ pc = "stopLoading"
    /\ \/ /\ browser = "listening"
          /\ Goto("stopped")
          /\ nav' = None
          /\ stopped' = ~loaded
       \/ Goto("exit") /\ UNCHANGED <<nav, stopped>>  \* printe
    /\ UNCHANGED <<adds, options, retries, pages, browser, doc, loaded, event, told, ipcVars>>

CallRandomizeMasks ==
    /\ pc = "stopped"
    /\ Goto("randomize")
    /\ randomizeMasks
    /\ UNCHANGED <<adds, options, retries, pages, chrome>>

LeaveRandomize ==
    /\ pc = "randomize" /\ Idle
    /\ IF raised THEN Goto("exception") ELSE Goto("signal")
    /\ UNCHANGED <<adds, options, retries, pages, chrome, ipcVars>>
-----------------------------------------------------------------------------
(* Closing; communicate returns when the browser is dead or after its timeout. *)

\* An exception of Browser.close is swallowed with the kill that follows it.
Close ==
    /\ pc = "closing"
    /\ \/ browser = "listening" /\ Goto("kill")
       \/ Goto("write")
    /\ UNCHANGED <<adds, options, retries, pages, chrome, ipcVars>>

Kill ==
    /\ pc = "kill"
    /\ browser' = "dead"
    /\ Goto("write")
    /\ UNCHANGED <<adds, options, retries, pages, nav, doc, loaded, stopped, event, told, ipcVars>>

WriteLog ==
    /\ pc = "write"
    /\ log' = loadTimes
    /\ Goto("done")
    /\ UNCHANGED <<adds, options, retries, page, result, woke, loadTimes, chrome, ipcVars>>
-----------------------------------------------------------------------------
(* The browser *)

Listen ==
    /\ browser = "starting"
    /\ browser' = "listening"
    /\ UNCHANGED <<nav, doc, loaded, stopped, event, told>>

Die ==
    /\ browser \in {"starting", "listening"}
    /\ browser' = "dead"
    /\ UNCHANGED <<nav, doc, loaded, stopped, event, told>>

Commit ==
    /\ browser = "listening" /\ nav # None
    /\ doc' = nav /\ nav' = None /\ loaded' = FALSE /\ stopped' = FALSE
    /\ UNCHANGED <<browser, event, told>>

\* Events that no command waits for are dropped by the next command.
LoadEvent ==
    /\ browser = "listening" /\ ~loaded /\ ~stopped
    /\ loaded' = TRUE
    /\ event' = IF pc = "wait" /\ event = None THEN doc ELSE event
    /\ UNCHANGED <<browser, nav, doc, stopped, told>>

Chrome == (Listen \/ Die \/ Commit \/ LoadEvent) /\ UNCHANGED <<script, ipcVars>>
-----------------------------------------------------------------------------
Script ==
    \/ AddSet \/ Prepare \/ CallInitIpc \/ IpcLoop \/ LeaveInitIpc \/ Launch \/ Connect \/ Retry
    \/ Signal \/ Navigate \/ WaitEvent \/ EvaluateStart \/ EvaluateDuration \/ EvaluateRaises
    \/ Check \/ StopLoading \/ CallRandomizeMasks \/ LeaveRandomize \/ Close \/ Kill \/ WriteLog

Terminating == pc \in Ended /\ UNCHANGED vars

Next == TestStep \/ Script \/ Chrome \/ Terminating

\* The script runs on and calls addSet finitely often; a browser that lives does not
\* answer evaluations with exceptions only.  A page need not ever finish loading.
Fairness ==
    /\ WF_vars(Script)
    /\ SF_vars(EvaluateStart) /\ SF_vars(EvaluateDuration)

Spec == Init /\ [][Next]_vars /\ Fairness
-----------------------------------------------------------------------------
(* Properties *)

(* A page whose own load event ended the wait is recorded with its own times: no     *)
(* retry and no late answer mixes in another document.  A wait that timed out or was  *)
(* ended by another document's event may record the page before (line 271).          *)
ResultOfPage ==
    pc = "stopLoading" /\ woke = page => result = [nav |-> page, dur |-> page]

\* A page is on its way, from its navigation to its load event or its stop.
Loading == /\ browser \in {"starting", "listening"}
           /\ nav # None \/ (~loaded /\ ~stopped)

(* Every page loads under one round of masks: from its navigation to its load event   *)
(* the masks in the file are those that the browser's processes were last told to     *)
(* read, and neither changes.  This is why stopLoading comes before randomizeMasks    *)
(* (the comment of line 288): the wait may have ended without the page's own event,   *)
(* with its navigation not committed or its document half loaded.                     *)
LoadsUnderOneRound == [][Loading => told = drawn /\ UNCHANGED <<told, drawn>>]_vars

(* What reaches pageloads.log is complete: one row for each page, in which both       *)
(* numbers were reported, and the duration never by an earlier document than the      *)
(* start; the only other experiments are those that leave no log at all.              *)
CompleteLog ==
    log # None =>
        /\ Len(log) = Pages
        /\ \A k \in Turns : /\ log[k].nav \in Documents /\ log[k].dur \in Documents
                            /\ log[k].nav <= log[k].dur /\ log[k].dur <= k

(* Without a display server that somebody else started no page is ever loaded:        *)
(* procIsAlive is true of processes that do not exist, so Xvfb is never started.       *)
NeedsDisplay == page > 0 => display

(* The connection phase ends, with a browser that never listens and with a dead one   *)
(* whose process is still counted: the retries bound it.                              *)
ConnectionEnds == pc = "connect" ~> pc # "connect"

(* The script ends, or evaluates for ever on a browser that died or a document that   *)
(* never finishes loading: the wait for a result (line 275) is its only endless loop.  *)
EndsOrWaits ==
    \/ <>(pc \in Ended \cup {"self test"})
    \/ <>[](pc \in ResultLoop /\ (browser = "dead" \/ ~loaded))
-----------------------------------------------------------------------------
(* The inductive invariant behind the safety properties *)

Measuring == {"navigate", "wait"} \cup ResultLoop
Closing   == {"closing", "kill", "write"}
Stopping  == {"stopLoading", "stopped", "randomize"}
Connected == {"signal"} \cup Stopping \cup Measuring \cup Closing

\* Which part of the script runs the loops over the sets.
LoopInv ==
    /\ op = "init" => pc \in {"initIpc", "self test"}
    /\ op = "randomize" => pc \in {"randomize", "self test"}

\* The browser gets as far as its display.
DisplayInv ==
    browser \in {"starting", "listening"} \/ pc \in Connected \/ page > 0 => display

\* How many pages are recorded, and that a row never goes back to an earlier document.
RowsInv ==
    /\ pc \notin Connected \cup Ended => page = 0 /\ loadTimes = <<>>
    /\ pc \in Measuring => page = Len(loadTimes) + 1
    /\ pc \in {"signal"} \cup Stopping => page = Len(loadTimes)
    /\ pc \in Closing => Len(loadTimes) = Pages
    /\ log # None => Len(loadTimes) = Pages
    /\ \A k \in DOMAIN loadTimes :
          /\ loadTimes[k].nav \in Documents /\ loadTimes[k].dur \in Documents
          /\ loadTimes[k].nav <= loadTimes[k].dur /\ loadTimes[k].dur <= k

\* A page is on its way from its navigation to stopLoading at most; its document is
\* committed in its turn or a later one, after those of the pages before it.
DocumentInv ==
    /\ doc <= page
    /\ nav # None => /\ doc < nav /\ nav <= page
                     /\ pc \in {"wait", "stopLoading"} \cup ResultLoop \cup Ended
    /\ pc = "navigate" => doc < page

\* The evaluations of a page: the duration comes last, from the same document or a
\* later one, and a page whose own event was seen does not change any more.
ResultInv ==
    /\ pc \in ResultLoop /\ result.nav # None => result.nav <= doc
    /\ pc = "duration" => result.nav # None
    /\ pc \in {"start", "duration"} => result.dur \in {None, Zero}
    /\ pc = "check" /\ result.dur \notin {None, Zero} =>
          result.nav # None /\ result.nav <= result.dur /\ result.dur <= doc
    /\ pc = "wait" => result = NoResult
    /\ pc = "wait" /\ event = page => doc = page /\ loaded
    /\ pc \in ResultLoop /\ woke = page =>
          doc = page /\ loaded /\ result.nav \in {None, page} /\ result.dur \in {None, page}

\* No page is on its way before the browser is started, nor while masks are drawn for
\* the next one; one that is was sent after all processes had been told of its masks.
RoundInv ==
    /\ pc \in {"sets", "self test", "initIpc", "launch"} => browser = "none"
    /\ pc = "navigate" => told = drawn
    /\ pc \in {"stopped", "randomize"} => ~Loading
    /\ Loading => told = drawn

\* Before initIpc the sets may still change: nothing is in the file yet.
BeforeInv ==
    /\ pc = "sets" => ~ipcWritable
    /\ pc \in {"sets", "self test"} /\ ~ipcWritable => file = <<>>

IInv == /\ TypeOK
        /\ OneSetPerFunction
        /\ LoopInv
        /\ DisplayInv
        /\ RowsInv
        /\ DocumentInv
        /\ ResultInv
        /\ ResultOfPage
        /\ RoundInv
=============================================================================
