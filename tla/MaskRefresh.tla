---------------------------- MODULE MaskRefresh ----------------------------
(***************************************************************************)
(* How affinity masks travel from chrome-experimenter.py to the Chromium   *)
(* processes that preload the interposing library.                         *)
(*                                                                         *)
(* The script rewrites the two mask lines of every FunctionSet in a file   *)
(* mapped by all processes, then sends SIGCONT to the process group.  Each *)
(* process keeps a private map `fmap' from function name to masks; its     *)
(* SIGCONT handler empties the map and parses the file again, under a      *)
(* mutex that the rest of the process does not use.  experiment_init fills *)
(* the map once by itself, without the mutex and after the handlers are in *)
(* place.  SIGINT unmaps the file.                                         *)
(*                                                                         *)
(* Data: the content of a mask line is the number of half-writes done to   *)
(* it, so an even number is a complete line and an odd one a line that is  *)
(* being overwritten (a reader sees a mixture of two masks).               *)
(***************************************************************************)
EXTENDS Naturals, FiniteSets

CONSTANTS Procs,          \* Chromium processes that run experiment_init
          Browser,        \* the one Popen starts; it spawns the others
          Threads,        \* threads of a process that may run the hooks or a handler
          Main,           \* the thread that runs experiment_init
          Boot,           \* the update of the map inside experiment_init
          Free,           \* fmap_mut has no holder
          Functions,      \* interposed functions named in the file
          NumSets,        \* number of FunctionSets in the file
          SetOf,          \* the FunctionSet of each function
          Pages,          \* page loads of the experiment (one randomizeMasks each)
          MaxInterrupts,  \* bound on the Ctrl-C the user presses
          Absent, Zero    \* no entry in fmap; the masks operator[] default-inserts

ASSUME MaskRefreshAssumption ==
    /\ Browser \in Procs
    /\ Main \in Threads
    /\ Boot \notin Threads
    /\ Free \notin Threads
    /\ NumSets \in Nat \ {0}
    /\ SetOf \in [Functions -> 1..NumSets]
    /\ Pages \in Nat
    /\ MaxInterrupts \in Nat
    /\ Absent \notin Nat \X Nat
    /\ Zero \notin Nat \X Nat

VARIABLES
    file,        \* content of the mask lines of the shared file
    cpc,         \* where chrome-experimenter.py is
    wline,       \* the line randomizeMasks writes next
    round,       \* calls of randomizeMasks that are complete
    interrupts,  \* Ctrl-C pressed so far
    pc,          \* where each process is in experiment_init, or after it
    pend,        \* signals pending for each process (a set: equal signals coalesce)
    inited,      \* initializedMmap
    mapped,      \* the file is mapped at mmapData
    closing,     \* how far each thread is in sigint_handler
    fmap,        \* the map from function to <<entry line, exit line>>
    phase,       \* what each updater of fmap is doing
    pos,         \* the line each updater copies next
    copy,        \* the private string get_mmap_str builds
    todo,        \* functions each updater has still to insert
    holder,      \* the thread that holds fmap_mut
    overrun,     \* a SIGCONT handler interrupted Boot after it began to read
    fault        \* why a process crashed

control  == <<file, cpc, wline, round, interrupts>>
reader   == <<phase, pos, copy, todo>>
vars == <<control, pc, pend, inited, mapped, closing, fmap, reader,
          holder, overrun, fault>>
-----------------------------------------------------------------------------
Updaters == Threads \cup {Boot}
Lines    == 1..(2 * NumSets)
Positions == 1..(2 * NumSets + 1)
EntryLine(f) == 2 * SetOf[f] - 1
ExitLine(f)  == 2 * SetOf[f]
Pairs == (Nat \X Nat) \cup {Absent, Zero}

Blank == [l \in Lines |-> 0]

ControlStates == {"launch", "connect", "signal", "load", "write", "close",
                  "done", "aborted"}
ProcStates == {"none", "exec", "sigint", "handlers", "update", "logging",
               "ready", "exited", "crashed"}
Running == {"exec", "sigint", "handlers", "update", "logging", "ready"}
\* States in which the handler of a signal is installed.
HandlesInt  == {"sigint", "handlers", "update", "logging", "ready"}
HandlesCont == {"handlers", "update", "logging", "ready"}

TypeOK ==
    /\ file \in [Lines -> Nat]
    /\ cpc \in ControlStates
    /\ wline \in Positions
    /\ round \in Nat
    /\ interrupts \in Nat
    /\ pc \in [Procs -> ProcStates]
    /\ pend \in [Procs -> SUBSET {"INT", "CONT"}]
    /\ inited \in [Procs -> BOOLEAN]
    /\ mapped \in [Procs -> BOOLEAN]
    /\ closing \in [Procs -> [Threads -> {"no", "check", "unmapped"}]]
    /\ fmap \in [Procs -> [Functions -> Pairs]]
    /\ phase \in [Procs -> [Updaters -> {"idle", "lock", "clear", "copy", "insert"}]]
    /\ pos \in [Procs -> [Updaters -> Positions]]
    /\ copy \in [Procs -> [Updaters -> [Lines -> Nat]]]
    /\ todo \in [Procs -> [Updaters -> SUBSET Functions]]
    /\ holder \in [Procs -> Threads \cup {Free}]
    /\ overrun \in [Procs -> BOOLEAN]
    /\ fault \in [Procs -> {"none", "read assert", "close assert", "segv", "race"}]

Init ==
    /\ file = Blank              \* initIpc has run before Popen
    /\ cpc = "launch"
    /\ wline = 1
    /\ round = 0
    /\ interrupts = 0
    /\ pc = [p \in Procs |-> "none"]
    /\ pend = [p \in Procs |-> {}]
    /\ inited = [p \in Procs |-> FALSE]
    /\ mapped = [p \in Procs |-> FALSE]
    /\ closing = [p \in Procs |-> [t \in Threads |-> "no"]]
    /\ fmap = [p \in Procs |-> [f \in Functions |-> Absent]]
    /\ phase = [p \in Procs |-> [a \in Updaters |-> "idle"]]
    /\ pos = [p \in Procs |-> [a \in Updaters |-> 1]]
    /\ copy = [p \in Procs |-> [a \in Updaters |-> Blank]]
    /\ todo = [p \in Procs |-> [a \in Updaters |-> {}]]
    /\ holder = [p \in Procs |-> Free]
    /\ overrun = [p \in Procs |-> FALSE]
    /\ fault = [p \in Procs |-> "none"]
-----------------------------------------------------------------------------
(* chrome-experimenter.py *)

\* Popen of the browser.
Launch ==
    /\ cpc = "launch"
    /\ cpc' = "connect"
    /\ pc' = [pc EXCEPT ![Browser] = "exec"]
    /\ UNCHANGED <<file, wline, round, interrupts, pend, inited, mapped, closing,
                   fmap, reader, holder, overrun, fault>>

\* The DevTools port answers only once the browser has run experiment_init.
Connect ==
    /\ cpc = "connect"
    /\ pc[Browser] = "ready"
    /\ cpc' = "signal"
    /\ UNCHANGED <<file, wline, round, interrupts, pc, pend, inited, mapped,
                   closing, fmap, reader, holder, overrun, fault>>

\* No retry is left, a process is missing, or another exception: printe exits.
ConnectFails ==
    /\ cpc = "connect"
    /\ cpc' = "done"
    /\ UNCHANGED <<file, wline, round, interrupts, pc, pend, inited, mapped,
                   closing, fmap, reader, holder, overrun, fault>>

\* Faulty variant: SIGCONT is sent to the browser and not to its process group.
SignalBrowserOnly ==
    /\ cpc = "signal"
    /\ pend' = [pend EXCEPT ![Browser] = IF pc[Browser] \in HandlesCont
                                         THEN @ \cup {"CONT"} ELSE @]
    /\ cpc' = IF round < Pages THEN "load" ELSE "close"
    /\ UNCHANGED <<file, wline, round, interrupts, pc, inited, mapped, closing,
                   fmap, reader, holder, overrun, fault>>

\* os.killpg(..., SIGCONT): a process without a handler ignores the signal.
Signal ==
    /\ cpc = "signal"
    /\ pend' = [p \in Procs |-> IF pc[p] \in HandlesCont
                                THEN pend[p] \cup {"CONT"} ELSE pend[p]]
    /\ cpc' = IF round < Pages THEN "load" ELSE "close"
    /\ UNCHANGED <<file, wline, round, interrupts, pc, inited, mapped, closing,
                   fmap, reader, holder, overrun, fault>>

\* A page is loaded and measured, then stopLoading returns.
Load ==
    /\ cpc = "load"
    /\ pc[Browser] = "ready"
    /\ cpc' = "write"
    /\ UNCHANGED <<file, wline, round, interrupts, pc, pend, inited, mapped,
                   closing, fmap, reader, holder, overrun, fault>>

\* navigate, wait_event or stopLoading raises: the script ends.
LoadFails ==
    /\ cpc = "load"
    /\ cpc' = "done"
    /\ UNCHANGED <<file, wline, round, interrupts, pc, pend, inited, mapped,
                   closing, fmap, reader, holder, overrun, fault>>

\* randomizeMasks overwrites a mask line, in two halves.
BeginLine ==
    /\ cpc = "write"
    /\ wline \in Lines
    /\ file[wline] % 2 = 0
    /\ file' = [file EXCEPT ![wline] = @ + 1]
    /\ UNCHANGED <<cpc, wline, round, interrupts, pc, pend, inited, mapped,
                   closing, fmap, reader, holder, overrun, fault>>

EndLine ==
    /\ cpc = "write"
    /\ wline \in Lines
    /\ file[wline] % 2 = 1
    /\ file' = [file EXCEPT ![wline] = @ + 1]
    /\ wline' = wline + 1
    /\ UNCHANGED <<cpc, round, interrupts, pc, pend, inited, mapped, closing,
                   fmap, reader, holder, overrun, fault>>

\* Faulty variant: the position is not reset (no seek to the first mask line).
EndWriteNoSeek ==
    /\ cpc = "write"
    /\ wline = 2 * NumSets + 1
    /\ wline' = wline + 1
    /\ round' = round + 1
    /\ cpc' = "signal"
    /\ UNCHANGED <<file, interrupts, pc, pend, inited, mapped, closing, fmap,
                   reader, holder, overrun, fault>>

\* Faulty variant: the loop leaves out the last FunctionSet.
EndWriteShort ==
    /\ cpc = "write"
    /\ wline = 2 * NumSets - 1
    /\ wline' = 1
    /\ round' = round + 1
    /\ cpc' = "signal"
    /\ UNCHANGED <<file, interrupts, pc, pend, inited, mapped, closing, fmap,
                   reader, holder, overrun, fault>>

EndWrite ==
    /\ cpc = "write"
    /\ wline = 2 * NumSets + 1
    /\ wline' = 1
    /\ round' = round + 1
    /\ cpc' = "signal"
    /\ UNCHANGED <<file, interrupts, pc, pend, inited, mapped, closing, fmap,
                   reader, holder, overrun, fault>>

\* Browser.close, then process.kill: an exception of the first skips the second, and
\* both are in a bare `except:'.
Close ==
    /\ cpc = "close"
    /\ cpc' = "done"
    /\ \/ pc' = [pc EXCEPT ![Browser] = IF @ \in Running THEN "exited" ELSE @]
       \/ UNCHANGED pc
    /\ UNCHANGED <<file, wline, round, interrupts, pend, inited, mapped, closing,
                   fmap, reader, holder, overrun, fault>>

\* Ctrl-C reaches the whole process group.  It ends the script, unless one of the
\* bare `except:' around Runtime.evaluate and around the closing of the browser
\* swallows it; it ends a process that has not installed its handler yet.
Interrupt ==
    /\ interrupts < MaxInterrupts
    /\ cpc \notin {"launch", "done", "aborted"}
    /\ interrupts' = interrupts + 1
    /\ \/ cpc' = "aborted"
       \/ cpc = "load" /\ cpc' = "load"
       \/ cpc = "close" /\ cpc' = "done"
    /\ pc' = [p \in Procs |-> IF pc[p] = "exec" THEN "exited" ELSE pc[p]]
    /\ pend' = [p \in Procs |-> IF pc[p] \in HandlesInt
                                THEN pend[p] \cup {"INT"} ELSE pend[p]]
    /\ UNCHANGED <<file, wline, round, inited, mapped, closing, fmap, reader,
                   holder, overrun, fault>>
-----------------------------------------------------------------------------
(* The life of one Chromium process *)

\* Thread t of p runs ordinary code: no handler of its own, nothing above it.
Ordinary(p, t) == phase[p][t] = "idle" /\ closing[p][t] = "no"

\* experiment_init runs on Main, and only while no handler interrupts it.
Booting(p) == Ordinary(p, Main)

Crash(p, why) ==
    /\ pc' = [pc EXCEPT ![p] = "crashed"]
    /\ fault' = [fault EXCEPT ![p] = why]

\* The browser starts a child process.
Spawn(p) ==
    /\ pc[p] = "none"
    /\ p # Browser
    /\ pc[Browser] = "ready"
    /\ pc' = [pc EXCEPT ![p] = "exec"]
    /\ UNCHANGED <<control, pend, inited, mapped, closing, fmap, reader, holder,
                   overrun, fault>>

\* set_sigint_hndlr
InstallSigint(p) ==
    /\ pc[p] = "exec"
    /\ pc' = [pc EXCEPT ![p] = "sigint"]
    /\ UNCHANGED <<control, pend, inited, mapped, closing, fmap, reader, holder,
                   overrun, fault>>

\* set_sigcont_hndlr
InstallSigcont(p) ==
    /\ pc[p] = "sigint"
    /\ Booting(p)
    /\ pc' = [pc EXCEPT ![p] = "handlers"]
    /\ UNCHANGED <<control, pend, inited, mapped, closing, fmap, reader, holder,
                   overrun, fault>>

\* Faulty variant: initializedMmap is set although mmap failed.
OpenMmapUnchecked(p) ==
    /\ pc[p] = "handlers"
    /\ Booting(p)
    /\ pc' = [pc EXCEPT ![p] = "update"]
    /\ inited' = [inited EXCEPT ![p] = TRUE]
    /\ phase' = [phase EXCEPT ![p][Boot] = "clear"]
    /\ UNCHANGED <<control, pend, mapped, closing, fmap, pos, copy, todo, holder,
                   overrun, fault>>

\* ipc_open_mmap, and the call of ipc_update_funcmap without fmap_mut
OpenMmap(p) ==
    /\ pc[p] = "handlers"
    /\ Booting(p)
    /\ pc' = [pc EXCEPT ![p] = "update"]
    /\ inited' = [inited EXCEPT ![p] = TRUE]
    /\ mapped' = [mapped EXCEPT ![p] = TRUE]
    /\ phase' = [phase EXCEPT ![p][Boot] = "clear"]
    /\ UNCHANGED <<control, pend, closing, fmap, pos, copy, todo, holder,
                   overrun, fault>>

\* The rest of experiment_init: configuration, logger, did_start.
FinishInit(p) ==
    /\ pc[p] = "logging"
    /\ Booting(p)
    /\ pc' = [pc EXCEPT ![p] = "ready"]
    /\ UNCHANGED <<control, pend, inited, mapped, closing, fmap, reader, holder,
                   overrun, fault>>

\* A renderer ends (interposed exit); the browser ends only in Close.
Exit(p) ==
    /\ p # Browser
    /\ pc[p] = "ready"
    /\ pc' = [pc EXCEPT ![p] = "exited"]
    /\ UNCHANGED <<control, pend, inited, mapped, closing, fmap, reader, holder,
                   overrun, fault>>
-----------------------------------------------------------------------------
(* sigcont_handler and ipc_update_funcmap *)

\* The kernel may deliver to Main only until other threads exist.  A thread
\* inside the handler has SIGCONT blocked.
TakeSigcont(p, t) ==
    /\ pc[p] \in HandlesCont
    /\ t = Main \/ pc[p] = "ready"
    /\ "CONT" \in pend[p]
    /\ Ordinary(p, t)
    /\ pend' = [pend EXCEPT ![p] = @ \ {"CONT"}]
    /\ phase' = [phase EXCEPT ![p][t] = "lock"]
    /\ overrun' = [overrun EXCEPT ![p] = phase[p][Boot] \in {"copy", "insert"}]
    /\ UNCHANGED <<control, pc, inited, mapped, closing, fmap, pos, copy, todo,
                   holder, fault>>

\* Faulty variant: no lock_guard in sigcont_handler.
AcquireNoLock(p, t) ==
    /\ pc[p] \in Running
    /\ phase[p][t] = "lock"
    /\ closing[p][t] = "no"
    /\ holder' = [holder EXCEPT ![p] = t]
    /\ phase' = [phase EXCEPT ![p][t] = "clear"]
    /\ UNCHANGED <<control, pc, pend, inited, mapped, closing, fmap, pos, copy,
                   todo, overrun, fault>>

AcquireLock(p, t) ==
    /\ pc[p] \in Running
    /\ phase[p][t] = "lock"
    /\ closing[p][t] = "no"
    /\ holder[p] = Free
    /\ holder' = [holder EXCEPT ![p] = t]
    /\ phase' = [phase EXCEPT ![p][t] = "clear"]
    /\ UNCHANGED <<control, pc, pend, inited, mapped, closing, fmap, pos, copy,
                   todo, overrun, fault>>

\* Updater a of p is on top of its thread's stack.
OnTop(p, a) == /\ pc[p] \in Running
               /\ IF a = Boot THEN Booting(p) ELSE closing[p][a] = "no"

\* funcMap.clear()
ClearMap(p, a) ==
    /\ OnTop(p, a)
    /\ phase[p][a] = "clear"
    /\ fmap' = [fmap EXCEPT ![p] = [f \in Functions |-> Absent]]
    /\ phase' = [phase EXCEPT ![p][a] = "copy"]
    /\ UNCHANGED <<control, pc, pend, inited, mapped, closing, pos, copy, todo,
                   holder, overrun, fault>>

\* get_mmap_str: the assertion on initializedMmap, then the string is copied.
AssertMmap(p, a) ==
    /\ OnTop(p, a)
    /\ phase[p][a] = "copy"
    /\ pos[p][a] = 1
    /\ ~inited[p]
    /\ Crash(p, "read assert")
    /\ UNCHANGED <<control, pend, inited, mapped, closing, fmap, reader, holder,
                   overrun>>

ReadUnmapped(p, a) ==
    /\ OnTop(p, a)
    /\ phase[p][a] = "copy"
    /\ pos[p][a] \in Lines
    /\ pos[p][a] = 1 => inited[p]
    /\ ~mapped[p]
    /\ Crash(p, "segv")
    /\ UNCHANGED <<control, pend, inited, mapped, closing, fmap, reader, holder,
                   overrun>>

CopyLine(p, a) ==
    /\ OnTop(p, a)
    /\ phase[p][a] = "copy"
    /\ pos[p][a] \in Lines
    /\ pos[p][a] = 1 => inited[p]
    /\ mapped[p]
    /\ copy' = [copy EXCEPT ![p][a][pos[p][a]] = file[pos[p][a]]]
    /\ pos' = [pos EXCEPT ![p][a] = @ + 1]
    /\ UNCHANGED <<control, pc, pend, inited, mapped, closing, fmap, phase, todo,
                   holder, overrun, fault>>

\* tokenize, and the head of the loop over the sets.
EndCopy(p, a) ==
    /\ OnTop(p, a)
    /\ phase[p][a] = "copy"
    /\ pos[p][a] = 2 * NumSets + 1
    /\ phase' = [phase EXCEPT ![p][a] = "insert"]
    /\ todo' = [todo EXCEPT ![p][a] = Functions]
    /\ UNCHANGED <<control, pc, pend, inited, mapped, closing, fmap, pos, copy,
                   holder, overrun, fault>>

\* One assignment of the inner loop; the sets are taken in file order.
InsertFunction(p, a, f) ==
    /\ OnTop(p, a)
    /\ phase[p][a] = "insert"
    /\ f \in todo[p][a]
    /\ \A g \in todo[p][a] : SetOf[f] <= SetOf[g]
    /\ fmap' = [fmap EXCEPT ![p][f] =
                   <<copy[p][a][EntryLine(f)], copy[p][a][ExitLine(f)]>>]
    /\ todo' = [todo EXCEPT ![p][a] = @ \ {f}]
    /\ UNCHANGED <<control, pc, pend, inited, mapped, closing, phase, pos, copy,
                   holder, overrun, fault>>

\* Faulty variant: the mutex is locked without a guard and never unlocked.
FinishUpdateLocked(p, a) ==
    /\ OnTop(p, a)
    /\ phase[p][a] = "insert"
    /\ todo[p][a] = {}
    /\ phase' = [phase EXCEPT ![p][a] = "idle"]
    /\ pos' = [pos EXCEPT ![p][a] = 1]
    /\ copy' = [copy EXCEPT ![p][a] = Blank]
    /\ IF a = Boot THEN pc' = [pc EXCEPT ![p] = "logging"] ELSE UNCHANGED pc
    /\ UNCHANGED <<control, pend, inited, mapped, closing, fmap, todo, holder,
                   overrun, fault>>

\* The update returns: the lock_guard goes out of scope, or experiment_init goes on.
FinishUpdate(p, a) ==
    /\ OnTop(p, a)
    /\ phase[p][a] = "insert"
    /\ todo[p][a] = {}
    /\ phase' = [phase EXCEPT ![p][a] = "idle"]
    /\ pos' = [pos EXCEPT ![p][a] = 1]
    /\ copy' = [copy EXCEPT ![p][a] = Blank]
    /\ IF a = Boot
       THEN pc' = [pc EXCEPT ![p] = "logging"] /\ UNCHANGED holder
       ELSE holder' = [holder EXCEPT ![p] = Free] /\ UNCHANGED pc
    /\ UNCHANGED <<control, pend, inited, mapped, closing, fmap, todo, overrun, fault>>
-----------------------------------------------------------------------------
(* The hooks share fmap with the handler and do not take fmap_mut *)

\* fmap[func_name] of experiment_fentry or experiment_fexit: operator[] inserts
\* zero masks for a name that is not there.
Lookup(p, t, f) ==
    /\ pc[p] = "ready"
    /\ Ordinary(p, t)
    /\ fmap[p][f] = Absent
    /\ fmap' = [fmap EXCEPT ![p][f] = Zero]
    /\ UNCHANGED <<control, pc, pend, inited, mapped, closing, reader, holder,
                   overrun, fault>>

\* The handler restructures the std::map in the middle of a lookup (on another
\* thread, or the one it interrupted) or of an insertion by experiment_init.  That
\* is undefined: the process crashes, or goes on with a tree nothing can be said of,
\* and is not followed any further.
MapRace(p, t) ==
    /\ phase[p][t] \in {"clear", "insert"}
    /\ OnTop(p, t)
    /\ pc[p] = "ready" \/ phase[p][Boot] \in {"clear", "insert"}
    /\ Crash(p, "race")
    /\ UNCHANGED <<control, pend, inited, mapped, closing, fmap, reader, holder,
                   overrun>>
-----------------------------------------------------------------------------
(* sigint_handler: experiment_stop, then ipc_close_mmap *)

TakeSigint(p, t) ==
    /\ pc[p] \in HandlesInt
    /\ t = Main \/ pc[p] = "ready"
    /\ "INT" \in pend[p]
    /\ closing[p][t] = "no"
    /\ pend' = [pend EXCEPT ![p] = @ \ {"INT"}]
    /\ closing' = [closing EXCEPT ![p][t] = "check"]
    /\ UNCHANGED <<control, pc, inited, mapped, fmap, reader, holder, overrun, fault>>

\* assert(initializedMmap == true)
AssertClose(p, t) ==
    /\ pc[p] \in Running
    /\ closing[p][t] = "check"
    /\ ~inited[p]
    /\ Crash(p, "close assert")
    /\ UNCHANGED <<control, pend, inited, mapped, closing, fmap, reader, holder,
                   overrun>>

\* munmap; on a range another thread has unmapped it succeeds too.
Unmap(p, t) ==
    /\ pc[p] \in Running
    /\ closing[p][t] = "check"
    /\ inited[p]
    /\ mapped' = [mapped EXCEPT ![p] = FALSE]
    /\ closing' = [closing EXCEPT ![p][t] = "unmapped"]
    /\ UNCHANGED <<control, pc, pend, inited, fmap, reader, holder, overrun, fault>>

\* initializedMmap = false, and the handler returns.
FinishSigint(p, t) ==
    /\ pc[p] \in Running
    /\ closing[p][t] = "unmapped"
    /\ inited' = [inited EXCEPT ![p] = FALSE]
    /\ closing' = [closing EXCEPT ![p][t] = "no"]
    /\ UNCHANGED <<control, pc, pend, mapped, fmap, reader, holder, overrun, fault>>
-----------------------------------------------------------------------------
ControlStep == \/ Launch \/ Connect \/ ConnectFails \/ Signal
               \/ Load \/ LoadFails \/ BeginLine \/ EndLine \/ EndWrite
               \/ Close \/ Interrupt

\* One step of ipc_update_funcmap.
UpdateStep(p, a) == \/ ClearMap(p, a) \/ AssertMmap(p, a) \/ ReadUnmapped(p, a)
                    \/ CopyLine(p, a) \/ EndCopy(p, a) \/ FinishUpdate(p, a)
                    \/ \E f \in Functions : InsertFunction(p, a, f)

\* The steps of experiment_init.
BootStep(p) == \/ InstallSigint(p) \/ InstallSigcont(p) \/ OpenMmap(p)
               \/ UpdateStep(p, Boot) \/ FinishInit(p)

\* The steps of the signal handlers that run on thread t.
HandlerStep(p, t) == \/ AcquireLock(p, t) \/ UpdateStep(p, t)
                     \/ AssertClose(p, t) \/ Unmap(p, t) \/ FinishSigint(p, t)

Deliver(p) == \E t \in Threads : TakeSigcont(p, t) \/ TakeSigint(p, t)

HookStep(p) == \/ \E t \in Threads, f \in Functions : Lookup(p, t, f)
               \/ \E t \in Threads : MapRace(p, t)

ProcessStep(p) == \/ Spawn(p) \/ Exit(p) \/ BootStep(p) \/ Deliver(p) \/ HookStep(p)
                  \/ \E t \in Threads : HandlerStep(p, t)

\* Nothing is left to do: the script has ended and no process is in a handler.
Quiet(p) == /\ pc[p] \in {"none", "ready", "exited", "crashed"}
            /\ pc[p] = "ready" => /\ pend[p] = {}
                                  /\ \A t \in Threads : Ordinary(p, t)
Terminating ==
    /\ cpc \in {"done", "aborted"}
    /\ \A p \in Procs : Quiet(p)
    /\ UNCHANGED vars

Next == ControlStep \/ (\E p \in Procs : ProcessStep(p)) \/ Terminating

Spec == Init /\ [][Next]_vars

\* Signals are delivered, and a thread that can go on with experiment_init or
\* with a handler does.  Nothing is assumed of the script, the hooks or the user.
Fairness == \A p \in Procs :
               /\ WF_vars(BootStep(p))
               /\ WF_vars(Deliver(p))
               /\ \A t \in Threads : WF_vars(HandlerStep(p, t))

FairSpec == Spec /\ Fairness
-----------------------------------------------------------------------------
\* No update of p's map is under way and none is due.
Settled(p) == /\ pc[p] = "ready"
              /\ "CONT" \notin pend[p]
              /\ \A a \in Updaters : phase[p][a] = "idle"

\* Between the signal of a round and the next write, and after the last signal.
Announced == cpc \in {"connect", "load", "close", "done"}

Fresh(p) == \A f \in Functions : fmap[p][f] = <<2 * round, 2 * round>>

(* While no rewrite is under way, a process that owes no update has in its     *)
(* map, for every function, both masks of the last complete round: never a     *)
(* torn line, a mixture of rounds, zero masks or a hole.  This is what the     *)
(* clear-and-parse in sigcont_handler must achieve against the lookups that    *)
(* insert zero masks, handlers on two threads, coalesced signals and renderers *)
(* born at any moment.  A process whose experiment_init was overrun is left    *)
(* out here (see EverySignalRefreshes).                                        *)
NoStaleMap == Announced => \A p \in Procs : Settled(p) /\ ~overrun[p] => Fresh(p)

(* Without a Ctrl-C, the handler never reads an unmapped file, and the         *)
(* assertions of ipc.cc fail only in a process that has not opened it yet.     *)
UnmappedOnlyByCtrlC ==
    interrupts = 0 => \A p \in Procs :
        /\ fault[p] \notin {"segv", "close assert"}
        /\ fault[p] = "read assert" => ~mapped[p] /\ ~inited[p]

(* Every round that is announced to a process reaches all of its map: once     *)
(* SIGCONT is pending, each function eventually has masks at least as recent,  *)
(* unless the process ends first.                                              *)
Reached(p, r) == \A f \in Functions :
    /\ fmap[p][f] \notin {Absent, Zero}
    /\ fmap[p][f][1] >= 2 * r
    /\ fmap[p][f][2] >= 2 * r

EveryRoundArrives ==
    \A p \in Procs : \A r \in 0..Pages :
        ("CONT" \in pend[p] /\ round = r /\ cpc \in {"load", "close"})
            ~> (pc[p] \notin Running \/ Reached(p, r))
-----------------------------------------------------------------------------
(* What MaskRefresh promises to the measurements: the map a process uses is the *)
(* one it has when no update of it is due, and changes by announcement only.    *)
View(p) == IF Settled(p) /\ ~overrun[p] THEN fmap[p] ELSE Absent

Ended == {p \in Procs : pc[p] \in {"exited", "crashed"}}

Rounds == INSTANCE MaskRounds WITH Unsettled <- Absent,
                                   announced <- Announced,
                                   ended     <- Ended,
                                   masks     <- [p \in Procs |-> View(p)]

(* A process that has settled keeps its masks until the next announcement or    *)
(* its end, and has no zero masks and no hole among them, whatever lookups      *)
(* insert and however the file is rewritten meanwhile; after an announcement    *)
(* none settles with less than the whole round.                                 *)
ChangesByRounds == Rounds!Spec
-----------------------------------------------------------------------------
(* The inductive invariant behind NoStaleMap *)

\* randomizeMasks goes through the lines in order, and nothing else writes them.
FileInv ==
    cpc # "aborted" =>
        /\ cpc # "write" => wline = 1 /\ \A l \in Lines : file[l] = 2 * round
        /\ cpc = "write" => \A l \in Lines :
              /\ l < wline => file[l] = 2 * round + 2
              /\ l = wline => file[l] \in {2 * round, 2 * round + 1}
              /\ l > wline => file[l] = 2 * round

\* fmap_mut is held exactly between the clearing and the end of a handler.
LockInv ==
    \A p \in Procs : \A t \in Threads :
        holder[p] = t <=> phase[p][t] \in {"clear", "copy", "insert"}

\* Where an updater is in the file and in experiment_init.
PhaseInv ==
    \A p \in Procs :
        /\ phase[p][Boot] # "lock"
        /\ phase[p][Boot] # "idle" => pc[p] \in {"update", "exited", "crashed"}
        /\ cpc = "launch" => pc[p] = "none"
        /\ \A t \in Threads : phase[p][t] # "idle" =>
              /\ pc[p] \in HandlesCont \cup {"exited", "crashed"}
              /\ pc[p] \in {"handlers", "update", "logging"} => t = Main
        /\ \A a \in Updaters :
              /\ phase[p][a] \in {"idle", "lock", "clear"} => pos[p][a] = 1
              /\ phase[p][a] = "insert" => pos[p][a] = 2 * NumSets + 1

\* A handler that finds experiment_init reading has overrun it.
OverrunInv ==
    \A p \in Procs : \A t \in Threads :
        phase[p][t] # "idle" /\ phase[p][Boot] \in {"copy", "insert"} /\ pc[p] = "update"
            => overrun[p]

\* p will read the file again from its first line.
Rereads(p) == \/ "CONT" \in pend[p]
              \/ \E a \in Updaters : phase[p][a] \in {"lock", "clear"}

\* All that p has read since the last round was announced is of that round, and
\* what its map lacks is still to be inserted.
FreshInv(p) ==
    (/\ Announced
     /\ pc[p] \in {"update", "logging", "ready"}
     /\ ~overrun[p]
     /\ ~Rereads(p)) =>
        /\ \A a \in Updaters : phase[p][a] \in {"copy", "insert"} =>
              \A l \in Lines : l < pos[p][a] => copy[p][a][l] = 2 * round
        /\ \A f \in Functions :
              \/ fmap[p][f] = <<2 * round, 2 * round>>
              \/ \E a \in Updaters :
                    \/ phase[p][a] = "copy"
                    \/ (phase[p][a] = "insert" /\ f \in todo[p][a])

IInv == /\ TypeOK
        /\ FileInv
        /\ LockInv
        /\ PhaseInv
        /\ OverrunInv
        /\ \A p \in Procs : FreshInv(p)

(* The inductive invariant behind UnmappedOnlyByCtrlC: without a Ctrl-C no     *)
(* thread is in sigint_handler, a process has the file mapped exactly when     *)
(* initializedMmap says so, and keeps it once a reader is past its first line. *)
OpenInv ==
    interrupts = 0 => \A p \in Procs :
        /\ "INT" \notin pend[p]
        /\ \A t \in Threads : closing[p][t] = "no"
        /\ mapped[p] <=> inited[p]
        /\ \A a \in Updaters : pos[p][a] # 1 => mapped[p]
        /\ fault[p] \notin {"segv", "close assert"}
        /\ fault[p] = "read assert" => ~inited[p] /\ pc[p] = "crashed"

(* What ChangesByRounds needs beside IInv: a function without masks in the map  *)
(* of a process is one that some updater has still to insert.                   *)
CompleteInv ==
    \A p \in Procs : pc[p] \in {"update", "logging", "ready"} =>
        \A f \in Functions : fmap[p][f] \in {Absent, Zero} =>
            \E a \in Updaters : \/ phase[p][a] \in {"clear", "copy"}
                               \/ (phase[p][a] = "insert" /\ f \in todo[p][a])
-----------------------------------------------------------------------------
(* What the repository says and the code does not do *)

(* README of the framework: the file is read in whenever SIGCONT is received,  *)
(* so a process that has handled its signals has the masks of the last round.  *)
EverySignalRefreshes == Announced => \A p \in Procs : Settled(p) => Fresh(p)

(* ipc.cc, get_mmap_str: assert(initializedMmap == true && mmapData != nullptr). *)
ReadsOpenMmap == \A p \in Procs : fault[p] # "read assert"
=============================================================================
