------------------------- MODULE MaskRefreshProofs -------------------------
(***************************************************************************)
(* Proofs about MaskRefresh, for any processes, threads, functions, sets   *)
(* and number of pages.  The inductive invariant IInv and its parts are    *)
(* stated in MaskRefresh; every part has its own lemma for one step.       *)
(***************************************************************************)
EXTENDS MaskRefresh, TLAPS

USE MaskRefreshAssumption

\* Arithmetic of lines and positions.
LEMMA Ranges ==
  /\ 1 \in Positions
  /\ \A l \in Lines : l + 1 \in Positions
  /\ \A n \in Nat : n + 1 \in Nat
BY DEF Positions, Lines

\* The two mask lines of a function's set are lines of the file.
LEMMA LineRange ==
  ASSUME NEW f \in Functions
  PROVE  EntryLine(f) \in Lines /\ ExitLine(f) \in Lines
<1>1. SetOf[f] \in 1..NumSets
  OBVIOUS
<1> QED
  BY <1>1 DEF EntryLine, ExitLine, Lines

\* What the type invariant says of one updater.
LEMMA UpdaterTypes ==
  ASSUME TypeOK, NEW p \in Procs, NEW a \in Updaters
  PROVE  /\ copy[p][a] \in [Lines -> Nat]
         /\ todo[p][a] \in SUBSET Functions
         /\ pos[p][a] \in Positions
         /\ \A l \in Lines : file[l] \in Nat
<1>1. copy \in [Procs -> [Updaters -> [Lines -> Nat]]]
  BY DEF TypeOK
<1>2. todo \in [Procs -> [Updaters -> SUBSET Functions]]
  BY DEF TypeOK
<1>3. pos \in [Procs -> [Updaters -> Positions]]
  BY DEF TypeOK
<1>4. file \in [Lines -> Nat]
  BY DEF TypeOK
<1> QED
  BY <1>1, <1>2, <1>3, <1>4

\* The flag TakeSigcont sets is a Boolean.
LEMMA OverrunType ==
  ASSUME NEW p \in Procs, NEW b, overrun \in [Procs -> BOOLEAN],
         overrun' = [overrun EXCEPT ![p] = b \in {"copy", "insert"}]
  PROVE  overrun' \in [Procs -> BOOLEAN]
OBVIOUS

\* The type invariant is inductive on its own.
LEMMA TypeStep == TypeOK /\ [Next]_vars => TypeOK'
<1> SUFFICES ASSUME TypeOK, [Next]_vars PROVE TypeOK'
  OBVIOUS
<1> USE DEF TypeOK, control, reader, Updaters
<1>1. CASE Launch
  BY <1>1 DEF Launch, ControlStates, ProcStates, Running
<1>2. CASE Connect
  BY <1>2 DEF Connect, ControlStates, ProcStates, Running
<1>3. CASE ConnectFails
  BY <1>3 DEF ConnectFails, ControlStates, ProcStates, Running
<1>4. CASE Signal
  BY <1>4 DEF Signal, ControlStates, ProcStates, Running
<1>5. CASE Load
  BY <1>5 DEF Load, ControlStates, ProcStates, Running
<1>6. CASE LoadFails
  BY <1>6 DEF LoadFails, ControlStates, ProcStates, Running
<1>7. CASE BeginLine
  BY <1>7, Ranges DEF BeginLine
<1>8. CASE EndLine
  BY <1>8, Ranges DEF EndLine
<1>9. CASE EndWrite
  BY <1>9, Ranges DEF EndWrite, ControlStates
<1>10. CASE Close
  <2>1. /\ cpc' = "done"
        /\ \/ pc' = [pc EXCEPT ![Browser] = IF pc[Browser] \in Running THEN "exited"
                                                                     ELSE pc[Browser]]
           \/ pc' = pc
    BY <1>10 DEF Close
  <2>2. pc \in [Procs -> ProcStates] /\ "exited" \in ProcStates
    BY DEF ProcStates
  <2>3. pc' \in [Procs -> ProcStates]
    BY ONLY <2>1, <2>2, MaskRefreshAssumption
  <2> QED
    BY <1>10, <2>1, <2>3 DEF Close, ControlStates
<1>11. CASE Interrupt
  <2>1. cpc' \in ControlStates
    BY <1>11 DEF Interrupt, ControlStates
  <2>2. pend' \in [Procs -> SUBSET {"INT", "CONT"}]
    BY <1>11 DEF Interrupt
  <2>3. pc' \in [Procs -> ProcStates]
    BY <1>11 DEF Interrupt, ProcStates
  <2>4. interrupts' \in Nat
    BY <1>11, Ranges DEF Interrupt
  <2> QED
    BY <1>11, <2>1, <2>2, <2>3, <2>4 DEF Interrupt
<1>12. ASSUME NEW p \in Procs, Spawn(p) PROVE TypeOK'
  BY <1>12 DEF Spawn, ProcStates
<1>13. ASSUME NEW p \in Procs, InstallSigint(p) PROVE TypeOK'
  BY <1>13 DEF InstallSigint, ProcStates
<1>14. ASSUME NEW p \in Procs, InstallSigcont(p) PROVE TypeOK'
  BY <1>14 DEF InstallSigcont, ProcStates
<1>15. ASSUME NEW p \in Procs, OpenMmap(p) PROVE TypeOK'
  BY <1>15 DEF OpenMmap, ProcStates
<1>16. ASSUME NEW p \in Procs, FinishInit(p) PROVE TypeOK'
  BY <1>16 DEF FinishInit, ProcStates
<1>17. ASSUME NEW p \in Procs, Exit(p) PROVE TypeOK'
  BY <1>17 DEF Exit, ProcStates
<1>18. ASSUME NEW p \in Procs, NEW a \in Updaters, ClearMap(p, a) PROVE TypeOK'
  BY <1>18 DEF ClearMap, ProcStates, Crash, Blank, Pairs
<1>19. ASSUME NEW p \in Procs, NEW a \in Updaters, AssertMmap(p, a) PROVE TypeOK'
  BY <1>19 DEF AssertMmap, ProcStates, Crash, Blank, Pairs
<1>20. ASSUME NEW p \in Procs, NEW a \in Updaters, ReadUnmapped(p, a) PROVE TypeOK'
  BY <1>20 DEF ReadUnmapped, ProcStates, Crash, Blank, Pairs
<1>21. ASSUME NEW p \in Procs, NEW a \in Updaters, CopyLine(p, a) PROVE TypeOK'
  <2>1. copy[p][a] \in [Lines -> Nat] /\ file[pos[p][a]] \in Nat
    BY <1>21, UpdaterTypes DEF CopyLine
  <2>2. [copy[p][a] EXCEPT ![pos[p][a]] = file[pos[p][a]]] \in [Lines -> Nat]
    BY <2>1
  <2>3. copy' \in [Procs -> [Updaters -> [Lines -> Nat]]]
    BY <1>21, <2>2 DEF CopyLine
  <2>4. pos' \in [Procs -> [Updaters -> Positions]]
    BY <1>21, Ranges DEF CopyLine
  <2> QED
    BY <1>21, <2>3, <2>4 DEF CopyLine
<1>22. ASSUME NEW p \in Procs, NEW a \in Updaters, EndCopy(p, a) PROVE TypeOK'
  BY <1>22 DEF EndCopy, ProcStates, Crash, Blank, Pairs
<1>23. ASSUME NEW p \in Procs, NEW a \in Updaters, FinishUpdate(p, a) PROVE TypeOK'
  <2>1. Blank \in [Lines -> Nat]
    BY DEF Blank
  <2>2. /\ copy' \in [Procs -> [Updaters -> [Lines -> Nat]]]
        /\ pos' \in [Procs -> [Updaters -> Positions]]
    BY <1>23, <2>1, Ranges DEF FinishUpdate
  <2>3. pc' \in [Procs -> ProcStates] /\ holder' \in [Procs -> Threads \cup {Free}]
    BY <1>23 DEF FinishUpdate, ProcStates
  <2> QED
    BY <1>23, <2>2, <2>3 DEF FinishUpdate
<1>24. ASSUME NEW p \in Procs, NEW a \in Updaters, NEW f \in Functions, InsertFunction(p, a, f) PROVE TypeOK'
  <2>1. EntryLine(f) \in Lines /\ ExitLine(f) \in Lines
    BY LineRange
  <2>2. copy[p][a] \in [Lines -> Nat]
    BY UpdaterTypes
  <2>3. <<copy[p][a][EntryLine(f)], copy[p][a][ExitLine(f)]>> \in Pairs
    BY ONLY <2>1, <2>2 DEF Pairs
  <2>4. fmap' \in [Procs -> [Functions -> Pairs]]
    BY <1>24, <2>3 DEF InsertFunction
  <2>5. todo' \in [Procs -> [Updaters -> SUBSET Functions]]
    <3>1. todo[p][a] \ {f} \in SUBSET Functions
      BY UpdaterTypes
    <3> QED
      BY <1>24, <3>1 DEF InsertFunction
  <2> QED
    BY <1>24, <2>4, <2>5 DEF InsertFunction
<1>25. ASSUME NEW p \in Procs, NEW t \in Threads, TakeSigcont(p, t) PROVE TypeOK'
  <2>1. overrun' \in [Procs -> BOOLEAN]
    BY <1>25, OverrunType DEF TakeSigcont
  <2>2. phase' \in [Procs -> [Updaters -> {"idle", "lock", "clear", "copy", "insert"}]]
    BY <1>25 DEF TakeSigcont
  <2>3. pend' \in [Procs -> SUBSET {"INT", "CONT"}]
    BY <1>25 DEF TakeSigcont
  <2> QED
    BY <1>25, <2>1, <2>2, <2>3 DEF TakeSigcont
<1>26. ASSUME NEW p \in Procs, NEW t \in Threads, AcquireLock(p, t) PROVE TypeOK'
  BY <1>26 DEF AcquireLock, ProcStates, Crash
<1>27. ASSUME NEW p \in Procs, NEW t \in Threads, MapRace(p, t) PROVE TypeOK'
  BY <1>27 DEF MapRace, ProcStates, Crash
<1>28. ASSUME NEW p \in Procs, NEW t \in Threads, TakeSigint(p, t) PROVE TypeOK'
  BY <1>28 DEF TakeSigint, ProcStates, Crash
<1>29. ASSUME NEW p \in Procs, NEW t \in Threads, AssertClose(p, t) PROVE TypeOK'
  BY <1>29 DEF AssertClose, ProcStates, Crash
<1>30. ASSUME NEW p \in Procs, NEW t \in Threads, Unmap(p, t) PROVE TypeOK'
  BY <1>30 DEF Unmap, ProcStates, Crash
<1>31. ASSUME NEW p \in Procs, NEW t \in Threads, FinishSigint(p, t) PROVE TypeOK'
  BY <1>31 DEF FinishSigint, ProcStates, Crash
<1>32. ASSUME NEW p \in Procs, NEW t \in Threads, NEW f \in Functions, Lookup(p, t, f) PROVE TypeOK'
  BY <1>32 DEF Lookup, Pairs
<1>33. CASE Terminating
  BY <1>33 DEF Terminating, vars
<1>34. CASE UNCHANGED vars
  BY <1>34 DEF vars
<1>q. QED
  BY <1>1, <1>2, <1>3, <1>4, <1>5, <1>6, <1>7, <1>8, <1>9, <1>10, <1>11, <1>12, <1>13, <1>14, <1>15, <1>16, <1>17, <1>18, <1>19, <1>20, <1>21, <1>22, <1>23, <1>24, <1>25, <1>26, <1>27, <1>28, <1>29, <1>30, <1>31, <1>32, <1>33, <1>34
  DEF Next, ControlStep, ProcessStep, BootStep, UpdateStep, HandlerStep, Deliver, HookStep
-----------------------------------------------------------------------------
\* The components of TypeOK the other lemmas use.
LEMMA Types ==
  ASSUME TypeOK
  PROVE  /\ phase \in [Procs -> [Updaters -> {"idle", "lock", "clear", "copy", "insert"}]]
         /\ holder \in [Procs -> Threads \cup {Free}]
         /\ pc \in [Procs -> ProcStates]
         /\ pos \in [Procs -> [Updaters -> Positions]]
         /\ copy \in [Procs -> [Updaters -> [Lines -> Nat]]]
         /\ todo \in [Procs -> [Updaters -> SUBSET Functions]]
         /\ overrun \in [Procs -> BOOLEAN]
         /\ fmap \in [Procs -> [Functions -> Pairs]]
         /\ pend \in [Procs -> SUBSET {"INT", "CONT"}]
BY DEF TypeOK

\* The steps that move an updater or the mutex.
LEMMA PhaseSteps ==
  ASSUME [Next]_vars
  PROVE  \/ UNCHANGED <<phase, holder>>
         \/ \E p \in Procs : OpenMmap(p)
         \/ \E p \in Procs, t \in Threads : TakeSigcont(p, t) \/ AcquireLock(p, t)
         \/ \E p \in Procs, a \in Updaters :
               ClearMap(p, a) \/ EndCopy(p, a) \/ FinishUpdate(p, a)
<1>1. CASE ControlStep \/ Terminating \/ UNCHANGED vars
  BY <1>1 DEF ControlStep, Launch, Connect, ConnectFails, Signal, Load, LoadFails, BeginLine,
        EndLine, EndWrite, Close, Interrupt, Terminating, vars, reader
<1>2. ASSUME NEW p \in Procs, BootStep(p) \/ Spawn(p) \/ Exit(p)
      PROVE  \/ UNCHANGED <<phase, holder>>
             \/ OpenMmap(p)
             \/ \E a \in Updaters : ClearMap(p, a) \/ EndCopy(p, a) \/ FinishUpdate(p, a)
  BY <1>2 DEF BootStep, UpdateStep, Spawn, Exit, InstallSigint, InstallSigcont, FinishInit,
        AssertMmap, ReadUnmapped, CopyLine, InsertFunction, reader, Updaters
<1>3. ASSUME NEW p \in Procs, NEW t \in Threads, HandlerStep(p, t)
      PROVE  \/ UNCHANGED <<phase, holder>>
             \/ AcquireLock(p, t)
             \/ \E a \in Updaters : ClearMap(p, a) \/ EndCopy(p, a) \/ FinishUpdate(p, a)
  BY <1>3 DEF HandlerStep, UpdateStep, AssertMmap, ReadUnmapped, CopyLine, InsertFunction,
        AssertClose, Unmap, FinishSigint, reader, Updaters
<1>4. ASSUME NEW p \in Procs, Deliver(p) \/ HookStep(p)
      PROVE  UNCHANGED <<phase, holder>> \/ \E t \in Threads : TakeSigcont(p, t)
  BY <1>4 DEF Deliver, HookStep, TakeSigint, Lookup, MapRace, reader
<1> QED
  BY <1>1, <1>2, <1>3, <1>4 DEF Next, ProcessStep

\* The steps of the processes leave the script alone.
LEMMA ControlFrame ==
  ASSUME [Next]_vars
  PROVE  ControlStep \/ UNCHANGED control
<1>1. CASE Terminating \/ UNCHANGED vars
  BY <1>1 DEF Terminating, vars
<1>2. ASSUME NEW p \in Procs, BootStep(p) \/ Spawn(p) \/ Exit(p) PROVE UNCHANGED control
  BY <1>2 DEF BootStep, UpdateStep, Spawn, Exit, InstallSigint, InstallSigcont, OpenMmap,
        FinishInit, ClearMap, AssertMmap, ReadUnmapped, CopyLine, EndCopy, InsertFunction,
        FinishUpdate
<1>3. ASSUME NEW p \in Procs, NEW t \in Threads, HandlerStep(p, t) PROVE UNCHANGED control
  BY <1>3 DEF HandlerStep, UpdateStep, AcquireLock, ClearMap, AssertMmap, ReadUnmapped,
        CopyLine, EndCopy, InsertFunction, FinishUpdate, AssertClose, Unmap, FinishSigint
<1>4. ASSUME NEW p \in Procs, Deliver(p) \/ HookStep(p) PROVE UNCHANGED control
  BY <1>4 DEF Deliver, HookStep, TakeSigcont, TakeSigint, Lookup, MapRace
<1> QED
  BY <1>1, <1>2, <1>3, <1>4 DEF Next, ProcessStep

\* fmap_mut: a thread holds it exactly while it rebuilds the map in the handler.
LEMMA LockStep == TypeOK /\ LockInv /\ [Next]_vars => LockInv'
<1> SUFFICES ASSUME TypeOK, LockInv, [Next]_vars,
                    NEW q \in Procs, NEW u \in Threads
             PROVE  (holder'[q] = u) <=> (phase'[q][u] \in {"clear", "copy", "insert"})
  BY DEF LockInv
<1>1. /\ phase \in [Procs -> [Updaters -> {"idle", "lock", "clear", "copy", "insert"}]]
      /\ holder \in [Procs -> Threads \cup {Free}]
  BY Types
<1>2. \A p \in Procs, t \in Threads :
        (holder[p] = t) <=> (phase[p][t] \in {"clear", "copy", "insert"})
  BY DEF LockInv
<1>3. CASE UNCHANGED <<phase, holder>>
  BY <1>2, <1>3
<1>4. ASSUME NEW p \in Procs, OpenMmap(p) PROVE UNCHANGED holder /\ phase'[q][u] = phase[q][u]
  BY <1>1, <1>4 DEF OpenMmap, Updaters
<1>5. ASSUME NEW p \in Procs, NEW t \in Threads, TakeSigcont(p, t)
      PROVE  (holder'[q] = u) <=> (phase'[q][u] \in {"clear", "copy", "insert"})
  BY <1>1, <1>2, <1>5 DEF TakeSigcont, Ordinary, Updaters
<1>6. ASSUME NEW p \in Procs, NEW t \in Threads, AcquireLock(p, t)
      PROVE  (holder'[q] = u) <=> (phase'[q][u] \in {"clear", "copy", "insert"})
  BY <1>1, <1>2, <1>6 DEF AcquireLock, Updaters
<1>7. ASSUME NEW p \in Procs, NEW a \in Updaters, ClearMap(p, a) \/ EndCopy(p, a)
      PROVE  (holder'[q] = u) <=> (phase'[q][u] \in {"clear", "copy", "insert"})
  BY <1>1, <1>2, <1>7 DEF ClearMap, EndCopy, Updaters
<1>8. ASSUME NEW p \in Procs, NEW a \in Updaters, FinishUpdate(p, a)
      PROVE  (holder'[q] = u) <=> (phase'[q][u] \in {"clear", "copy", "insert"})
  BY <1>1, <1>2, <1>8 DEF FinishUpdate, Updaters
<1>9. \/ UNCHANGED <<phase, holder>>
      \/ \E p \in Procs : OpenMmap(p)
      \/ \E p \in Procs, t \in Threads : TakeSigcont(p, t) \/ AcquireLock(p, t)
      \/ \E p \in Procs, a \in Updaters :
            ClearMap(p, a) \/ EndCopy(p, a) \/ FinishUpdate(p, a)
  BY PhaseSteps
<1> QED
  BY <1>2, <1>3, <1>4, <1>5, <1>6, <1>7, <1>8, <1>9

\* Only randomizeMasks writes the file, and it completes every line of a round.
LEMMA FileStep == TypeOK /\ FileInv /\ [Next]_vars => FileInv'
<1> SUFFICES ASSUME TypeOK, FileInv, [Next]_vars PROVE FileInv'
  OBVIOUS
<1>1. /\ file \in [Lines -> Nat]
      /\ wline \in Positions
      /\ round \in Nat
  BY DEF TypeOK
<1>2. CASE UNCHANGED <<file, cpc, wline, round>>
  BY <1>2 DEF FileInv
<1>3. CASE Launch \/ Connect \/ ConnectFails \/ Signal \/ Load \/ LoadFails \/ Close \/ Interrupt
  BY <1>1, <1>3 DEF FileInv, Launch, Connect, ConnectFails, Signal, Load, LoadFails, Close,
        Interrupt, Lines
<1>4. CASE BeginLine
  BY SMTT(30), <1>1, <1>4 DEF FileInv, BeginLine, Lines
<1>5. CASE EndLine
  BY <1>1, <1>5 DEF FileInv, EndLine, Lines
<1>6. CASE EndWrite
  BY <1>1, <1>6 DEF FileInv, EndWrite, Lines
<1>7. ControlStep \/ UNCHANGED <<file, cpc, wline, round>>
  BY ControlFrame DEF control
<1> QED
  BY <1>2, <1>3, <1>4, <1>5, <1>6, <1>7 DEF ControlStep

\* Where updaters are.
LEMMA PhaseStep == TypeOK /\ PhaseInv /\ [Next]_vars => PhaseInv'
<1> SUFFICES ASSUME TypeOK, PhaseInv, [Next]_vars PROVE PhaseInv'
  OBVIOUS
<1>1. /\ phase \in [Procs -> [Updaters -> {"idle", "lock", "clear", "copy", "insert"}]]
      /\ pc \in [Procs -> ProcStates]
      /\ pos \in [Procs -> [Updaters -> Positions]]
  BY Types
<1> USE <1>1 DEF PhaseInv, HandlesCont, Running, Updaters
<1>2. CASE UNCHANGED <<phase, pc, pos, cpc>>
  BY <1>2
<1>3. CASE ControlStep
  BY <1>3 DEF ControlStep, Launch, Connect, ConnectFails, Signal, Load, LoadFails, BeginLine,
        EndLine, EndWrite, Close, Interrupt, reader
<1>4. ASSUME NEW p \in Procs, Spawn(p) PROVE PhaseInv'
  BY <1>4 DEF Spawn, control, reader, Crash, OnTop, Booting, Ordinary
<1>5. ASSUME NEW p \in Procs, InstallSigint(p) PROVE PhaseInv'
  BY <1>5 DEF InstallSigint, control, reader, Crash, OnTop, Booting, Ordinary
<1>6. ASSUME NEW p \in Procs, InstallSigcont(p) PROVE PhaseInv'
  BY <1>6 DEF InstallSigcont, control, reader, Crash, OnTop, Booting, Ordinary
<1>7. ASSUME NEW p \in Procs, OpenMmap(p) PROVE PhaseInv'
  BY <1>7 DEF OpenMmap, control, reader, Crash, OnTop, Booting, Ordinary
<1>8. ASSUME NEW p \in Procs, FinishInit(p) PROVE PhaseInv'
  BY <1>8 DEF FinishInit, control, reader, Crash, OnTop, Booting, Ordinary
<1>9. ASSUME NEW p \in Procs, Exit(p) PROVE PhaseInv'
  BY <1>9 DEF Exit, control, reader, Crash, OnTop, Booting, Ordinary
<1>10. ASSUME NEW p \in Procs, NEW a \in Updaters, ClearMap(p, a) PROVE PhaseInv'
  BY <1>10 DEF ClearMap, control, reader, Crash, OnTop, Booting, Ordinary
<1>11. ASSUME NEW p \in Procs, NEW a \in Updaters, AssertMmap(p, a) PROVE PhaseInv'
  BY ZenonT(30), <1>11 DEF AssertMmap, control, reader, Crash, OnTop, Booting, Ordinary
<1>12. ASSUME NEW p \in Procs, NEW a \in Updaters, ReadUnmapped(p, a) PROVE PhaseInv'
  BY <1>12 DEF ReadUnmapped, control, reader, Crash, OnTop, Booting, Ordinary
<1>13. ASSUME NEW p \in Procs, NEW a \in Updaters, CopyLine(p, a) PROVE PhaseInv'
  BY <1>13 DEF CopyLine, control, reader, Crash, OnTop, Booting, Ordinary
<1>14. ASSUME NEW p \in Procs, NEW a \in Updaters, EndCopy(p, a) PROVE PhaseInv'
  BY <1>14 DEF EndCopy, control, reader, Crash, OnTop, Booting, Ordinary
<1>15. ASSUME NEW p \in Procs, NEW a \in Updaters, FinishUpdate(p, a) PROVE PhaseInv'
  BY <1>15 DEF FinishUpdate, control, reader, Crash, OnTop, Booting, Ordinary
<1>16. ASSUME NEW p \in Procs, NEW t \in Threads, TakeSigcont(p, t) PROVE PhaseInv'
  BY <1>16 DEF TakeSigcont, control, reader, Crash, OnTop, Booting, Ordinary
<1>17. ASSUME NEW p \in Procs, NEW t \in Threads, AcquireLock(p, t) PROVE PhaseInv'
  BY <1>17 DEF AcquireLock, control, reader, Crash, OnTop, Booting, Ordinary
<1>18. ASSUME NEW p \in Procs, NEW t \in Threads, MapRace(p, t) PROVE PhaseInv'
  BY <1>18 DEF MapRace, control, reader, Crash, OnTop, Booting, Ordinary
<1>19. ASSUME NEW p \in Procs, NEW t \in Threads, AssertClose(p, t) PROVE PhaseInv'
  BY ZenonT(30), <1>19 DEF AssertClose, control, reader, Crash, OnTop, Booting, Ordinary
<1>20. ASSUME NEW p \in Procs, NEW a \in Updaters, NEW f \in Functions, InsertFunction(p, a, f)
      PROVE  PhaseInv'
  BY <1>20 DEF InsertFunction, control
<1>21. ASSUME NEW p \in Procs, NEW t \in Threads,
             \/ TakeSigint(p, t) \/ Unmap(p, t) \/ FinishSigint(p, t)
             \/ \E f \in Functions : Lookup(p, t, f)
      PROVE  PhaseInv'
  BY <1>21 DEF TakeSigint, Unmap, FinishSigint, Lookup, control, reader
<1>22. CASE Terminating \/ UNCHANGED vars
  BY <1>2, <1>22 DEF Terminating, vars, control, reader
<1> HIDE DEF PhaseInv, HandlesCont, Running, Updaters
<1>23. ASSUME NEW p \in Procs, NEW a \in Updaters, UpdateStep(p, a) PROVE PhaseInv'
  BY <1>23, <1>10, <1>11, <1>12, <1>13, <1>14, <1>15, <1>20 DEF UpdateStep
<1> QED
  BY <1>3, <1>4, <1>5, <1>6, <1>7, <1>8, <1>9, <1>16, <1>17, <1>18, <1>19, <1>21, <1>22, <1>23
  DEF Next, ProcessStep, BootStep, HandlerStep, Deliver, HookStep, Updaters

\* A process begins its own update only in OpenMmap, and is overrun only in TakeSigcont.
LEMMA BootFrame ==
  ASSUME TypeOK, [Next]_vars, NEW q \in Procs
  PROVE  /\ pc'[q] = "update" => pc[q] = "update" \/ OpenMmap(q)
         /\ overrun' = overrun \/ \E p \in Procs, t \in Threads : TakeSigcont(p, t)
<1>1. pc \in [Procs -> ProcStates]
  BY Types
<1> DEFINE Goal == /\ pc'[q] = "update" => pc[q] = "update" \/ OpenMmap(q)
                   /\ overrun' = overrun \/ \E p \in Procs, t \in Threads : TakeSigcont(p, t)
<1>2. CASE ControlStep \/ Terminating \/ UNCHANGED vars
  BY <1>1, <1>2 DEF ControlStep, Launch, Connect, ConnectFails, Signal, Load, LoadFails,
        BeginLine, EndLine, EndWrite, Close, Interrupt, Terminating, vars, reader
<1>3. ASSUME NEW p \in Procs, NEW a \in Updaters, UpdateStep(p, a) PROVE Goal
  BY <1>1, <1>3 DEF UpdateStep, ClearMap, AssertMmap, ReadUnmapped, CopyLine, EndCopy,
        InsertFunction, FinishUpdate, Crash
<1>4. ASSUME NEW p \in Procs, BootStep(p) \/ Spawn(p) \/ Exit(p) PROVE Goal
  BY <1>1, <1>3, <1>4 DEF BootStep, Spawn, Exit, InstallSigint, InstallSigcont, OpenMmap,
        FinishInit, Updaters
<1>5. ASSUME NEW p \in Procs, NEW t \in Threads, HandlerStep(p, t) PROVE Goal
  BY <1>1, <1>3, <1>5 DEF HandlerStep, AcquireLock, AssertClose, Unmap, FinishSigint, Crash,
        Updaters
<1>6. ASSUME NEW p \in Procs, Deliver(p) \/ HookStep(p) PROVE Goal
  BY <1>1, <1>6 DEF Deliver, HookStep, TakeSigcont, TakeSigint, Lookup, MapRace, Crash
<1> QED
  BY <1>2, <1>4, <1>5, <1>6 DEF Next, ProcessStep

\* A handler and experiment_init rebuild the map at once only in an overrun process.
LEMMA OverrunStep == TypeOK /\ PhaseInv /\ OverrunInv /\ [Next]_vars => OverrunInv'
<1> SUFFICES ASSUME TypeOK, PhaseInv, OverrunInv, [Next]_vars, NEW q \in Procs, NEW u \in Threads,
                    phase'[q][u] # "idle", phase'[q][Boot] \in {"copy", "insert"},
                    pc'[q] = "update"
             PROVE  overrun'[q]
  BY DEF OverrunInv
<1>1. /\ phase \in [Procs -> [Updaters -> {"idle", "lock", "clear", "copy", "insert"}]]
      /\ overrun \in [Procs -> BOOLEAN]
      /\ Boot \in Updaters /\ u \in Updaters
  BY Types DEF Updaters
<1>2. ~OpenMmap(q)
  BY <1>1 DEF OpenMmap
<1>3. pc[q] = "update"
  BY <1>2, BootFrame
<1>4. ASSUME NEW p \in Procs, NEW t \in Threads, TakeSigcont(p, t) PROVE overrun'[q]
  BY <1>1, <1>3, <1>4 DEF TakeSigcont, OverrunInv, Updaters
<1>5. CASE overrun' = overrun /\ phase[q][u] # "idle"
  <2>1. CASE phase[q][Boot] \in {"copy", "insert"}
    BY <1>3, <1>5, <2>1 DEF OverrunInv
  <2>2. CASE phase[q][Boot] \notin {"copy", "insert"}
    <3>1. ClearMap(q, Boot)
      BY <1>1, <2>2, PhaseSteps
      DEF OpenMmap, TakeSigcont, AcquireLock, ClearMap, EndCopy, FinishUpdate, Updaters
    <3>2. phase[q][Main] = "idle" /\ u = Main
      BY <1>3, <1>5, <3>1 DEF ClearMap, OnTop, Booting, Ordinary, PhaseInv
    <3> QED
      BY <1>5, <3>2
  <2> QED
    BY <2>1, <2>2
<1>6. CASE overrun' = overrun /\ phase[q][u] = "idle"
  BY <1>1, <1>4, <1>6, PhaseSteps
  DEF OpenMmap, AcquireLock, ClearMap, EndCopy, FinishUpdate, Updaters
<1> QED
  BY <1>4, <1>5, <1>6, BootFrame

\* What FreshInv says about q depends on these parts of the state only.
Local(q) == <<pc[q], pend[q], overrun[q], phase[q], pos[q], copy[q], todo[q], fmap[q]>>

\* A step of another process does not touch them.
LEMMA Locality ==
  ASSUME TypeOK, NEW p \in Procs, NEW q \in Procs, p # q, ProcessStep(p)
  PROVE  UNCHANGED Local(q)
<1> USE Types DEF Local, reader, Crash
<1>1. ASSUME NEW a \in Updaters, UpdateStep(p, a) PROVE UNCHANGED Local(q)
  BY ZenonT(30), <1>1 DEF UpdateStep, ClearMap, AssertMmap, ReadUnmapped, CopyLine, EndCopy,
        InsertFunction, FinishUpdate
<1>2. CASE BootStep(p) \/ Spawn(p) \/ Exit(p)
  BY <1>1, <1>2 DEF BootStep, Spawn, Exit, InstallSigint, InstallSigcont, OpenMmap,
        FinishInit, Updaters
<1>3. ASSUME NEW t \in Threads, HandlerStep(p, t) PROVE UNCHANGED Local(q)
  BY <1>1, <1>3 DEF HandlerStep, AcquireLock, AssertClose, Unmap, FinishSigint, Updaters
<1>4. CASE Deliver(p) \/ HookStep(p)
  BY <1>4 DEF Deliver, HookStep, TakeSigcont, TakeSigint, Lookup, MapRace
<1> QED
  BY <1>2, <1>3, <1>4 DEF ProcessStep

\* A step of the script, or of q with no effect on its map, keeps FreshInv(q).
LEMMA FreshFrame ==
  ASSUME TypeOK, NEW q \in Procs, FreshInv(q), UNCHANGED Local(q), round' = round,
         Announced' => Announced
  PROVE  FreshInv(q)'
BY DEF FreshInv, Announced, Rereads, Local

\* The script announces a round only by making every process read again.
LEMMA FreshControl ==
  ASSUME TypeOK, PhaseInv, NEW q \in Procs, FreshInv(q), ControlStep
  PROVE  FreshInv(q)'
<1>1. pc \in [Procs -> ProcStates]
  BY Types
<1>2. CASE Connect \/ ConnectFails \/ Load \/ LoadFails \/ BeginLine \/ EndLine \/ EndWrite
  <2>1. UNCHANGED Local(q)
    BY <1>2 DEF Connect, ConnectFails, Load, LoadFails, BeginLine, EndLine, EndWrite, Local, reader
  <2>2. Announced' => Announced /\ round' = round
    BY <1>2 DEF Connect, ConnectFails, Load, LoadFails, BeginLine, EndLine, EndWrite, Announced
  <2>3. CASE ~Announced'
    BY <2>3 DEF FreshInv
  <2> QED
    BY <2>1, <2>2, <2>3, FreshFrame
<1>3. CASE Launch
  BY <1>1, <1>3 DEF Launch, FreshInv, PhaseInv
<1>4. CASE Signal
  BY <1>1, <1>4 DEF Signal, FreshInv, Rereads, HandlesCont
<1>5. CASE Close
  BY <1>1, <1>5 DEF Close, FreshInv, Announced, Rereads, reader
<1>6. CASE Interrupt
  BY <1>1, <1>6 DEF Interrupt, FreshInv, Announced, Rereads, reader
<1> QED
  BY <1>2, <1>3, <1>4, <1>5, <1>6 DEF ControlStep

\* An update of q's map keeps what q has read, and what is left to insert, in step
\* with the announced round.
LEMMA FreshUpdate ==
  ASSUME TypeOK, FileInv, LockInv, PhaseInv, OverrunInv,
         NEW q \in Procs, FreshInv(q), NEW a \in Updaters, UpdateStep(q, a)
  PROVE  FreshInv(q)'
<1>1. /\ phase \in [Procs -> [Updaters -> {"idle", "lock", "clear", "copy", "insert"}]]
      /\ pc \in [Procs -> ProcStates]
      /\ pos \in [Procs -> [Updaters -> Positions]]
      /\ copy \in [Procs -> [Updaters -> [Lines -> Nat]]]
      /\ todo \in [Procs -> [Updaters -> SUBSET Functions]]
      /\ fmap \in [Procs -> [Functions -> Pairs]]
  BY Types
<1>2. UNCHANGED <<file, cpc, round, pend, overrun>> /\ Announced' = Announced
  BY DEF UpdateStep, ClearMap, AssertMmap, ReadUnmapped, CopyLine, EndCopy, InsertFunction,
     FinishUpdate, control, Announced
<1>3. SUFFICES ASSUME Announced, pc'[q] \in {"update", "logging", "ready"}, ~overrun[q],
                      ~Rereads(q)'
               PROVE  /\ \A b \in Updaters : phase'[q][b] \in {"copy", "insert"} =>
                            \A l \in Lines : l < pos'[q][b] => copy'[q][b][l] = 2 * round
                      /\ \A f \in Functions :
                            \/ fmap'[q][f] = <<2 * round, 2 * round>>
                            \/ \E b \in Updaters :
                                  \/ phase'[q][b] = "copy"
                                  \/ (phase'[q][b] = "insert" /\ f \in todo'[q][b])
  BY <1>2 DEF FreshInv
<1>4. pc[q] \in {"update", "logging", "ready"}
  <2>1. CASE FinishUpdate(q, a)
    BY <1>1, <1>3, <2>1 DEF FinishUpdate, OnTop, Running, PhaseInv, Updaters
  <2>2. CASE ~FinishUpdate(q, a)
    BY <1>1, <1>3, <2>2 DEF UpdateStep, ClearMap, AssertMmap, ReadUnmapped, CopyLine, EndCopy,
          InsertFunction, Crash
  <2> QED
    BY <2>1, <2>2
<1>5. CASE ClearMap(q, a)
  <2>1. \A b \in Updaters \ {a} : phase[q][b] \notin {"copy", "insert"}
    <3>1. CASE a = Boot
      BY <1>1, <1>5, <3>1 DEF ClearMap, OnTop, Booting, Ordinary, PhaseInv, Updaters, Running
    <3>2. CASE a \in Threads
      <4>1. ~(phase[q][Boot] \in {"copy", "insert"})
        BY <1>3, <1>5, <3>2 DEF ClearMap, OverrunInv, PhaseInv
      <4> QED
        BY <1>5, <3>2, <4>1 DEF ClearMap, LockInv, Updaters
    <3> QED
      BY <3>1, <3>2 DEF Updaters
  <2>2. pos[q][a] = 1
    BY <1>5 DEF ClearMap, PhaseInv
  <2>3. \A l \in Lines : ~(l < pos[q][a])
    BY <2>2 DEF Lines
  <2>4. phase'[q][a] = "copy" /\ UNCHANGED <<pos, copy>>
    BY <1>1, <1>5 DEF ClearMap
  <2>5. \A b \in Updaters \ {a} : phase'[q][b] = phase[q][b]
    BY <1>1, <1>5 DEF ClearMap
  <2> QED
    BY <2>1, <2>3, <2>4, <2>5
<1>6. ASSUME ~Rereads(q), ~ClearMap(q, a)
      PROVE  /\ \A b \in Updaters : phase[q][b] \in {"copy", "insert"} =>
                   \A l \in Lines : l < pos[q][b] => copy[q][b][l] = 2 * round
             /\ \A f \in Functions :
                   \/ fmap[q][f] = <<2 * round, 2 * round>>
                   \/ \E b \in Updaters :
                         \/ phase[q][b] = "copy"
                         \/ (phase[q][b] = "insert" /\ f \in todo[q][b])
  BY <1>3, <1>4, <1>6 DEF FreshInv
<1>7. CASE AssertMmap(q, a) \/ ReadUnmapped(q, a)
  BY <1>1, <1>3, <1>7 DEF AssertMmap, ReadUnmapped, Crash
<1>8. CASE CopyLine(q, a)
  <2>1. ~Rereads(q)
    BY <1>1, <1>2, <1>3, <1>8 DEF CopyLine, Rereads
  <2>2. file[pos[q][a]] = 2 * round
    BY <1>3, <1>8 DEF CopyLine, FileInv, Announced
  <2>3. UNCHANGED <<phase, todo, fmap>> /\ phase[q][a] = "copy" /\ ~ClearMap(q, a)
    BY <1>8 DEF CopyLine, ClearMap
  <2>4. \A b \in Updaters \ {a} : pos'[q][b] = pos[q][b] /\ copy'[q][b] = copy[q][b]
    BY <1>1, <1>8 DEF CopyLine
  <2>5. /\ pos'[q][a] = pos[q][a] + 1
        /\ copy'[q][a] = [copy[q][a] EXCEPT ![pos[q][a]] = file[pos[q][a]]]
        /\ pos[q][a] \in Lines
        /\ copy[q][a] \in [Lines -> Nat]
    BY <1>1, <1>8 DEF CopyLine
  <2>6. \A l \in Lines : l < pos[q][a] + 1 => l < pos[q][a] \/ l = pos[q][a]
    BY <2>5 DEF Lines
  <2>7. \A l \in Lines : l < pos'[q][a] => copy'[q][a][l] = 2 * round
    BY <1>6, <2>1, <2>2, <2>3, <2>5, <2>6
  <2> QED
    BY <1>6, <2>1, <2>3, <2>4, <2>7
<1>9. CASE EndCopy(q, a)
  <2>1. ~Rereads(q)
    BY <1>1, <1>2, <1>3, <1>9 DEF EndCopy, Rereads
  <2> QED
    BY <1>1, <1>6, <1>9, <2>1 DEF EndCopy, ClearMap
<1>10. ASSUME NEW f \in Functions, InsertFunction(q, a, f)
       PROVE  FreshInv(q)'
  <2>1. ~Rereads(q)
    BY <1>1, <1>2, <1>3, <1>10 DEF InsertFunction, Rereads
  <2>2. EntryLine(f) \in Lines /\ ExitLine(f) \in Lines
    BY LineRange
  <2>3. pos[q][a] = 2 * NumSets + 1
    BY <1>10 DEF InsertFunction, PhaseInv
  <2>4. \A l \in Lines : l < pos[q][a]
    BY <2>3 DEF Lines
  <2>5. fmap'[q][f] = <<2 * round, 2 * round>>
    BY <1>1, <1>6, <1>10, <2>1, <2>2, <2>4 DEF InsertFunction, ClearMap
  <2> QED
    BY <1>1, <1>2, <1>6, <1>10, <2>1, <2>5 DEF InsertFunction, ClearMap, FreshInv
<1>11. CASE FinishUpdate(q, a)
  <2>1. ~Rereads(q)
    BY <1>1, <1>2, <1>3, <1>11 DEF FinishUpdate, Rereads
  <2> QED
    BY <1>1, <1>6, <1>11, <2>1 DEF FinishUpdate, ClearMap
<1> QED
  <2>1. CASE \E f \in Functions : InsertFunction(q, a, f)
    BY <1>2, <1>3, <1>10, <2>1 DEF FreshInv
  <2> QED
    BY <1>5, <1>7, <1>8, <1>9, <1>11, <2>1 DEF UpdateStep

\* The other steps of q: they end it, make it read again, or insert zero masks for
\* a function that is still to be inserted.
LEMMA FreshProcess ==
  ASSUME TypeOK, FileInv, LockInv, PhaseInv, OverrunInv,
         NEW q \in Procs, FreshInv(q), ProcessStep(q)
  PROVE  FreshInv(q)'
<1>1. /\ phase \in [Procs -> [Updaters -> {"idle", "lock", "clear", "copy", "insert"}]]
      /\ pc \in [Procs -> ProcStates]
      /\ fmap \in [Procs -> [Functions -> Pairs]]
      /\ pend \in [Procs -> SUBSET {"INT", "CONT"}]
      /\ round \in Nat
  BY Types DEF TypeOK
<1>2. CASE Spawn(q) \/ Exit(q) \/ InstallSigint(q) \/ InstallSigcont(q)
  BY <1>1, <1>2 DEF Spawn, Exit, InstallSigint, InstallSigcont, FreshInv
<1>3. CASE FinishInit(q)
  BY <1>1, <1>3 DEF FinishInit, control, reader, FreshInv, Announced, Rereads
<1>4. CASE OpenMmap(q)
  BY <1>1, <1>4 DEF OpenMmap, FreshInv, Rereads, Updaters
<1>5. ASSUME NEW a \in Updaters, UpdateStep(q, a) PROVE FreshInv(q)'
  BY <1>5, FreshUpdate
<1>6. ASSUME NEW t \in Threads, TakeSigcont(q, t) \/ AcquireLock(q, t) PROVE FreshInv(q)'
  BY <1>1, <1>6 DEF TakeSigcont, AcquireLock, FreshInv, Rereads, Updaters
<1>7. ASSUME NEW t \in Threads, TakeSigint(q, t) \/ Unmap(q, t) \/ FinishSigint(q, t)
      PROVE  FreshInv(q)'
  BY SMTT(30), <1>1, <1>7 DEF TakeSigint, Unmap, FinishSigint, control, reader, FreshInv, Announced, Rereads
<1>8. ASSUME NEW t \in Threads, AssertClose(q, t) \/ MapRace(q, t) PROVE FreshInv(q)'
  BY <1>1, <1>8 DEF AssertClose, MapRace, Crash, FreshInv
<1>9. ASSUME NEW t \in Threads, NEW f \in Functions, Lookup(q, t, f) PROVE FreshInv(q)'
  <2>1. fmap[q][f] # <<2 * round, 2 * round>>
    <3>1. 2 * round \in Nat
      BY <1>1
    <3>2. <<2 * round, 2 * round>> \in Nat \X Nat
      BY <3>1
    <3> QED
      BY <1>9, <3>2 DEF Lookup
  <2>2. /\ \A g \in Functions \ {f} : fmap'[q][g] = fmap[q][g]
        /\ UNCHANGED <<control, pc, pend, reader, overrun>>
    BY <1>1, <1>9 DEF Lookup
  <2> QED
    BY <2>1, <2>2 DEF FreshInv, Announced, Rereads, control, reader
<1> QED
  BY <1>2, <1>3, <1>4, <1>5, <1>6, <1>7, <1>8, <1>9
  DEF ProcessStep, BootStep, HandlerStep, Deliver, HookStep, Updaters
-----------------------------------------------------------------------------
\* The initial states satisfy the invariant.
LEMMA InitInv == Init => IInv
<1> SUFFICES ASSUME Init PROVE IInv
  OBVIOUS
<1> USE DEF Init
<1>1. Blank \in [Lines -> Nat]
  BY DEF Blank
<1>2. TypeOK
  BY <1>1, Ranges DEF TypeOK, ControlStates, ProcStates, Pairs, Updaters
<1>3. FileInv
  BY DEF FileInv, Blank
<1>4. LockInv
  BY DEF LockInv, Updaters
<1>5. PhaseInv /\ OverrunInv
  BY DEF PhaseInv, OverrunInv, Updaters
<1>6. \A p \in Procs : FreshInv(p)
  BY DEF FreshInv
<1> QED
  BY <1>2, <1>3, <1>4, <1>5, <1>6 DEF IInv

\* Every step preserves it.
LEMMA StepInv == IInv /\ [Next]_vars => IInv'
<1> SUFFICES ASSUME IInv, [Next]_vars PROVE IInv'
  OBVIOUS
<1> USE DEF IInv
<1>1. TypeOK' /\ FileInv' /\ LockInv' /\ PhaseInv' /\ OverrunInv'
  BY TypeStep, FileStep, LockStep, PhaseStep, OverrunStep
<1>2. ASSUME NEW q \in Procs PROVE FreshInv(q)'
  <2>1. CASE ControlStep
    BY <2>1, FreshControl
  <2>2. ASSUME NEW p \in Procs, ProcessStep(p) PROVE FreshInv(q)'
    <3>1. CASE p = q
      BY <2>2, <3>1, FreshProcess
    <3>2. CASE p # q
      <4>1. UNCHANGED Local(q)
        BY <2>2, <3>2, Locality
      <4>2. CASE UNCHANGED control
        BY <4>1, <4>2, FreshFrame DEF control, Announced
      <4>3. CASE ControlStep
        BY <4>3, FreshControl
      <4> QED
        BY <4>2, <4>3, ControlFrame
    <3> QED
      BY <3>1, <3>2
  <2>3. CASE Terminating \/ UNCHANGED vars
    <3>1. UNCHANGED Local(q) /\ round' = round /\ Announced' = Announced
      BY <2>3 DEF Terminating, vars, control, reader, Local, Announced
    <3> QED
      BY <3>1, FreshFrame
  <2> QED
    BY <2>1, <2>2, <2>3 DEF Next
<1> QED
  BY <1>1, <1>2

\* The invariant says that a settled process is up to date.
LEMMA InvImplies == IInv => NoStaleMap
<1> SUFFICES ASSUME IInv, Announced, NEW p \in Procs, Settled(p), ~overrun[p],
                    NEW f \in Functions
             PROVE  fmap[p][f] = <<2 * round, 2 * round>>
  BY DEF NoStaleMap, Fresh
<1>1. ~Rereads(p)
  BY DEF Settled, Rereads
<1> QED
  BY <1>1 DEF IInv, FreshInv, Settled

\* The inductive invariant holds in every reachable state.
THEOREM Inductive == Spec => []IInv
BY InitInv, StepInv, PTL DEF Spec

\* In every reachable state the variables have their types.
THEOREM TypeCorrect == Spec => []TypeOK
<1>1. IInv => TypeOK
  BY DEF IInv
<1> QED
  BY <1>1, Inductive, PTL

\* ipc.cc and sigcont_handler, any number of processes, threads, functions and pages:
\* once a round of masks is announced and a process has handled its signals, its map
\* holds that round's masks for every function, unless its experiment_init was overrun.
THEOREM MapsFollowTheFile == Spec => []NoStaleMap
BY Inductive, InvImplies, PTL
-----------------------------------------------------------------------------
(* UnmappedOnlyByCtrlC *)

\* What OpenInv says of one process.
Opened(p) ==
  /\ "INT" \notin pend[p]
  /\ \A t \in Threads : closing[p][t] = "no"
  /\ mapped[p] <=> inited[p]
  /\ \A a \in Updaters : pos[p][a] # 1 => mapped[p]
  /\ fault[p] \notin {"segv", "close assert"}
  /\ fault[p] = "read assert" => ~inited[p] /\ pc[p] = "crashed"

\* The parts of the state it depends on, and their types.
OpenVars(q) == <<pend[q], closing[q], mapped[q], inited[q], pos[q], fault[q], pc[q]>>

\* A process that does not move keeps it.
LEMMA OpenFrame ==
  ASSUME NEW q \in Procs, Opened(q), UNCHANGED OpenVars(q)
  PROVE  Opened(q)'
BY DEF Opened, OpenVars, Updaters

\* A step of another process does not touch these parts.
LEMMA OpenLocality ==
  ASSUME TypeOK, NEW p \in Procs, NEW q \in Procs, p # q, ProcessStep(p)
  PROVE  UNCHANGED OpenVars(q)
<1> USE DEF TypeOK, OpenVars, reader, Crash
<1>1. ASSUME NEW a \in Updaters, UpdateStep(p, a) PROVE UNCHANGED OpenVars(q)
  BY ZenonT(30), <1>1 DEF UpdateStep, ClearMap, AssertMmap, ReadUnmapped, CopyLine, EndCopy,
        InsertFunction, FinishUpdate
<1>2. CASE BootStep(p) \/ Spawn(p) \/ Exit(p)
  BY <1>1, <1>2 DEF BootStep, Spawn, Exit, InstallSigint, InstallSigcont, OpenMmap,
        FinishInit, Updaters
<1>3. ASSUME NEW t \in Threads, HandlerStep(p, t) PROVE UNCHANGED OpenVars(q)
  BY ZenonT(30), <1>1, <1>3 DEF HandlerStep, AcquireLock, AssertClose, Unmap, FinishSigint, Updaters
<1>4. ASSUME NEW t \in Threads, TakeSigcont(p, t) PROVE UNCHANGED OpenVars(q)
  BY <1>4 DEF TakeSigcont
<1>5. ASSUME NEW t \in Threads, TakeSigint(p, t) PROVE UNCHANGED OpenVars(q)
  BY <1>5 DEF TakeSigint
<1>6. ASSUME NEW t \in Threads, MapRace(p, t) PROVE UNCHANGED OpenVars(q)
  BY <1>6 DEF MapRace
<1>7. ASSUME NEW t \in Threads, NEW f \in Functions, Lookup(p, t, f)
      PROVE  UNCHANGED OpenVars(q)
  BY <1>7 DEF Lookup
<1> QED
  BY <1>2, <1>3, <1>4, <1>5, <1>6, <1>7 DEF ProcessStep, Deliver, HookStep

\* Until the first Ctrl-C the script only kills the browser and signals.
LEMMA OpenControl ==
  ASSUME TypeOK, PhaseInv, NEW q \in Procs, Opened(q), ControlStep, interrupts' = 0
  PROVE  Opened(q)'
<1>1. ~Interrupt
  <2>1. interrupts \in Nat
    BY DEF TypeOK
  <2>2. interrupts + 1 # 0
    BY <2>1
  <2> QED
    BY <2>2 DEF Interrupt
<1>2. CASE Signal
  BY <1>2 DEF Signal, Opened, TypeOK, reader, Updaters
<1>3. CASE Launch \/ Close
  <2>1. pc \in [Procs -> ProcStates]
    BY Types
  <2>2. UNCHANGED <<pend, closing, mapped, inited, pos, fault>>
    BY <1>3 DEF Launch, Close, reader
  <2>3. pc[q] = "crashed" => pc'[q] = "crashed"
    BY <1>3, <2>1 DEF Launch, Close, Running, PhaseInv
  <2> QED
    BY <2>2, <2>3 DEF Opened, Updaters
<1>4. CASE Connect \/ ConnectFails \/ Load \/ LoadFails \/ BeginLine \/ EndLine \/ EndWrite
  BY <1>4 DEF Connect, ConnectFails, Load, LoadFails, BeginLine, EndLine, EndWrite, Opened,
        reader, Updaters
<1> QED
  BY <1>1, <1>2, <1>3, <1>4 DEF ControlStep

\* A reader finds the file mapped, or the assertion fails before it is opened.
LEMMA OpenUpdate ==
  ASSUME TypeOK, NEW q \in Procs, Opened(q), NEW a \in Updaters, UpdateStep(q, a)
  PROVE  Opened(q)'
<1> USE DEF TypeOK, Opened, Updaters
<1>1. CASE ClearMap(q, a)
  BY <1>1 DEF ClearMap
<1>2. CASE AssertMmap(q, a)
  BY <1>2 DEF AssertMmap, Crash, reader
<1>3. ~ReadUnmapped(q, a)
  BY DEF ReadUnmapped
<1>4. CASE CopyLine(q, a)
  BY <1>4 DEF CopyLine
<1>5. CASE EndCopy(q, a)
  BY <1>5 DEF EndCopy
<1>6. ASSUME NEW f \in Functions, InsertFunction(q, a, f) PROVE Opened(q)'
  BY <1>6 DEF InsertFunction
<1>7. CASE FinishUpdate(q, a)
  <2>1. /\ pc \in [Procs -> ProcStates]
        /\ pos \in [Procs -> [Updaters -> Positions]]
    BY Types
  <2>2. pc[q] # "crashed"
    BY <1>7 DEF FinishUpdate, OnTop, Running
  <2>3. \A b \in Updaters : pos'[q][b] # 1 => pos[q][b] # 1
    <3>1. pos' = [pos EXCEPT ![q][a] = 1]
      BY <1>7 DEF FinishUpdate
    <3>2. a \in Updaters
      OBVIOUS
    <3> QED
      BY ONLY <2>1, <3>1, <3>2
  <2>4. UNCHANGED <<pend, closing, mapped, inited, fault>>
    BY <1>7 DEF FinishUpdate
  <2> QED
    BY <2>2, <2>3, <2>4
<1> QED
  BY <1>1, <1>2, <1>3, <1>4, <1>5, <1>6, <1>7 DEF UpdateStep

\* The other steps of the process: nothing is in sigint_handler.
LEMMA OpenProcess ==
  ASSUME TypeOK, NEW q \in Procs, Opened(q), ProcessStep(q)
  PROVE  Opened(q)'
<1>1. CASE Spawn(q) \/ Exit(q) \/ InstallSigint(q) \/ InstallSigcont(q) \/ FinishInit(q)
  BY <1>1 DEF Spawn, Exit, InstallSigint, InstallSigcont, FinishInit, Opened, TypeOK, reader,
        Updaters
<1>2. CASE OpenMmap(q)
  BY <1>2 DEF OpenMmap, Opened, TypeOK, Updaters
<1>3. ASSUME NEW a \in Updaters, UpdateStep(q, a) PROVE Opened(q)'
  BY <1>3, OpenUpdate
<1>4. ASSUME NEW t \in Threads, TakeSigcont(q, t) PROVE Opened(q)'
  BY <1>4 DEF TakeSigcont, Opened, TypeOK, Updaters
<1>5. ASSUME NEW t \in Threads, AcquireLock(q, t) PROVE Opened(q)'
  BY <1>5 DEF AcquireLock, Opened, Updaters
<1>6. ASSUME NEW t \in Threads
      PROVE  ~TakeSigint(q, t) /\ ~AssertClose(q, t) /\ ~Unmap(q, t) /\ ~FinishSigint(q, t)
  BY DEF TakeSigint, AssertClose, Unmap, FinishSigint, Opened
<1>7. ASSUME NEW t \in Threads, MapRace(q, t) PROVE Opened(q)'
  BY <1>7 DEF MapRace, Crash, Opened, TypeOK, reader, Updaters, OnTop, Running
<1>8. ASSUME NEW t \in Threads, NEW f \in Functions, Lookup(q, t, f) PROVE Opened(q)'
  BY <1>8 DEF Lookup, Opened, reader, Updaters
<1> QED
  BY <1>1, <1>2, <1>3, <1>4, <1>5, <1>6, <1>7, <1>8
  DEF ProcessStep, BootStep, HandlerStep, Deliver, HookStep, Updaters

\* Every step preserves OpenInv.
LEMMA OpenStep == TypeOK /\ PhaseInv /\ OpenInv /\ [Next]_vars => OpenInv'
<1> SUFFICES ASSUME TypeOK, PhaseInv, OpenInv, [Next]_vars, interrupts' = 0, NEW q \in Procs
             PROVE  Opened(q)'
  BY DEF OpenInv, Opened
<1>1. interrupts = 0
  <2>1. interrupts \in Nat
    BY DEF TypeOK
  <2>2. interrupts + 1 # 0
    BY <2>1
  <2>3. interrupts' = interrupts \/ interrupts' = interrupts + 1
    BY ControlFrame DEF control, ControlStep, Launch, Connect, ConnectFails, Signal, Load,
       LoadFails, BeginLine, EndLine, EndWrite, Close, Interrupt
  <2> QED
    BY <2>2, <2>3
<1>2. Opened(q)
  BY <1>1 DEF OpenInv, Opened
<1>3. CASE ControlStep
  BY <1>2, <1>3, OpenControl
<1>4. ASSUME NEW p \in Procs, ProcessStep(p) PROVE Opened(q)'
  BY <1>2, <1>4, OpenProcess, OpenLocality, OpenFrame
<1>5. CASE Terminating \/ UNCHANGED vars
  BY <1>2, <1>5, OpenFrame DEF Terminating, vars, control, reader, OpenVars
<1> QED
  BY <1>3, <1>4, <1>5 DEF Next

\* ipc.cc, get_mmap_str and ipc_close_mmap: as long as nobody presses Ctrl-C no handler
\* reads an unmapped file and no assertion fails in a process that has opened it.
THEOREM ReadsMappedFile == Spec => []UnmappedOnlyByCtrlC
<1>1. Init => OpenInv
  BY DEF Init, OpenInv, Updaters
<1>2. OpenInv => UnmappedOnlyByCtrlC
  BY DEF OpenInv, UnmappedOnlyByCtrlC
<1>3. IInv => TypeOK /\ PhaseInv
  BY DEF IInv
<1> QED
  BY <1>1, <1>2, <1>3, Inductive, OpenStep, PTL DEF Spec
=============================================================================
