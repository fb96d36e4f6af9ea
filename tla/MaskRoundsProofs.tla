-------------------------- MODULE MaskRoundsProofs --------------------------
(***************************************************************************)
(* MaskRefresh implements MaskRounds: what a settled process uses changes  *)
(* by announcements only.  Beside the inductive invariant of               *)
(* MaskRefreshProofs this takes CompleteInv: lookups and updates together  *)
(* leave no function without masks once no update is under way.            *)
(***************************************************************************)
EXTENDS MaskRefreshProofs

\* What CompleteInv says of one process.
Complete(p) ==
    pc[p] \in {"update", "logging", "ready"} =>
        \A f \in Functions : fmap[p][f] \in {Absent, Zero} =>
            \E a \in Updaters : \/ phase[p][a] \in {"clear", "copy"}
                                \/ (phase[p][a] = "insert" /\ f \in todo[p][a])

\* A process whose map and updates do not move keeps it.
LEMMA CompleteFrame ==
  ASSUME NEW q \in Procs, Complete(q), UNCHANGED <<fmap[q], phase[q], todo[q]>>,
         pc'[q] \in {"update", "logging", "ready"} => pc[q] \in {"update", "logging", "ready"}
  PROVE  Complete(q)'
BY DEF Complete, Updaters

\* The script starts and ends processes, and leaves their maps alone.
LEMMA CompleteControl ==
  ASSUME TypeOK, NEW q \in Procs, Complete(q), ControlStep
  PROVE  Complete(q)'
<1>1. pc \in [Procs -> ProcStates]
  BY Types
<1>2. UNCHANGED <<fmap, phase, todo>>
  BY DEF ControlStep, Launch, Connect, ConnectFails, Signal, Load, LoadFails, BeginLine,
     EndLine, EndWrite, Close, Interrupt, reader
<1>3. pc'[q] = pc[q] \/ pc'[q] \in {"exec", "exited"}
  BY <1>1 DEF ControlStep, Launch, Connect, ConnectFails, Signal, Load, LoadFails, BeginLine,
     EndLine, EndWrite, Close, Interrupt
<1> QED
  BY <1>2, <1>3, CompleteFrame

\* An updater that empties the map fills it again.
LEMMA CompleteUpdate ==
  ASSUME TypeOK, PhaseInv, NEW q \in Procs, Complete(q), NEW a \in Updaters, UpdateStep(q, a)
  PROVE  Complete(q)'
<1> USE Types
<1>1. CASE ClearMap(q, a)
  <2>1. phase'[q][a] = "copy"
    BY <1>1 DEF ClearMap
  <2> QED
    BY <2>1 DEF Complete, Updaters
<1>2. CASE AssertMmap(q, a) \/ ReadUnmapped(q, a)
  <2>1. pc'[q] = "crashed"
    BY <1>2 DEF AssertMmap, ReadUnmapped, Crash
  <2> QED
    BY <2>1 DEF Complete
<1>3. CASE CopyLine(q, a)
  BY <1>3, CompleteFrame DEF CopyLine
<1>4. CASE EndCopy(q, a)
  <2>1. phase'[q][a] = "insert" /\ todo'[q][a] = Functions
    BY <1>4 DEF EndCopy
  <2> QED
    BY <2>1 DEF Complete, Updaters
<1>5. ASSUME NEW f \in Functions, InsertFunction(q, a, f) PROVE Complete(q)'
  <2>1. /\ UNCHANGED <<pc, phase>> /\ phase[q][a] = "insert"
        /\ todo'[q] = [todo[q] EXCEPT ![a] = @ \ {f}]
        /\ \A g \in Functions \ {f} : fmap'[q][g] = fmap[q][g]
        /\ fmap'[q][f] = <<copy[q][a][EntryLine(f)], copy[q][a][ExitLine(f)]>>
    BY <1>5 DEF InsertFunction
  <2>2. fmap'[q][f] \notin {Absent, Zero}
    <3>1. copy[q][a] \in [Lines -> Nat]
      OBVIOUS
    <3>2. fmap'[q][f] \in Nat \X Nat
      BY <2>1, <3>1, LineRange
    <3> QED
      BY <3>2, MaskRefreshAssumption
  <2>3. ASSUME NEW g \in Functions, fmap'[q][g] \in {Absent, Zero},
               pc[q] \in {"update", "logging", "ready"}
        PROVE  \E b \in Updaters : \/ phase'[q][b] \in {"clear", "copy"}
                                   \/ (phase'[q][b] = "insert" /\ g \in todo'[q][b])
    <3>1. g # f /\ fmap[q][g] \in {Absent, Zero}
      BY <2>1, <2>2, <2>3
    <3>2. PICK b \in Updaters : \/ phase[q][b] \in {"clear", "copy"}
                                \/ (phase[q][b] = "insert" /\ g \in todo[q][b])
      BY <2>3, <3>1 DEF Complete
    <3>3. g \in todo[q][b] => g \in todo'[q][b]
      BY <2>1, <3>1
    <3> QED
      BY <2>1, <3>2, <3>3
  <2> QED
    BY <2>1, <2>3 DEF Complete, Updaters
<1>6. CASE FinishUpdate(q, a)
  <2>1. /\ UNCHANGED <<fmap, todo>> /\ phase[q][a] = "insert" /\ todo[q][a] = {}
        /\ phase'[q] = [phase[q] EXCEPT ![a] = "idle"]
    BY <1>6 DEF FinishUpdate
  <2>2. pc'[q] = pc[q] \/ a = Boot
    BY <1>6 DEF FinishUpdate
  <2>3. ASSUME NEW g \in Functions, fmap[q][g] \in {Absent, Zero}, 
               pc[q] \in {"update", "logging", "ready"}
        PROVE  \E b \in Updaters : \/ phase'[q][b] \in {"clear", "copy"}
                                   \/ (phase'[q][b] = "insert" /\ g \in todo[q][b])
    <3>1. PICK b \in Updaters : \/ phase[q][b] \in {"clear", "copy"}
                                \/ (phase[q][b] = "insert" /\ g \in todo[q][b])
      BY <2>3 DEF Complete
    <3>2. b # a
      BY <2>1, <3>1
    <3>3. phase'[q][b] = phase[q][b]
      BY <2>1, <3>2
    <3> QED
      BY <3>1, <3>3
  <2>4. pc[q] \in {"update", "logging", "ready"} \/ pc'[q] = pc[q]
    BY <1>6, <2>2 DEF FinishUpdate, OnTop, Running, PhaseInv
  <2> QED
    BY <2>1, <2>3, <2>4 DEF Complete, Updaters
<1> QED
  BY <1>1, <1>2, <1>3, <1>4, <1>5, <1>6 DEF UpdateStep

\* The other steps of the process.
LEMMA CompleteProcess ==
  ASSUME TypeOK, PhaseInv, NEW q \in Procs, Complete(q), ProcessStep(q)
  PROVE  Complete(q)'
<1> USE Types
<1>1. CASE Spawn(q) \/ Exit(q) \/ InstallSigint(q) \/ InstallSigcont(q)
  <2>1. pc'[q] \notin {"update", "logging", "ready"}
    BY <1>1 DEF Spawn, Exit, InstallSigint, InstallSigcont
  <2> QED
    BY <2>1 DEF Complete
<1>2. CASE FinishInit(q)
  BY <1>2, CompleteFrame DEF FinishInit, reader
<1>3. CASE OpenMmap(q)
  <2>1. phase'[q][Boot] = "clear"
    BY <1>3 DEF OpenMmap, Updaters
  <2> QED
    BY <2>1 DEF Complete, Updaters
<1>4. ASSUME NEW a \in Updaters, UpdateStep(q, a) PROVE Complete(q)'
  BY <1>4, CompleteUpdate
<1>5. ASSUME NEW t \in Threads, TakeSigcont(q, t) \/ AcquireLock(q, t) PROVE Complete(q)'
  <2>1. /\ UNCHANGED <<pc, fmap, todo>> /\ phase[q][t] \in {"idle", "lock"}
        /\ \A a \in Updaters \ {t} : phase'[q][a] = phase[q][a]
    BY <1>5 DEF TakeSigcont, AcquireLock, Ordinary
  <2>2. ASSUME NEW f \in Functions, NEW a \in Updaters,
               \/ phase[q][a] \in {"clear", "copy"}
               \/ (phase[q][a] = "insert" /\ f \in todo[q][a])
        PROVE  phase'[q][a] = phase[q][a]
    BY <2>1, <2>2
  <2>3. ASSUME NEW f \in Functions, fmap[q][f] \in {Absent, Zero},
               pc[q] \in {"update", "logging", "ready"}
        PROVE  \E a \in Updaters : \/ phase'[q][a] \in {"clear", "copy"}
                                   \/ (phase'[q][a] = "insert" /\ f \in todo[q][a])
    <3>1. PICK a \in Updaters : \/ phase[q][a] \in {"clear", "copy"}
                                \/ (phase[q][a] = "insert" /\ f \in todo[q][a])
      BY <2>3 DEF Complete
    <3>2. phase'[q][a] = phase[q][a]
      BY <2>2, <3>1
    <3> QED
      BY <3>1, <3>2
  <2> QED
    BY <2>1, <2>3 DEF Complete, Updaters
<1>6. ASSUME NEW t \in Threads, TakeSigint(q, t) \/ Unmap(q, t) \/ FinishSigint(q, t)
      PROVE  Complete(q)'
  BY <1>6, CompleteFrame DEF TakeSigint, Unmap, FinishSigint, reader
<1>7. ASSUME NEW t \in Threads, AssertClose(q, t) \/ MapRace(q, t) PROVE Complete(q)'
  <2>1. pc'[q] = "crashed"
    BY <1>7 DEF AssertClose, MapRace, Crash
  <2> QED
    BY <2>1 DEF Complete
<1>8. ASSUME NEW t \in Threads, NEW f \in Functions, Lookup(q, t, f) PROVE Complete(q)'
  <2>1. UNCHANGED <<pc, phase, todo>> /\ fmap[q][f] = Absent
    BY <1>8 DEF Lookup, reader
  <2>2. \A g \in Functions : fmap'[q][g] \in {Absent, Zero} => fmap[q][g] \in {Absent, Zero}
    BY <1>8 DEF Lookup
  <2> QED
    BY <2>1, <2>2 DEF Complete, Updaters
<1> QED
  BY <1>1, <1>2, <1>3, <1>4, <1>5, <1>6, <1>7, <1>8
  DEF ProcessStep, BootStep, HandlerStep, Deliver, HookStep, Updaters

\* Every step preserves CompleteInv.
LEMMA CompleteStep == TypeOK /\ PhaseInv /\ CompleteInv /\ [Next]_vars => CompleteInv'
<1> SUFFICES ASSUME TypeOK, PhaseInv, CompleteInv, [Next]_vars, NEW q \in Procs
             PROVE  Complete(q)'
  BY DEF CompleteInv, Complete
<1>1. Complete(q)
  BY DEF CompleteInv, Complete
<1>2. CASE ControlStep
  BY <1>1, <1>2, CompleteControl
<1>3. ASSUME NEW p \in Procs, ProcessStep(p) PROVE Complete(q)'
  <2>1. CASE p = q
    BY <1>1, <1>3, <2>1, CompleteProcess
  <2>2. CASE p # q
    BY <1>1, <1>3, <2>2, Locality, CompleteFrame DEF Local
  <2> QED
    BY <2>1, <2>2
<1>4. CASE Terminating \/ UNCHANGED vars
  BY <1>1, <1>4, CompleteFrame DEF Terminating, vars, reader
<1> QED
  BY <1>2, <1>3, <1>4 DEF Next
-----------------------------------------------------------------------------
(* The refinement *)

\* After a step, a settled process has masks for every function, of the round that is
\* announced.
LEMMA SettledMap ==
  ASSUME TypeOK', CompleteInv', NoStaleMap', NEW p \in Procs, Settled(p)', ~overrun'[p]
  PROVE  /\ fmap'[p] \in [Functions -> Nat \X Nat]
         /\ Announced' => fmap'[p] = [f \in Functions |-> <<2 * round', 2 * round'>>]
<1>1. fmap'[p] \in [Functions -> Pairs]
  BY DEF TypeOK, Pairs
<1>2. ASSUME NEW f \in Functions PROVE fmap'[p][f] \notin {Absent, Zero}
  BY DEF CompleteInv, Settled
<1>3. fmap'[p] \in [Functions -> Nat \X Nat]
  BY <1>1, <1>2 DEF Pairs
<1>4. ASSUME Announced'
      PROVE  fmap'[p] = [f \in Functions |-> <<2 * round', 2 * round'>>]
  <2>1. \A f \in Functions : fmap'[p][f] = <<2 * round', 2 * round'>>
    BY <1>4 DEF NoStaleMap, Fresh
  <2> QED
    BY <1>1, <2>1
<1> QED
  BY <1>3, <1>4

\* A settled process that takes a step and does not end stays settled, with the same map.
LEMMA SettledKeeps ==
  ASSUME TypeOK, CompleteInv, NEW p \in Procs, Settled(p), p \notin Ended', ProcessStep(p)
  PROVE  Settled(p)' /\ fmap'[p] = fmap[p] /\ overrun'[p] = overrun[p]
<1> USE Types DEF Settled
<1>1. \A a \in Updaters : ~UpdateStep(p, a)
  BY DEF UpdateStep, ClearMap, AssertMmap, ReadUnmapped, CopyLine, EndCopy, InsertFunction,
     FinishUpdate
<1>2. \A t \in Threads, f \in Functions : ~Lookup(p, t, f)
  BY DEF Lookup, CompleteInv
<1>3. CASE Spawn(p) \/ Exit(p) \/ BootStep(p)
  BY <1>1, <1>3 DEF Spawn, Exit, BootStep, InstallSigint, InstallSigcont, OpenMmap,
     FinishInit, Updaters, Ended
<1>4. CASE Deliver(p)
  BY <1>4 DEF Deliver, TakeSigcont, TakeSigint, reader
<1>5. ASSUME NEW t \in Threads, MapRace(p, t) \/ HandlerStep(p, t)
      PROVE  Settled(p)' /\ fmap'[p] = fmap[p] /\ overrun'[p] = overrun[p]
  BY <1>1, <1>5 DEF HandlerStep, AcquireLock, AssertClose, Unmap, FinishSigint, MapRace,
     Updaters, Ended, Crash, reader
<1> QED
  BY <1>2, <1>3, <1>4, <1>5 DEF ProcessStep, HookStep

\* A process does not come back from its end.
LEMMA EndedStays ==
  ASSUME TypeOK, NEW p \in Procs, ProcessStep(p)
  PROVE  p \notin Ended
<1> SUFFICES pc[p] \notin {"exited", "crashed"}
  BY DEF Ended
<1> USE DEF Running, OnTop, HandlesInt, HandlesCont
<1>1. ASSUME NEW a \in Updaters, UpdateStep(p, a) PROVE pc[p] \in Running
  BY <1>1 DEF UpdateStep, ClearMap, AssertMmap, ReadUnmapped, CopyLine, EndCopy,
     InsertFunction, FinishUpdate
<1>2. CASE Spawn(p) \/ Exit(p) \/ BootStep(p)
  BY <1>1, <1>2 DEF Spawn, Exit, BootStep, InstallSigint, InstallSigcont, OpenMmap,
     FinishInit, Updaters
<1>3. CASE Deliver(p) \/ HookStep(p)
  BY <1>3 DEF Deliver, HookStep, TakeSigcont, TakeSigint, Lookup, MapRace
<1>4. ASSUME NEW t \in Threads, HandlerStep(p, t) PROVE pc[p] \in Running
  BY <1>1, <1>4 DEF HandlerStep, AcquireLock, AssertClose, Unmap, FinishSigint, Updaters
<1> QED
  BY <1>2, <1>3, <1>4 DEF ProcessStep

\* Of a process that does not move the view stays.
LEMMA ViewFrame ==
  ASSUME NEW q \in Procs, UNCHANGED Local(q)
  PROVE  View(q)' = View(q) /\ (q \in Ended' <=> q \in Ended)
BY DEF View, Settled, Local, Updaters, Ended

\* The steps of the script: only killpg announces, and it settles nobody.
LEMMA RoundsControl ==
  ASSUME TypeOK, PhaseInv, ControlStep
  PROVE  [Rounds!Next]_(Rounds!vars)
<1> DEFINE views == [p \in Procs |-> View(p)]
<1>1. pc \in [Procs -> ProcStates]
  BY Types
<1>2. CASE Connect \/ ConnectFails \/ Load \/ LoadFails \/ BeginLine \/ EndLine \/ EndWrite
  <2>1. \A p \in Procs : UNCHANGED Local(p)
    BY <1>2 DEF Connect, ConnectFails, Load, LoadFails, BeginLine, EndLine, EndWrite, Local, reader
  <2>2. views' = views
    BY <2>1, ViewFrame
  <2>3. Ended' = Ended
    BY <2>1, ViewFrame DEF Ended
  <2>4. \/ Announced /\ Announced' = FALSE /\ round' = round
        \/ Announced' = Announced /\ round' = round
        \/ ~Announced /\ Announced' = Announced /\ round' = round + 1
    BY <1>2 DEF Connect, ConnectFails, Load, LoadFails, BeginLine, EndLine, EndWrite, Announced
  <2> QED
    BY <2>2, <2>3, <2>4 DEF Rounds!Next, Rounds!Rewrite, Rounds!NewRound, Rounds!vars
<1>3. CASE Launch \/ Signal
  <2>1. \A p \in Procs : ~Settled(p)'
    BY <1>1, <1>3 DEF Launch, Signal, Settled, PhaseInv, HandlesCont
  <2>2. views' = [p \in Procs |-> Absent]
    BY <2>1 DEF View
  <2>3. ~Announced /\ Announced' /\ round' = round
    BY <1>3 DEF Launch, Signal, Announced
  <2>4. Ended' = Ended
    BY <1>1, <1>3 DEF Launch, Signal, Ended, PhaseInv
  <2> QED
    BY <2>2, <2>3, <2>4 DEF Rounds!Next, Rounds!Announce
<1>4. CASE Close \/ Interrupt
  <2>1. ASSUME NEW p \in Procs
        PROVE  /\ p \in Ended => p \in Ended'
               /\ p \notin Ended' => UNCHANGED <<fmap[p], phase[p], overrun[p]>>
               /\ p \notin Ended' => Settled(p)' = Settled(p)
    <3>1. CASE Close
      BY <1>1, <3>1 DEF Close, Ended, Settled, reader, Running, Updaters
    <3>2. CASE Interrupt
      <4>1. pend' \in [Procs -> SUBSET {"INT", "CONT"}]
            /\ ("CONT" \in pend'[p] <=> "CONT" \in pend[p])
        BY <3>2, Types DEF Interrupt
      <4>2. /\ UNCHANGED <<fmap, phase, overrun>>
            /\ pc'[p] = IF pc[p] = "exec" THEN "exited" ELSE pc[p]
        BY <3>2 DEF Interrupt, reader
      <4> QED
        BY <4>1, <4>2 DEF Ended, Settled, Updaters
    <3> QED
      BY <1>4, <3>1, <3>2
  <2>2. ASSUME NEW p \in Procs
        PROVE  View(p)' = IF p \in Ended' THEN Absent ELSE View(p)
    <3>1. CASE p \in Ended'
      BY <3>1 DEF View, Settled, Ended
    <3>2. CASE p \notin Ended'
      BY <2>1, <3>2 DEF View
    <3> QED
      BY <3>1, <3>2
  <2>3. views' = [p \in Procs |-> IF p \in Ended' THEN Absent ELSE views[p]]
    BY <2>2
  <2>4. Announced' \in {Announced, FALSE} /\ round' = round
    <3>1. CASE Close
      BY <3>1 DEF Close, Announced
    <3>2. CASE Interrupt
      <4>1. /\ round' = round
            /\ cpc' = "aborted" \/ cpc' = cpc \/ (cpc = "close" /\ cpc' = "done")
        BY <3>2 DEF Interrupt
      <4>2. CASE cpc' = "aborted"
        <5>1. Announced' = FALSE
          BY <4>2 DEF Announced
        <5> QED
          BY <4>1, <5>1
      <4>3. CASE cpc' = cpc
        <5>1. Announced' = Announced
          BY <4>3 DEF Announced
        <5> QED
          BY <4>1, <5>1
      <4>4. CASE cpc = "close" /\ cpc' = "done"
        <5>1. Announced' = Announced
          BY <4>4 DEF Announced
        <5> QED
          BY <4>1, <5>1
      <4> QED
        BY <4>1, <4>2, <4>3, <4>4
    <3> QED
      BY <1>4, <3>1, <3>2
  <2>5. Ended \subseteq Ended'
    BY <2>1 DEF Ended
  <2> QED
    BY <2>3, <2>4, <2>5 DEF Rounds!Next, Rounds!End
<1> QED
  BY <1>2, <1>3, <1>4 DEF ControlStep

\* The steps of a process: it settles, ends, or keeps what it uses.
LEMMA RoundsProcess ==
  ASSUME TypeOK, CompleteInv, TypeOK', CompleteInv', NoStaleMap', NEW p \in Procs,
         ProcessStep(p), UNCHANGED control
  PROVE  [Rounds!Next]_(Rounds!vars)
<1> DEFINE views == [q \in Procs |-> View(q)]
<1>1. Announced' = Announced /\ round' = round
  BY DEF control, Announced
<1>2. \A q \in Procs \ {p} : View(q)' = View(q) /\ (q \in Ended' <=> q \in Ended)
  BY Locality, ViewFrame
<1>3. views' = [views EXCEPT ![p] = View(p)']
  BY <1>2
<1>4. p \notin Ended
  BY EndedStays
<1>5. CASE p \in Ended'
  <2>1. Ended \subseteq Ended'
    BY <1>2, <1>4 DEF Ended
  <2>2. ASSUME NEW q \in Procs PROVE q \in Ended' => View(q)' = Absent
    BY DEF Ended, View, Settled
  <2>3. views' = [q \in Procs |-> IF q \in Ended' THEN Absent ELSE views[q]]
    BY <1>2, <1>5, <2>2
  <2> QED
    BY <1>1, <2>1, <2>3 DEF Rounds!Next, Rounds!End
<1>6. CASE p \notin Ended'
  <2>1. Ended' = Ended
    BY <1>2, <1>4, <1>6 DEF Ended
  <2>2. CASE View(p)' = View(p)
    BY <1>1, <1>3, <2>1, <2>2 DEF Rounds!vars
  <2>3. CASE View(p)' # View(p)
    <3>1. View(p) = Absent
      BY <1>6, <2>3, SettledKeeps DEF View
    <3>2. Settled(p)' /\ ~overrun'[p] /\ View(p)' = fmap'[p]
      BY <2>3, <3>1 DEF View
    <3>3. /\ fmap'[p] \in [Functions -> Nat \X Nat]
          /\ Announced' => fmap'[p] = [f \in Functions |-> <<2 * round', 2 * round'>>]
      BY <3>2, SettledMap
    <3> QED
      BY <1>1, <1>3, <1>4, <2>1, <3>1, <3>2, <3>3
      DEF Rounds!Next, Rounds!Settle, Rounds!Whole
  <2> QED
    BY <2>2, <2>3
<1> QED
  BY <1>5, <1>6

\* MaskRefresh implements MaskRounds, for any processes, threads, functions and pages:
\* a settled process keeps its masks, of which none is missing, until the next
\* announcement or its end, and after an announcement it settles with the whole round.
THEOREM Implements == Spec => ChangesByRounds
<1>1. Init => CompleteInv /\ Rounds!Init
  <2> SUFFICES ASSUME Init PROVE CompleteInv /\ Rounds!Init
    OBVIOUS
  <2>1. \A p \in Procs : pc[p] = "none"
    BY DEF Init
  <2>2. ~Announced /\ round = 0
    BY DEF Init, Announced
  <2>3. Ended = {}
    BY <2>1 DEF Ended
  <2> QED
    BY <2>1, <2>2, <2>3 DEF CompleteInv, Rounds!Init, View, Settled
<1>2. /\ IInv /\ IInv' /\ CompleteInv /\ CompleteInv' /\ NoStaleMap'
      /\ [Next]_vars
      => [Rounds!Next]_(Rounds!vars)
  <2> SUFFICES ASSUME IInv, IInv', CompleteInv, CompleteInv', NoStaleMap', [Next]_vars
               PROVE  [Rounds!Next]_(Rounds!vars)
    OBVIOUS
  <2> USE DEF IInv
  <2>1. CASE ControlStep
    BY <2>1, RoundsControl
  <2>2. ASSUME NEW p \in Procs, ProcessStep(p), UNCHANGED control
        PROVE  [Rounds!Next]_(Rounds!vars)
    BY <2>2, RoundsProcess
  <2>3. CASE Terminating \/ UNCHANGED vars
    <3>1. \A p \in Procs : UNCHANGED Local(p)
      BY <2>3 DEF Terminating, vars, reader, Local
    <3>2. /\ [p \in Procs |-> View(p)]' = [p \in Procs |-> View(p)]
          /\ Ended' = Ended
      BY <3>1, ViewFrame DEF Ended
    <3>3. Announced' = Announced /\ round' = round
      BY <2>3 DEF Terminating, vars, control, Announced
    <3> QED
      BY <3>2, <3>3 DEF Rounds!vars
  <2> QED
    BY <2>1, <2>2, <2>3, ControlFrame DEF Next
<1>3. IInv => TypeOK /\ PhaseInv
  BY DEF IInv
<1>4. Spec => []CompleteInv
  BY <1>1, <1>3, CompleteStep, Inductive, PTL DEF Spec
<1> QED
  BY <1>1, <1>2, <1>4, Inductive, MapsFollowTheFile, PTL DEF Spec, ChangesByRounds, Rounds!Spec
=============================================================================
