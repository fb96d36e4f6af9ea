-------------------------- MODULE ControllerProofs --------------------------
(***************************************************************************)
(* Proofs about Controller, for any sets of functions, arguments of        *)
(* addSet, retries, pages and page sizes.  The inductive invariant IInv    *)
(* and its parts are stated in Controller.                                 *)
(***************************************************************************)
EXTENDS Controller, SequenceTheorems, TLAPS

-----------------------------------------------------------------------------
(* The calls of the interface *)

\* What the interface's variables are.
IpcTypes == /\ functionSetList \in Seq(FunctionSets)
            /\ globalSet \subseteq Names
            /\ ipcWritable \in BOOLEAN /\ raised \in BOOLEAN
            /\ op \in {"none", "init", "randomize"} /\ i \in 1..(Len(functionSetList) + 1)

\* The first element of a loop is in range, whatever the list.
LEMMA LoopStart ==
  ASSUME functionSetList \in Seq(FunctionSets)
  PROVE  1 \in 1..(Len(functionSetList) + 1) /\ Len(functionSetList) \in Nat
BY LenProperties

\* The functions of any set are names.
LEMMA NamesOf == \A s \in FunctionSets : functions[s] \subseteq Names
BY DEF Names

\* A turn of a loop, or its end, touches neither the list nor the union of the sets.
LEMMA LoopEffect ==
  ASSUME IpcTypes, ipcStep
  PROVE  /\ IpcTypes'
         /\ UNCHANGED <<functionSetList, globalSet, ipcWritable>>
         /\ op' \in {op, "none"}
<1>1. Len(functionSetList) \in Nat
  BY LoopStart DEF IpcTypes
<1>2. CASE initIpcSet
  <2>1. /\ UNCHANGED <<functionSetList, globalSet, ipcWritable>>
        /\ i <= Len(functionSetList)
        /\ \/ i' = i + 1 /\ UNCHANGED <<op, raised>>
           \/ op' = "none" /\ i' = 1 /\ raised' = TRUE
    BY <1>2 DEF initIpcSet
  <2>2. i' \in 1..(Len(functionSetList) + 1)
    BY <1>1, <2>1 DEF IpcTypes
  <2>3. op' \in {op, "none"} /\ raised' \in BOOLEAN
    BY <2>1 DEF IpcTypes
  <2> QED
    BY <2>1, <2>2, <2>3 DEF IpcTypes
<1>3. CASE randomizeMasksSet
  <2>1. /\ UNCHANGED <<functionSetList, globalSet, ipcWritable>>
        /\ i <= Len(functionSetList)
        /\ \/ i' = i + 1 /\ UNCHANGED <<op, raised>>
           \/ op' = "none" /\ i' = 1 /\ raised' = TRUE
    BY <1>3 DEF randomizeMasksSet
  <2>2. i' \in 1..(Len(functionSetList) + 1)
    BY <1>1, <2>1 DEF IpcTypes
  <2>3. op' \in {op, "none"} /\ raised' \in BOOLEAN
    BY <2>1 DEF IpcTypes
  <2> QED
    BY <2>1, <2>2, <2>3 DEF IpcTypes
<1>4. CASE endLoop
  BY <1>1, <1>4 DEF endLoop, IpcTypes
<1> QED
  BY <1>2, <1>3, <1>4 DEF ipcStep

\* initIpc and randomizeMasks begin a loop, or raise.
LEMMA CallEffect ==
  ASSUME IpcTypes
  PROVE  /\ initIpc => /\ IpcTypes' /\ UNCHANGED <<functionSetList, globalSet>>
                       /\ op' \in {"none", "init"}
         /\ randomizeMasks => /\ IpcTypes' /\ UNCHANGED <<functionSetList, globalSet>>
                              /\ op' \in {"none", "randomize"}
<1>1. Len(functionSetList) \in Nat
  BY LoopStart DEF IpcTypes
<1>2. ASSUME initIpc
      PROVE  /\ UNCHANGED <<functionSetList, globalSet>>
             /\ ipcWritable' \in {ipcWritable, TRUE}
             /\ raised' \in BOOLEAN
             /\ op' \in {"none", "init"} /\ i' \in {i, 1}
  BY <1>2 DEF initIpc, Raise, Idle, IpcTypes
<1>3. ASSUME randomizeMasks
      PROVE  /\ UNCHANGED <<functionSetList, globalSet, ipcWritable>>
             /\ raised' \in BOOLEAN
             /\ op' \in {"none", "randomize"} /\ i' \in {i, 1}
  BY <1>3 DEF randomizeMasks, Raise, Idle, IpcTypes
<1>4. {i, 1} \subseteq 1..(Len(functionSetList) + 1)
  BY <1>1 DEF IpcTypes
<1>5. ASSUME initIpc PROVE IpcTypes'
  BY <1>2, <1>4, <1>5 DEF IpcTypes
<1>6. ASSUME randomizeMasks PROVE IpcTypes'
  BY <1>3, <1>4, <1>6 DEF IpcTypes
<1> QED
  BY <1>2, <1>3, <1>5, <1>6

\* What addSet adds is a prefix of its argument.
LEMMA AddEffect ==
  ASSUME IpcTypes, NEW fSet \in Seq(FunctionSets), addSet(fSet)
  PROVE  /\ IpcTypes' /\ op' = op
         /\ \/ UNCHANGED <<functionSetList, globalSet>>
            \/ \E n \in 0..Len(fSet) :
                  /\ \A j \in 1..n : Fits(fSet, j)
                  /\ functionSetList' = functionSetList \o SubSeq(fSet, 1, n)
                  /\ globalSet' = globalSet \cup UNION {functions[fSet[k]] : k \in 1..n}
<1>1. CASE ipcWritable
  BY <1>1 DEF addSet, Raise, IpcTypes
<1>2. CASE ~ipcWritable
  <2>1. PICK n \in 0..Len(fSet) :
               /\ _addSet(fSet, n)
               /\ functionSetList' = functionSetList \o SubSeq(fSet, 1, n)
               /\ globalSet' = globalSet \cup UNION {functions[fSet[k]] : k \in 1..n}
               /\ raised' = (n < Len(fSet))
               /\ UNCHANGED <<ipcWritable, offset, file, op, i, pos, drawn>>
    BY <1>2 DEF addSet
  <2>2. /\ functionSetList \in Seq(FunctionSets)
        /\ Len(functionSetList) \in Nat /\ Len(fSet) \in Nat
    BY LenProperties DEF IpcTypes
  <2>3. SubSeq(fSet, 1, n) \in Seq(FunctionSets) /\ Len(SubSeq(fSet, 1, n)) = n
    BY <2>2, SubSeqProperties
  <2>4. /\ functionSetList' \in Seq(FunctionSets)
        /\ Len(functionSetList') = Len(functionSetList) + n
    BY <2>1, <2>2, <2>3, ConcatProperties
  <2>5. i' \in 1..(Len(functionSetList') + 1)
    BY <2>1, <2>2, <2>4 DEF IpcTypes
  <2>6. globalSet' \subseteq Names
    <3>1. \A k \in 1..n : fSet[k] \in FunctionSets
      BY <2>2, ElementOfSeq
    <3> QED
      BY <2>1, <3>1, NamesOf DEF IpcTypes
  <2>7. raised' \in BOOLEAN
    BY <2>1
  <2> QED
    BY <2>1, <2>4, <2>5, <2>6, <2>7 DEF IpcTypes, _addSet
<1> QED
  BY <1>1, <1>2

\* No function is in two sets, and globalSet is the union, after any addSet.
LEMMA AddKeepsDisjoint ==
  ASSUME IpcTypes, OneSetPerFunction, NEW fSet \in Seq(FunctionSets), addSet(fSet)
  PROVE  OneSetPerFunction'
<1>1. CASE UNCHANGED <<functionSetList, globalSet>>
  BY <1>1 DEF OneSetPerFunction
<1>2. ASSUME NEW n \in 0..Len(fSet),
             \A j \in 1..n : Fits(fSet, j),
             functionSetList' = functionSetList \o SubSeq(fSet, 1, n),
             globalSet' = globalSet \cup UNION {functions[fSet[k]] : k \in 1..n}
      PROVE  OneSetPerFunction'
  <2> DEFINE m == Len(functionSetList)
             L == functionSetList'
  <2>1. /\ functionSetList \in Seq(FunctionSets) /\ m \in Nat /\ Len(fSet) \in Nat
        /\ DOMAIN functionSetList = 1..m
    BY LenProperties DEF IpcTypes
  <2>2. /\ SubSeq(fSet, 1, n) \in Seq(FunctionSets) /\ Len(SubSeq(fSet, 1, n)) = n
        /\ \A k \in 1..n : SubSeq(fSet, 1, n)[k] = fSet[k]
    BY <2>1, SubSeqProperties
  <2>3. /\ DOMAIN L = 1..(m + n)
        /\ \A k \in 1..m : L[k] = functionSetList[k]
        /\ \A k \in 1..n : L[m + k] = fSet[k]
    BY <1>2, <2>1, <2>2, ConcatProperties
  <2> HIDE DEF L, m
  <2>4. \A k \in DOMAIN L : \/ k \in 1..m /\ L[k] = functionSetList[k]
                            \/ \E j \in 1..n : k = m + j /\ L[k] = fSet[j]
    <3> TAKE k \in DOMAIN L
    <3>1. k \in 1..m \/ (k - m \in 1..n /\ k = m + (k - m))
      BY <2>1, <2>3
    <3> QED
      BY <2>3, <3>1
  <2>5. \A k \in 1..m : k \in DOMAIN L
    BY <2>1, <2>3
  <2>6. \A j \in 1..n : m + j \in DOMAIN L
    BY <2>1, <2>3
  <2>7. globalSet' = UNION {functions[L[k]] : k \in DOMAIN L}
    <3>1. globalSet = UNION {functions[functionSetList[k]] : k \in 1..m}
      BY <2>1 DEF OneSetPerFunction
    <3>2. UNION {functions[L[k]] : k \in DOMAIN L} \subseteq globalSet'
      <4>1. \A k \in DOMAIN L : functions[L[k]] \subseteq globalSet'
        <5>1. \A j \in 1..n : functions[fSet[j]] \subseteq globalSet'
          BY <1>2
        <5>2. \A k \in 1..m : functions[functionSetList[k]] \subseteq globalSet'
          BY <1>2, <3>1
        <5> QED
          BY <2>4, <5>1, <5>2
      <4> QED
        BY <4>1
    <3>3. \A k \in 1..m : functions[functionSetList[k]] \subseteq UNION {functions[L[x]] : x \in DOMAIN L}
      BY <2>3, <2>5
    <3>4. \A k \in 1..n : functions[fSet[k]] \subseteq UNION {functions[L[x]] : x \in DOMAIN L}
      BY <2>3, <2>6
    <3>5. globalSet \subseteq UNION {functions[L[x]] : x \in DOMAIN L}
      BY <3>1, <3>3
    <3>6. UNION {functions[fSet[k]] : k \in 1..n} \subseteq UNION {functions[L[x]] : x \in DOMAIN L}
      BY <3>4
    <3> QED
      BY <1>2, <3>2, <3>5, <3>6
  <2>8. ASSUME NEW j \in DOMAIN L, NEW k \in DOMAIN L, j < k
        PROVE  functions[L[j]] \cap functions[L[k]] = {}
    <3>1. CASE k \in 1..m
      <4>1. j \in 1..m
        BY <2>1, <2>3, <2>8, <3>1
      <4> QED
        BY <2>1, <2>3, <2>8, <3>1, <4>1 DEF OneSetPerFunction
    <3>2. ASSUME NEW b \in 1..n, k = m + b, L[k] = fSet[b]
          PROVE  functions[L[j]] \cap functions[L[k]] = {}
      <4>1. functions[fSet[b]] \cap
              (globalSet \cup UNION {functions[fSet[a]] : a \in 1..(b - 1)}) = {}
        BY <1>2 DEF Fits
      <4>2. CASE j \in 1..m
        <5>1. functions[L[j]] \subseteq globalSet
          BY <2>1, <2>3, <4>2 DEF OneSetPerFunction
        <5> QED
          BY <3>2, <4>1, <5>1
      <4>3. ASSUME NEW a \in 1..n, j = m + a, L[j] = fSet[a]
            PROVE  functions[L[j]] \cap functions[L[k]] = {}
        <5>1. a \in 1..(b - 1)
          BY <2>1, <2>8, <3>2, <4>3
        <5>2. functions[fSet[a]] \subseteq UNION {functions[fSet[x]] : x \in 1..(b - 1)}
          BY <5>1
        <5>3. functions[fSet[a]] \cap functions[fSet[b]] = {}
          BY <4>1, <5>2
        <5> QED
          BY <3>2, <4>3, <5>3
      <4> QED
        BY <2>4, <4>2, <4>3
    <3> QED
      BY <2>4, <3>1, <3>2
  <2>9. \A j, k \in DOMAIN L : j # k => functions[L[j]] \cap functions[L[k]] = {}
    <3> SUFFICES ASSUME NEW j \in DOMAIN L, NEW k \in DOMAIN L, j # k
                 PROVE  functions[L[j]] \cap functions[L[k]] = {}
      OBVIOUS
    <3>1. j < k \/ k < j
      BY <2>1, <2>3
    <3> QED
      BY <2>8, <3>1
  <2> QED
    BY <2>7, <2>9 DEF OneSetPerFunction, L
<1> QED
  BY <1>1, <1>2, AddEffect
-----------------------------------------------------------------------------
(* The interface along the program *)

\* A file that was made or found leaves the sets alone.
LEMMA AllocateEffect ==
  ASSUME IpcTypes, NEW content, Allocate(content)
  PROVE  IpcTypes' /\ UNCHANGED <<functionSetList, globalSet, op>>
BY DEF Allocate, IpcTypes

\* Only three places begin a loop over the sets, and only a loop ends in one.
LEMMA IpcAlong ==
  ASSUME IpcTypes, [Next]_vars
  PROVE  /\ IpcTypes'
         /\ \/ UNCHANGED <<functionSetList, globalSet>>
            \/ \E fSet \in Seq(FunctionSets) : addSet(fSet)
         /\ \/ op' \in {op, "none"} /\ (pc' = pc \/ op = "none" \/ op' = op)
            \/ op' = "init" /\ pc' = pc /\ pc \in {"initIpc", "self test"}
            \/ op' = "randomize" /\ pc' = pc /\ pc = "self test"
            \/ op' = "randomize" /\ pc = "stopped" /\ pc' = "randomize"
<1>1. CASE TestStep
  <2>1. pc = "self test" /\ pc' = pc
    BY <1>1 DEF TestStep
  <2>2. CASE \E fSet \in Arguments : addSet(fSet)
    BY <2>1, <2>2, AddEffect, ControllerAssumption
  <2>3. CASE initIpc \/ randomizeMasks \/ ipcStep
    BY <2>1, <2>3, CallEffect, LoopEffect
  <2> QED
    BY <1>1, <2>2, <2>3 DEF TestStep
<1>2. CASE AddSet
  BY <1>2, AddEffect, ControllerAssumption DEF AddSet
<1>3. CASE Prepare
  BY <1>3, AllocateEffect DEF Prepare
<1>4. CASE CallInitIpc
  BY <1>4, CallEffect DEF CallInitIpc, script
<1>5. CASE IpcLoop
  BY <1>5, LoopEffect DEF IpcLoop, script
<1>6. CASE CallRandomizeMasks
  <2>1. op = "none"
    BY <1>6 DEF CallRandomizeMasks, randomizeMasks, Idle
  <2> QED
    BY <1>6, <2>1, CallEffect DEF CallRandomizeMasks, Goto
<1>7. ASSUME UNCHANGED ipcVars
      PROVE  IpcTypes' /\ UNCHANGED <<functionSetList, globalSet, op>>
  BY <1>7 DEF ipcVars, IpcTypes
<1>8. CASE LeaveInitIpc \/ Launch \/ Connect \/ Retry \/ Signal \/ Navigate \/ WaitEvent
  BY <1>7, <1>8 DEF LeaveInitIpc, Launch, Connect, Retry, Signal, Navigate, WaitEvent
<1>9. CASE EvaluateStart \/ EvaluateDuration \/ EvaluateRaises \/ Check \/ StopLoading
             \/ LeaveRandomize \/ Close \/ Kill \/ WriteLog
  BY <1>7, <1>9 DEF EvaluateStart, EvaluateDuration, EvaluateRaises, Check, StopLoading,
                    LeaveRandomize, Close, Kill, WriteLog
<1>10. CASE Chrome
  BY <1>7, <1>10 DEF Chrome
<1>11. CASE UNCHANGED vars
  BY <1>7, <1>11 DEF vars
<1> QED
  BY <1>1, <1>2, <1>3, <1>4, <1>5, <1>6, <1>8, <1>9, <1>10, <1>11
  DEF Next, Script, Terminating

\* The sets stay disjoint, and globalSet their union, in every step.
LEMMA DisjointStep ==
  ASSUME IpcTypes, OneSetPerFunction, [Next]_vars
  PROVE  OneSetPerFunction'
<1>1. CASE UNCHANGED <<functionSetList, globalSet>>
  BY <1>1 DEF OneSetPerFunction
<1>2. CASE \E fSet \in Seq(FunctionSets) : addSet(fSet)
  BY <1>2, AddKeepsDisjoint
<1> QED
  BY <1>1, <1>2, IpcAlong
-----------------------------------------------------------------------------
(* The script and the browser *)

\* Of the constants only this matters here.
LEMMA Bounds == /\ MaxAdds \in Nat /\ Retries \in Nat /\ Pages \in Nat \ {0}
                /\ Zero \notin Nat /\ None \notin Nat /\ Zero # None
BY IpcInterfaceAssumption, ControllerAssumption

\* What their variables are, in parts.
PcType == pc \in {"sets", "self test", "initIpc", "launch", "connect", "signal", "navigate",
                  "wait", "stopLoading", "stopped", "randomize", "closing", "kill", "write"}
                 \cup ResultLoop \cup Ended
FlagTypes == single \in BOOLEAN /\ listed \in BOOLEAN /\ display \in BOOLEAN
AddsType    == adds \in 0..MaxAdds
RetriesType == retries \in 0..Retries
PageType    == page \in 0..Pages
ResultTypes == result \in Results /\ woke \in Documents \cup {None}
RowTypes == loadTimes \in Seq(Results) /\ Len(loadTimes) <= Pages /\ log \in {None, loadTimes}
ChromeTypes == /\ browser \in {"none", "starting", "listening", "dead"}
               /\ nav \in Turns \cup {None} /\ doc \in Documents
               /\ loaded \in BOOLEAN /\ stopped \in BOOLEAN
               /\ event \in Documents \cup {None}

ScriptTypes == /\ PcType /\ FlagTypes /\ AddsType /\ RetriesType /\ PageType
               /\ ResultTypes /\ RowTypes /\ ChromeTypes

LEMMA TypeParts == /\ TypeOK <=> ScriptTypes /\ IpcTypes
                   /\ TypeOK' <=> ScriptTypes' /\ IpcTypes'
BY DEF TypeOK, ScriptTypes, IpcTypes, PcType, FlagTypes, AddsType, RetriesType, PageType,
       ResultTypes, RowTypes, ChromeTypes

\* A variable that is left alone keeps its type.
LEMMA TypeFrame ==
  /\ PcType /\ pc' = pc => PcType'
  /\ FlagTypes /\ UNCHANGED options => FlagTypes'
  /\ AddsType /\ adds' = adds => AddsType'
  /\ RetriesType /\ retries' = retries => RetriesType'
  /\ PageType /\ page' = page => PageType'
  /\ ResultTypes /\ UNCHANGED <<result, woke>> => ResultTypes'
  /\ RowTypes /\ UNCHANGED <<loadTimes, log>> => RowTypes'
  /\ ChromeTypes /\ UNCHANGED chrome => ChromeTypes'
BY DEF PcType, FlagTypes, AddsType, RetriesType, PageType, ResultTypes, RowTypes,
       ChromeTypes, options, chrome

\* A turn is a document; documents are numbers, so neither Zero nor None.
LEMMA DocumentNumbers == /\ Turns \subseteq Documents /\ Documents \subseteq Nat
                         /\ Zero \notin Documents /\ None \notin Documents
                         /\ None \notin Turns
BY Bounds DEF Turns, Documents

\* The result of a page is a pair of reported numbers.
LEMMA ResultFields ==
  ASSUME ScriptTypes
  PROVE  /\ result.nav \in Documents \cup {None}
         /\ result.dur \in Documents \cup {Zero, None}
BY DEF ScriptTypes, ResultTypes, Results

\* No result at all is one of the results.
LEMMA NoResultType == NoResult \in Results /\ NoResult.nav = None /\ NoResult.dur = None
BY DEF NoResult, Results

\* A row is appended to the rows of the pages before.
LEMMA RowAppended ==
  ASSUME ScriptTypes, RowsInv, pc = "check", loadTimes' = Append(loadTimes, result)
  PROVE  /\ loadTimes' \in Seq(Results)
         /\ Len(loadTimes') = Len(loadTimes) + 1 /\ Len(loadTimes') = page
         /\ log = None
         /\ DOMAIN loadTimes' = 1..page
         /\ \A k \in 1..(page - 1) : k \in DOMAIN loadTimes /\ loadTimes'[k] = loadTimes[k]
         /\ loadTimes'[page] = result
<1>1. loadTimes \in Seq(Results) /\ result \in Results /\ Len(loadTimes) \in Nat
  BY LenProperties DEF ScriptTypes, ResultTypes, RowTypes
<1>2. page = Len(loadTimes) + 1
  BY DEF RowsInv, Measuring, ResultLoop
<1>3. /\ loadTimes' \in Seq(Results) /\ Len(loadTimes') = Len(loadTimes) + 1
      /\ \A k \in 1..Len(loadTimes) : loadTimes'[k] = loadTimes[k]
      /\ loadTimes'[Len(loadTimes) + 1] = result
  BY <1>1, AppendProperties
<1>4. DOMAIN loadTimes = 1..Len(loadTimes) /\ DOMAIN loadTimes' = 1..Len(loadTimes')
  BY <1>1, <1>3, LenProperties
<1>5. log = None
  <2>1. Len(loadTimes) # Pages
    BY Bounds, <1>1, <1>2 DEF ScriptTypes, PageType
  <2> QED
    BY <2>1 DEF RowsInv
<1>6. page - 1 = Len(loadTimes)
  BY <1>1, <1>2
<1> QED
  BY <1>2, <1>3, <1>4, <1>5, <1>6

\* Which steps change what.
LEMMA Along ==
  ASSUME [Next]_vars
  PROVE  /\ UNCHANGED options
         /\ adds' = adds \/ (adds < MaxAdds /\ adds' = adds + 1)
         /\ retries' = retries \/ Retry
         /\ page' = page \/ Signal
         /\ UNCHANGED <<result, woke>> \/ Navigate \/ WaitEvent \/ EvaluateStart
            \/ EvaluateDuration
         /\ loadTimes' = loadTimes \/ Check
         /\ log' = log \/ WriteLog
         /\ \/ UNCHANGED chrome \/ Launch \/ Navigate \/ WaitEvent \/ StopLoading \/ Kill
            \/ Chrome
            \/ Signal /\ UNCHANGED <<browser, nav, doc, loaded, stopped, event>>
         /\ pc' = pc \/ Script
<1> USE DEF options, pages, script, chrome
<1>1. CASE TestStep \/ AddSet
  BY <1>1 DEF TestStep, AddSet, Script
<1>2. CASE Prepare \/ CallInitIpc \/ IpcLoop \/ LeaveInitIpc \/ Launch \/ Connect \/ Retry
  BY <1>2 DEF Prepare, CallInitIpc, IpcLoop, LeaveInitIpc, Launch, Connect, Retry, Script
<1>3. CASE Signal \/ Navigate \/ WaitEvent \/ EvaluateStart \/ EvaluateDuration
  BY <1>3 DEF Signal, Navigate, WaitEvent, EvaluateStart, EvaluateDuration, Script
<1>4. CASE EvaluateRaises \/ Check \/ StopLoading \/ CallRandomizeMasks \/ LeaveRandomize
             \/ Close \/ Kill \/ WriteLog
  BY <1>4 DEF EvaluateRaises, Check, StopLoading, CallRandomizeMasks, LeaveRandomize, Close,
              Kill, WriteLog, Script
<1>5. CASE Chrome
  BY <1>5 DEF Chrome
<1>6. CASE UNCHANGED vars
  BY <1>6 DEF vars
<1> QED
  BY <1>1, <1>2, <1>3, <1>4, <1>5, <1>6 DEF Next, Script, Terminating

\* Each variable keeps its type.
LEMMA TypesStep ==
  ASSUME ScriptTypes, IpcTypes, RowsInv, [Next]_vars
  PROVE  ScriptTypes'
<1> USE TypeFrame DEF ScriptTypes
<1>1. PcType'
  <2>1. CASE pc' = pc
    BY <2>1
  <2>2. CASE AddSet \/ Prepare \/ LeaveInitIpc \/ Launch \/ Connect \/ Retry
    BY ONLY <2>2 DEF AddSet, Prepare, LeaveInitIpc, Launch, Connect, Retry, Goto, PcType, Ended
  <2>3. CASE Signal \/ Navigate \/ WaitEvent \/ EvaluateStart \/ EvaluateDuration
             \/ EvaluateRaises \/ Check
    BY ONLY <2>3 DEF Signal, Navigate, WaitEvent, EvaluateStart, EvaluateDuration,
                     EvaluateRaises, Check, Goto, PcType, Ended, ResultLoop
  <2>4. CASE StopLoading \/ CallRandomizeMasks \/ LeaveRandomize \/ Close \/ Kill \/ WriteLog
    BY ONLY <2>4 DEF StopLoading, CallRandomizeMasks, LeaveRandomize, Close, Kill, WriteLog,
                     Goto, PcType, Ended
  <2>5. CASE CallInitIpc \/ IpcLoop
    BY ONLY <2>1, <2>5 DEF CallInitIpc, IpcLoop, script
  <2> QED
    BY <2>1, <2>2, <2>3, <2>4, <2>5, Along DEF Script
<1>2. FlagTypes'
  BY Along
<1>3. AddsType'
  BY ONLY Along, Bounds, [Next]_vars, AddsType DEF AddsType
<1>4. RetriesType'
  <2>1. CASE Retry
    <3>1. retries' = retries \/ (~(retries <= 0) /\ retries' = retries - 1)
      BY <2>1 DEF Retry
    <3> QED
      BY ONLY <3>1, Bounds, RetriesType DEF RetriesType
  <2> QED
    BY <2>1, Along
<1>5. PageType'
  <2>1. CASE Signal
    <3>1. page' = page \/ (page # Pages /\ page' = page + 1)
      BY <2>1 DEF Signal
    <3> QED
      BY ONLY <3>1, Bounds, PageType DEF PageType
  <2> QED
    BY <2>1, Along
<1>6. ResultTypes'
  <2>1. [result EXCEPT !.nav = doc] \in Results
    BY DEF ResultTypes, ChromeTypes, Results
  <2>2. [result EXCEPT !.dur = IF loaded THEN doc ELSE Zero] \in Results
    BY DEF ResultTypes, ChromeTypes, Results
  <2>3. CASE Navigate
    BY <2>3, NoResultType DEF Navigate, ResultTypes
  <2>4. CASE WaitEvent
    BY <2>4 DEF WaitEvent, ResultTypes, ChromeTypes
  <2>5. CASE EvaluateStart \/ EvaluateDuration
    BY <2>1, <2>2, <2>5 DEF EvaluateStart, EvaluateDuration, ResultTypes
  <2> QED
    BY <2>3, <2>4, <2>5, Along
<1>7. RowTypes'
  <2>1. CASE WriteLog
    BY <2>1 DEF WriteLog, RowTypes
  <2>2. CASE Check /\ loadTimes' = Append(loadTimes, result)
    <3>1. /\ loadTimes' \in Seq(Results) /\ Len(loadTimes') = page /\ log = None
      BY <2>2, RowAppended DEF Check
    <3>2. Len(loadTimes') <= Pages
      BY <3>1, Bounds DEF PageType
    <3> QED
      BY <2>2, <3>1, <3>2 DEF Check, RowTypes
  <2>3. CASE Check /\ loadTimes' = loadTimes
    BY <2>3 DEF Check
  <2>4. Check => loadTimes' = loadTimes \/ loadTimes' = Append(loadTimes, result)
    BY DEF Check
  <2> QED
    BY <2>1, <2>2, <2>3, <2>4, Along
<1>8. ChromeTypes'
  <2> USE DEF ChromeTypes, chrome
  <2>1. CASE Launch \/ Kill
    BY <2>1 DEF Launch, Kill
  <2>2. CASE Navigate
    <3>1. page = Len(loadTimes) + 1 /\ Len(loadTimes) \in Nat
      BY <2>2, LenProperties DEF Navigate, RowsInv, Measuring, RowTypes
    <3>2. page \in Turns
      BY <3>1, Bounds DEF PageType, Turns
    <3> QED
      BY <2>2, <3>2 DEF Navigate
  <2>3. CASE WaitEvent
    BY <2>3 DEF WaitEvent
  <2>4. CASE StopLoading
    BY <2>4 DEF StopLoading
  <2>5. CASE Chrome
    BY <2>5, DocumentNumbers DEF Chrome, Listen, Die, Commit, LoadEvent
  <2>6. CASE UNCHANGED <<browser, nav, doc, loaded, stopped, event>>
    BY <2>6
  <2> QED
    BY <2>1, <2>2, <2>3, <2>4, <2>5, <2>6, Along
<1> QED
  BY <1>1, <1>2, <1>3, <1>4, <1>5, <1>6, <1>7, <1>8
-----------------------------------------------------------------------------
(* The parts of the inductive invariant, step by step *)

\* The places of a step in the script.
LEMMA Places ==
  ASSUME [Next]_vars, pc' # pc
  PROVE  \/ pc = "sets" /\ pc' \in {"exception", "initIpc"}
         \/ pc = "initIpc" /\ op = "none" /\ pc' \in {"exception", "launch"}
         \/ pc = "launch" /\ pc' \in {"connect", "exit"}
         \/ pc = "connect" /\ pc' = "exit"
         \/ pc = "connect" /\ pc' = "signal" /\ browser = "listening"
         \/ pc = "signal" /\ pc' = "closing" /\ page = Pages /\ page' = page
         \/ pc = "signal" /\ pc' = "navigate" /\ page # Pages /\ page' = page + 1 /\ Signal
         \/ pc = "navigate" /\ pc' \in {"wait", "exception"} /\ Navigate
         \/ pc = "wait" /\ pc' \in {"start", "exception"} /\ WaitEvent
         \/ pc = "start" /\ pc' = "duration" /\ EvaluateStart
         \/ pc = "duration" /\ pc' = "check" /\ EvaluateDuration
         \/ pc \in {"start", "duration"} /\ pc' = "check" /\ UNCHANGED <<pages, chrome>>
         \/ pc = "check" /\ pc' = "start" /\ Missing /\ UNCHANGED <<pages, chrome>>
         \/ pc = "check" /\ pc' = "stopLoading" /\ ~Missing /\ Check
            /\ loadTimes' = Append(loadTimes, result)
         \/ pc = "stopLoading" /\ pc' = "stopped" /\ nav' = None /\ StopLoading
         \/ pc = "stopped" /\ pc' = "randomize" /\ UNCHANGED chrome
         \/ pc = "stopLoading" /\ pc' = "exit"
         \/ pc = "randomize" /\ op = "none" /\ pc' \in {"exception", "signal"}
            /\ UNCHANGED chrome
         \/ pc = "closing" /\ pc' \in {"kill", "write"}
         \/ pc = "kill" /\ pc' = "write"
         \/ pc = "write" /\ pc' = "done"
<1> USE DEF Goto, Idle, pages
<1>1. Script
  BY Along
<1>2. CASE AddSet \/ Prepare \/ LeaveInitIpc \/ Launch \/ Connect \/ Retry
  BY <1>2 DEF AddSet, Prepare, LeaveInitIpc, Launch, Connect, Retry
<1>3. CASE CallInitIpc \/ IpcLoop
  BY <1>3 DEF CallInitIpc, IpcLoop, script
<1>4. CASE Signal \/ Navigate \/ WaitEvent
  BY <1>4 DEF Signal, Navigate, WaitEvent
<1>5. CASE EvaluateStart \/ EvaluateDuration \/ EvaluateRaises
  BY <1>5 DEF EvaluateStart, EvaluateDuration, EvaluateRaises
<1>6. CASE Check
  BY <1>6 DEF Check
<1>7. CASE StopLoading \/ CallRandomizeMasks \/ LeaveRandomize \/ Close \/ Kill \/ WriteLog
  BY <1>7 DEF StopLoading, CallRandomizeMasks, LeaveRandomize, Close, Kill, WriteLog
<1> QED
  BY <1>1, <1>2, <1>3, <1>4, <1>5, <1>6, <1>7 DEF Script

\* The loops over the sets run where they were called.
LEMMA LoopStep ==
  ASSUME IpcTypes, LoopInv, [Next]_vars
  PROVE  LoopInv'
<1>1. op # "none" => pc \in {"initIpc", "self test", "randomize"}
  BY DEF IpcTypes, LoopInv
<1>2. op # "none" => pc' = pc
  BY <1>1, Places
<1> QED
  BY <1>2, IpcAlong DEF LoopInv

\* A browser that was started, and every place after the connection, has its display.
LEMMA DisplayStep ==
  ASSUME ScriptTypes, DisplayInv, [Next]_vars
  PROVE  DisplayInv'
<1> USE DEF Goto
<1>0. display' = display
  BY Along DEF options
<1>1. browser' \in {"starting", "listening"} => browser \in {"starting", "listening"} \/ display
  <2>1. CASE Launch
    <3>1. procIsAlive(display)
      BY DEF procIsAlive, findProcess
    <3> QED
      BY <2>1, <3>1 DEF Launch
  <2>2. CASE Navigate \/ WaitEvent \/ StopLoading \/ Kill \/ Chrome
    BY <2>2 DEF Navigate, WaitEvent, StopLoading, Kill, Chrome, Listen, Die, Commit, LoadEvent
  <2> QED
    BY <2>1, <2>2, Along DEF chrome
<1>2. pc' \in Connected => pc \in Connected \/ browser = "listening"
  BY Places DEF Connected, Stopping, Measuring, Closing, ResultLoop
<1>3. page' > 0 => page > 0 \/ pc \in Connected
  BY Along DEF Signal, Connected
<1> QED
  BY <1>0, <1>1, <1>2, <1>3 DEF DisplayInv

\* What the invariants count with.
LEMMA Numbers ==
  ASSUME ScriptTypes
  PROVE  /\ page \in Nat /\ page <= Pages /\ Pages \in Nat \ {0}
         /\ doc \in Nat /\ nav \in Nat \cup {None}
         /\ None \notin Nat /\ Zero \notin Nat /\ Zero # None
         /\ result.nav \in Nat \cup {None} /\ result.dur \in Nat \cup {Zero, None}
         /\ event \in Nat \cup {None} /\ woke \in Nat \cup {None}
         /\ Len(loadTimes) \in Nat
<1>1. page \in Nat /\ page <= Pages
  BY Bounds DEF ScriptTypes, PageType
<1>2. Len(loadTimes) \in Nat
  BY LenProperties DEF ScriptTypes, RowTypes
<1> QED
  BY <1>1, <1>2, Bounds, DocumentNumbers, ResultFields DEF ScriptTypes, ResultTypes, ChromeTypes

\* One row is recorded in each turn, of documents that are not older than the row's
\* first number and not newer than its turn.
LEMMA RowsStep ==
  ASSUME ScriptTypes, RowsInv, DocumentInv, ResultInv, [Next]_vars
  PROVE  RowsInv'
<1> DEFINE Row(rows, k) == /\ rows[k].nav \in Documents /\ rows[k].dur \in Documents
                           /\ rows[k].nav <= rows[k].dur /\ rows[k].dur <= k
           Counts == /\ pc \notin Connected \cup Ended => page = 0 /\ loadTimes = <<>>
                     /\ pc \in Measuring => page = Len(loadTimes) + 1
                     /\ pc \in {"signal"} \cup Stopping => page = Len(loadTimes)
                     /\ pc \in Closing => Len(loadTimes) = Pages
                     /\ log # None => Len(loadTimes) = Pages
           Rows == \A k \in DOMAIN loadTimes : Row(loadTimes, k)
<1>0. Counts /\ Rows
  BY DEF RowsInv
<1>3. Counts' /\ Rows' => RowsInv'
  BY DEF RowsInv
<1>1. CASE loadTimes' = loadTimes
  <2>1. Rows'
    BY <1>0, <1>1
  <2>2. Len(<<>>) = 0
    OBVIOUS
  <2>3. log' = log \/ pc = "write"
    BY Along DEF WriteLog
  <2>4. page' = page \/ (pc = "signal" /\ pc' = "navigate" /\ page' = page + 1)
    BY Along DEF Signal, Goto
  <2>5. CASE pc' = pc
    <3>1. page' = page
      BY <2>4, <2>5
    <3>2. Counts'
      BY <1>0, <1>1, <2>3, <2>5, <3>1 DEF Closing
    <3> QED
      BY <1>3, <2>1, <3>2
  <2>6. CASE pc' # pc
    <3>1. Counts' \/ (pc = "check" /\ pc' = "stopLoading")
      BY <1>0, <1>1, <2>2, <2>3, <2>4, <2>6, Places, Numbers
      DEF Connected, Stopping, Closing, Measuring, ResultLoop, Ended
    <3>2. ~(pc = "check" /\ pc' = "stopLoading")
      <4>1. Append(loadTimes, result) # loadTimes
        BY ScriptTypes, Numbers, AppendProperties DEF ScriptTypes, RowTypes, ResultTypes
      <4> QED
        BY <1>1, <4>1, Places
    <3> QED
      BY <1>3, <2>1, <3>1, <3>2
  <2> QED
    BY <2>5, <2>6
<1>2. CASE loadTimes' # loadTimes
  <2>1. pc = "check" /\ pc' = "stopLoading" /\ ~Missing /\ page' = page /\ log' = log
        /\ loadTimes' = Append(loadTimes, result)
    BY <1>2, Along DEF Check, Goto
  <2>2. /\ Len(loadTimes') = page /\ log = None /\ DOMAIN loadTimes' = 1..page
        /\ \A k \in 1..(page - 1) : k \in DOMAIN loadTimes /\ loadTimes'[k] = loadTimes[k]
        /\ loadTimes'[page] = result
    BY <2>1, RowAppended
  <2>3. Row(loadTimes', page)
    <3>1. result.nav \in Documents /\ result.dur \in Documents
      BY <2>1, ResultFields DEF Missing
    <3>2. result.nav <= result.dur /\ result.dur <= doc
      BY <2>1 DEF ResultInv, Missing
    <3>3. result.dur <= page
      BY <3>1, <3>2, Numbers, DocumentNumbers DEF DocumentInv
    <3> QED
      BY <2>2, <3>1, <3>2, <3>3
  <2>4. \A k \in 1..(page - 1) : Row(loadTimes', k)
    BY <1>0, <2>2
  <2>5. \A k \in 1..page : k \in 1..(page - 1) \/ k = page
    BY Numbers
  <2>6. Rows'
    BY <2>2, <2>3, <2>4, <2>5
  <2>7. Counts'
    BY <2>1, <2>2 DEF Connected, Stopping, Measuring, ResultLoop, Closing
  <2> QED
    BY <1>3, <2>6, <2>7
<1> QED
  BY <1>1, <1>2

\* A page on its way is newer than the document, and there is none at a new turn.
LEMMA DocumentStep ==
  ASSUME ScriptTypes, RowsInv, DocumentInv, [Next]_vars
  PROVE  DocumentInv'
<1> DEFINE Way == {"wait", "stopLoading"} \cup ResultLoop \cup Ended
<1>1. CASE Signal
  <2>1. UNCHANGED <<doc, nav>> /\ nav = None
    BY <1>1 DEF Signal, chrome, DocumentInv, ResultLoop, Ended
  <2>2. (page' = page /\ pc' = "closing") \/ page' = page + 1
    BY <1>1 DEF Signal, Goto
  <2> QED
    BY <2>1, <2>2, Numbers DEF DocumentInv
<1>2. CASE Navigate
  <2>1. doc' = doc /\ page' = page /\ pc' \in {"wait", "exception"} /\ doc < page
        /\ nav' \in {page, nav}
    BY <1>2 DEF Navigate, Goto, DocumentInv
  <2> QED
    BY <2>1, Numbers DEF DocumentInv, Ended
<1>3. CASE Chrome
  <2>1. page' = page /\ pc' = pc
    BY <1>3 DEF Chrome, script, pages
  <2>2. UNCHANGED <<doc, nav>> \/ (nav # None /\ doc' = nav /\ nav' = None)
    BY <1>3 DEF Chrome, Listen, Die, Commit, LoadEvent
  <2> QED
    BY <2>1, <2>2, Numbers DEF DocumentInv, ResultLoop, Ended
<1>4. CASE ~Signal /\ ~Navigate /\ ~Chrome
  <2>1. page' = page /\ doc' = doc /\ nav' \in {nav, None}
    BY <1>4, Along DEF Launch, WaitEvent, StopLoading, Kill, chrome
  <2>2. nav' # None => pc' \in Way
    BY <2>1, Places DEF DocumentInv, ResultLoop, Ended
  <2>3. pc' = "navigate" => pc = "navigate"
    BY <2>1, Numbers, Places
  <2> QED
    BY <2>1, <2>2, <2>3 DEF DocumentInv
<1> QED
  BY <1>1, <1>2, <1>3, <1>4

\* The evaluations of a page, one answer at a time.
LEMMA ResultStep ==
  ASSUME ScriptTypes, RowsInv, DocumentInv, ResultInv, [Next]_vars
  PROVE  ResultInv'
<1> USE DEF ResultLoop, Goto
<1>1. CASE Navigate
  <2>1. pc' \in {"wait", "exception"} /\ result' = NoResult /\ event' = None /\ page' = page
    BY <1>1 DEF Navigate
  <2> QED
    BY <2>1, Numbers DEF ResultInv
<1>2. CASE WaitEvent
  <2>1. /\ pc = "wait" /\ pc' \in {"start", "exception"}
        /\ UNCHANGED <<page, result, doc, loaded>>
        /\ pc' = "start" => woke' \in {event, None}
    BY <1>2 DEF WaitEvent
  <2>2. result.nav = None /\ result.dur = None
    BY <2>1, NoResultType DEF ResultInv
  <2> QED
    BY <2>1, <2>2, Numbers DEF ResultInv
<1>3. CASE EvaluateStart
  <2>1. /\ pc = "start" /\ pc' = "duration" /\ UNCHANGED <<page, woke, doc, loaded>>
        /\ result'.nav = doc /\ result'.dur = result.dur
    BY <1>3 DEF EvaluateStart, chrome, ScriptTypes, ResultTypes, Results
  <2> QED
    BY <2>1, Numbers DEF ResultInv
<1>4. CASE EvaluateDuration
  <2>1. /\ pc = "duration" /\ pc' = "check" /\ UNCHANGED <<page, woke, doc, loaded>>
        /\ result'.nav = result.nav /\ result'.dur = IF loaded THEN doc ELSE Zero
    BY <1>4 DEF EvaluateDuration, chrome, ScriptTypes, ResultTypes, Results
  <2> QED
    BY <2>1, Numbers DEF ResultInv
<1>5. CASE Chrome
  <2>1. UNCHANGED <<pc, page, result, woke>>
    BY <1>5 DEF Chrome, script, pages
  <2>2. \/ UNCHANGED <<doc, loaded, event>>
        \/ nav # None /\ doc' = nav /\ UNCHANGED event
        \/ UNCHANGED doc /\ loaded' = TRUE /\ event' \in {event, doc}
    BY <1>5 DEF Chrome, Listen, Die, Commit, LoadEvent
  <2> QED
    BY <2>1, <2>2, Numbers DEF ResultInv, DocumentInv
<1>6. CASE ~(Navigate \/ WaitEvent \/ EvaluateStart \/ EvaluateDuration \/ Chrome)
  <2>1. UNCHANGED <<result, woke, doc, loaded, event>>
    BY <1>6, Along DEF Launch, StopLoading, Kill, chrome
  <2>2. CASE pc' = pc
    <3>1. page' = page
      BY <2>2, Along DEF Signal
    <3> QED
      BY <2>1, <2>2, <3>1 DEF ResultInv
  <2>3. CASE pc' # pc
    <3>1. page' = page \/ pc' = "navigate"
      BY Along DEF Signal
    <3>2. \/ pc' \notin {"wait"} \cup ResultLoop
          \/ pc \in {"start", "duration"} /\ pc' = "check"
          \/ pc = "check" /\ pc' = "start" /\ Missing
      BY <1>6, <2>3, Places
    <3> QED
      BY <2>1, <2>3, <3>1, <3>2, Numbers DEF ResultInv, Missing
  <2> QED
    BY <2>2, <2>3
<1> QED
  BY <1>1, <1>2, <1>3, <1>4, <1>5, <1>6

\* A page whose own event was seen is recorded with its own numbers.
LEMMA ResultOfPageStep ==
  ASSUME ScriptTypes, ResultInv, ResultOfPage, [Next]_vars
  PROVE  ResultOfPage'
<1> SUFFICES ASSUME pc' = "stopLoading", woke' = page'
             PROVE  result' = [nav |-> page', dur |-> page']
  BY DEF ResultOfPage
<1>1. pc \in {"stopLoading", "check"} /\ pc' # pc => pc = "check"
  BY Places
<1>2. UNCHANGED <<page, result, woke>>
  BY <1>1, Along DEF Signal, Navigate, WaitEvent, EvaluateStart, EvaluateDuration, Goto
<1>3. CASE pc = "stopLoading"
  BY <1>2, <1>3 DEF ResultOfPage
<1>4. CASE pc = "check"
  <2>1. ~Missing
    BY <1>4, Places
  <2>2. result.nav = page /\ result.dur = page
    BY <1>2, <1>4, <2>1 DEF ResultInv, ResultLoop, Missing
  <2>3. result = [nav |-> result.nav, dur |-> result.dur]
    BY DEF ScriptTypes, ResultTypes, Results
  <2> QED
    BY <1>2, <2>2, <2>3
<1> QED
  BY <1>1, <1>3, <1>4, Places
\* Masks are drawn in the loops over the sets only.
LEMMA Draws ==
  ASSUME [Next]_vars
  PROVE  drawn' = drawn \/ pc \in {"self test", "initIpc", "randomize"}
<1> USE DEF ipcVars
<1>1. CASE TestStep \/ CallInitIpc \/ IpcLoop
  BY <1>1 DEF TestStep, CallInitIpc, IpcLoop
<1>2. CASE AddSet
  BY <1>2 DEF AddSet, addSet, Raise
<1>3. CASE Prepare
  BY <1>3 DEF Prepare, Allocate
<1>4. CASE CallRandomizeMasks
  BY <1>4 DEF CallRandomizeMasks, randomizeMasks, Raise
<1>5. CASE LeaveInitIpc \/ Launch \/ Connect \/ Retry \/ Signal \/ Navigate \/ WaitEvent
  BY <1>5 DEF LeaveInitIpc, Launch, Connect, Retry, Signal, Navigate, WaitEvent
<1>6. CASE EvaluateStart \/ EvaluateDuration \/ EvaluateRaises \/ Check \/ StopLoading
             \/ LeaveRandomize \/ Close \/ Kill \/ WriteLog
  BY <1>6 DEF EvaluateStart, EvaluateDuration, EvaluateRaises, Check, StopLoading,
              LeaveRandomize, Close, Kill, WriteLog
<1>7. CASE Chrome \/ UNCHANGED vars
  BY <1>7 DEF Chrome, vars
<1> QED
  BY <1>1, <1>2, <1>3, <1>4, <1>5, <1>6, <1>7 DEF Next, Script, Terminating

\* While a page is on its way nothing is drawn, and nothing else is told.
LEMMA RoundHolds ==
  ASSUME RoundInv, [Next]_vars, Loading
  PROVE  told = drawn /\ UNCHANGED <<told, drawn>>
<1>1. told = drawn /\ browser # "none"
  BY DEF RoundInv, Loading
<1>2. pc \notin {"sets", "self test", "initIpc", "launch", "stopped", "randomize"}
  BY <1>1 DEF RoundInv
<1>3. drawn' = drawn
  BY <1>2, Draws
<1>4. UNCHANGED told \/ told' = drawn
  BY Along DEF Launch, Navigate, WaitEvent, StopLoading, Kill, Chrome, Listen, Die, Commit,
               LoadEvent, Signal, chrome
<1> QED
  BY <1>1, <1>3, <1>4

\* A page comes on its way by a launch or a navigation only, of masks that were told.
LEMMA Departs ==
  ASSUME ScriptTypes, [Next]_vars, ~Loading, Loading'
  PROVE  (Launch /\ told' = drawn) \/ (Navigate /\ UNCHANGED told)
<1>1. CASE Launch
  BY <1>1 DEF Launch, Loading
<1>2. CASE Navigate
  BY <1>2 DEF Navigate
<1>3. CASE WaitEvent \/ StopLoading \/ Kill
  <2>1. loaded \in BOOLEAN
    BY DEF ScriptTypes, ChromeTypes
  <2>2. CASE StopLoading
    BY <2>1, <2>2 DEF StopLoading, Loading
  <2>3. CASE WaitEvent \/ Kill
    BY <2>3 DEF WaitEvent, Kill, Loading
  <2> QED
    BY <1>3, <2>2, <2>3
<1>4. CASE Chrome
  BY <1>4 DEF Chrome, Listen, Die, Commit, LoadEvent, Loading
<1>5. CASE UNCHANGED <<browser, nav, doc, loaded, stopped, event>>
  BY <1>5 DEF Loading
<1> QED
  BY <1>1, <1>2, <1>3, <1>4, <1>5, Along DEF chrome

\* From the launch on every page is sent under masks that were told.
LEMMA RoundStep ==
  ASSUME ScriptTypes, RoundInv, [Next]_vars
  PROVE  RoundInv'
<1> DEFINE Before == {"sets", "self test", "initIpc", "launch"}
<1>1. ASSUME pc' \in Before PROVE browser' = "none"
  <2>1. pc \in Before /\ browser = "none"
    BY <1>1, Places DEF RoundInv
  <2>2. ~Launch
    BY <1>1 DEF Launch, Goto
  <2> QED
    BY <2>1, <2>2, Along DEF Navigate, WaitEvent, StopLoading, Kill, Chrome, Listen, Die,
                             Commit, LoadEvent, chrome
<1>2. ASSUME pc' = "navigate" PROVE told' = drawn'
  <2>1. CASE pc = "navigate"
    <3>1. drawn' = drawn /\ told = drawn
      BY <2>1, Draws DEF RoundInv
    <3> QED
      BY <2>1, <3>1, Along DEF Launch, Navigate, WaitEvent, StopLoading, Kill, Chrome, Listen,
                               Die, Commit, LoadEvent, Signal, chrome
  <2>2. CASE pc # "navigate"
    <3>1. pc = "signal" /\ Signal
      BY <1>2, <2>2, Places
    <3> QED
      BY <3>1, Draws DEF Signal
  <2> QED
    BY <2>1, <2>2
<1>3. ASSUME pc' \in {"stopped", "randomize"} PROVE ~Loading'
  <2>1. CASE pc = "stopLoading"
    <3>1. StopLoading
      BY <1>3, <2>1, Places
    <3> QED
      BY <1>3, <2>1, <3>1 DEF StopLoading, Goto, Loading, ScriptTypes, ChromeTypes
  <2>2. CASE pc # "stopLoading"
    <3>1. ~Loading
      BY <1>3, <2>2, Places DEF RoundInv
    <3>2. ~Launch /\ ~Navigate
      BY <1>3 DEF Launch, Navigate, Goto
    <3> QED
      BY <3>1, <3>2, Departs
  <2> QED
    BY <2>1, <2>2
<1>4. ASSUME Loading' PROVE told' = drawn'
  <2>1. CASE Loading
    BY <2>1, RoundHolds
  <2>2. CASE ~Loading /\ Launch
    BY <1>4, <2>2, Departs, Draws DEF Launch, ipcVars, Navigate
  <2>3. CASE ~Loading /\ Navigate
    BY <2>3, Draws DEF Navigate, RoundInv
  <2> QED
    BY <1>4, <2>1, <2>2, <2>3, Departs
<1> QED
  BY <1>1, <1>2, <1>3, <1>4 DEF RoundInv
-----------------------------------------------------------------------------
(* The theorems *)

LEMMA InitInv == Init => IInv
<1> SUFFICES ASSUME Init PROVE IInv
  OBVIOUS
<1>1. /\ pc \in {"sets", "self test"} /\ adds = 0
      /\ single \in BOOLEAN /\ listed \in BOOLEAN /\ display \in BOOLEAN
      /\ retries = Retries /\ page = 0 /\ result = NoResult /\ woke = None
      /\ loadTimes = <<>> /\ log = None /\ browser = "none"
      /\ nav = None /\ doc = 0 /\ loaded = FALSE /\ stopped = FALSE /\ event = None
      /\ functionSetList = <<>> /\ globalSet = {} /\ ipcWritable = FALSE /\ op = "none"
      /\ i = 1 /\ raised = FALSE
  BY DEF Init, IpcInit
<1>2. <<>> \in Seq(Results) /\ <<>> \in Seq(FunctionSets) /\ Len(<<>>) = 0
  BY EmptySeq
<1>3. DOMAIN <<>> = {}
  OBVIOUS
<1>4. ScriptTypes
  <2>1. PcType /\ FlagTypes
    BY <1>1 DEF PcType, FlagTypes
  <2>2. AddsType /\ RetriesType /\ PageType
    <3>1. adds = 0 /\ retries = Retries /\ page = 0
      BY <1>1
    <3> QED
      BY ONLY <3>1, Bounds DEF AddsType, RetriesType, PageType
  <2>3. ResultTypes
    BY <1>1, NoResultType DEF ResultTypes
  <2>4. RowTypes
    <3>1. loadTimes = <<>> /\ log = None
      BY <1>1
    <3> QED
      BY ONLY <1>2, <3>1, Bounds DEF RowTypes
  <2>5. ChromeTypes
    <3>1. 0 \in Documents
      BY Bounds DEF Documents
    <3> QED
      BY <1>1, <3>1 DEF ChromeTypes
  <2> QED
    BY <2>1, <2>2, <2>3, <2>4, <2>5 DEF ScriptTypes
<1>5. IpcTypes
  <2>1. 1 \in 1..(Len(functionSetList) + 1)
    BY <1>1, <1>2, LoopStart
  <2> QED
    BY <1>1, <1>2, <2>1 DEF IpcTypes
<1>6. OneSetPerFunction
  BY <1>1, <1>3 DEF OneSetPerFunction
<1>7. LoopInv
  BY <1>1 DEF LoopInv
<1>8. pc \notin Connected \cup Ended
  BY <1>1 DEF Connected, Stopping, Measuring, Closing, ResultLoop, Ended
<1>9. DisplayInv
  <2>1. browser = "none" /\ page = 0
    BY <1>1
  <2> QED
    BY ONLY <1>8, <2>1 DEF DisplayInv
<1>10. RowsInv
  BY <1>1, <1>3, <1>8 DEF RowsInv, Connected
<1>11. DocumentInv
  <2>1. doc = 0 /\ page = 0 /\ nav = None /\ pc # "navigate"
    BY <1>1
  <2> QED
    BY ONLY <2>1 DEF DocumentInv
<1>12. ResultInv /\ ResultOfPage
  BY <1>1 DEF ResultInv, ResultOfPage, ResultLoop
<1>13. RoundInv
  <2>1. browser = "none" /\ pc \in {"sets", "self test"}
    BY <1>1
  <2> QED
    BY ONLY <2>1 DEF RoundInv, Loading
<1> QED
  BY <1>4, <1>5, <1>6, <1>7, <1>9, <1>10, <1>11, <1>12, <1>13, TypeParts DEF IInv

LEMMA StepInv == IInv /\ [Next]_vars => IInv'
<1> SUFFICES ASSUME IInv, [Next]_vars PROVE IInv'
  OBVIOUS
<1>1. ScriptTypes /\ IpcTypes
  BY TypeParts DEF IInv
<1>2. ScriptTypes' /\ IpcTypes'
  BY <1>1, TypesStep, IpcAlong DEF IInv
<1>3. TypeOK'
  BY <1>2, TypeParts
<1>4. OneSetPerFunction' /\ LoopInv' /\ DisplayInv'
  BY <1>1, DisjointStep, LoopStep, DisplayStep DEF IInv
<1>5. RowsInv' /\ DocumentInv' /\ ResultInv' /\ ResultOfPage'
  BY <1>1, RowsStep, DocumentStep, ResultStep, ResultOfPageStep DEF IInv
<1>6. RoundInv'
  BY <1>1, RoundStep DEF IInv
<1> QED
  BY <1>3, <1>4, <1>5, <1>6 DEF IInv

\* The invariant of the script, its interface and the browser is inductive.
THEOREM Inductive == Spec => []IInv
BY InitInv, StepInv, PTL DEF Spec

\* In every reachable state the variables have their types.
THEOREM TypeCorrect == Spec => []TypeOK
<1>1. IInv => TypeOK
  BY DEF IInv
<1> QED
  BY <1>1, Inductive, PTL

\* addSet: through any calls, of any lists, accepted or refused half-way, every function
\* is in at most one of the sets and globalSet is their union.
THEOREM OneSet == Spec => []OneSetPerFunction
<1>1. IInv => OneSetPerFunction
  BY DEF IInv
<1> QED
  BY <1>1, Inductive, PTL

\* The page loop: a page whose own load event ended the wait is recorded with its own
\* times, for any number of pages and of retries.
THEOREM PageResult == Spec => []ResultOfPage
<1>1. IInv => ResultOfPage
  BY DEF IInv
<1> QED
  BY <1>1, Inductive, PTL

\* stopLoading before randomizeMasks: a page loads under one round of masks, which every
\* process was told of before the navigation, whatever ended the wait for its event.
THEOREM OneRound == Spec => LoadsUnderOneRound
<1>1. IInv /\ [Next]_vars => [Loading => told = drawn /\ UNCHANGED <<told, drawn>>]_vars
  BY RoundHolds DEF IInv
<1> QED
  BY <1>1, Inductive, PTL DEF Spec, LoadsUnderOneRound

\* pageloads.log: one row for each page, of reported numbers, never of documents that
\* are newer than the page's turn.
THEOREM Complete == Spec => []CompleteLog
<1>1. IInv => CompleteLog
  <2> SUFFICES ASSUME IInv, log # None PROVE /\ Len(log) = Pages
        /\ \A k \in Turns : /\ log[k].nav \in Documents /\ log[k].dur \in Documents
                            /\ log[k].nav <= log[k].dur /\ log[k].dur <= k
    BY DEF CompleteLog
  <2>1. log = loadTimes /\ loadTimes \in Seq(Results) /\ Len(loadTimes) = Pages
    BY DEF IInv, TypeOK, RowsInv
  <2>2. DOMAIN loadTimes = Turns
    BY <2>1, LenProperties DEF Turns
  <2> QED
    BY <2>1, <2>2 DEF IInv, RowsInv
<1> QED
  BY <1>1, Inductive, PTL

\* procIsAlive: no page is navigated to without a display server that somebody else
\* started.
THEOREM Display == Spec => []NeedsDisplay
<1>1. IInv => NeedsDisplay
  BY DEF IInv, DisplayInv, NeedsDisplay
<1> QED
  BY <1>1, Inductive, PTL
=============================================================================
