---------------------------- MODULE IpcInterface ----------------------------
(***************************************************************************)
(* The layout of the shared file: ExperimentInterface and FunctionSet of   *)
(* ipc.py write it, tokenize and ipc_update_funcmap of ipc.cc read it.     *)
(* initIpc writes the count of FunctionSets and each set's two masks,      *)
(* number of functions and names, one to a line, and remembers where each  *)
(* set ended; randomizeMasks later writes new masks at those offsets.      *)
(*                                                                         *)
(* The file maps the offset of a line to the line: writing over part of a  *)
(* line leaves a hole, in which nothing can be parsed.  The interleaving   *)
(* of these writes with the readers is the subject of MaskRefresh; here    *)
(* one FunctionSet is written at a time.                                   *)
(***************************************************************************)
EXTENDS Integers, SequencesExt, FiniteSetsExt

CONSTANTS FunctionSets,  \* the FunctionSet objects
          entryConfig, exitConfig,  \* their <<little, big>>
          functions,     \* their sets of names
          NameLen,       \* length of each name
          PageSize,      \* of the memory the file is mapped to
          None           \* Python's None

ASSUME IpcInterfaceAssumption ==
    /\ \A s \in FunctionSets : entryConfig[s] \in (0..4) \X (0..4)
                               /\ exitConfig[s] \in (0..4) \X (0..4)
                               /\ IsFiniteSet(functions[s])
                               /\ \A f \in functions[s] : NameLen[f] \in Nat
    /\ None \notin Nat

VARIABLES
    functionSetList, \* the sets added, in order
    globalSet,       \* the union of their functions
    ipcWritable,     \* initIpc has been called
    offset,          \* the attribute _offset of each FunctionSet
    file,            \* the lines by their offsets
    op,              \* the call that is in its loop over the sets
    i,               \* the index of that loop
    pos,             \* where the file is written next
    drawn,           \* the masks last written for each set
    raised           \* the last call ended in an exception

ipcVars == <<functionSetList, globalSet, ipcWritable, offset, file, op, i, pos,
             drawn, raised>>
-----------------------------------------------------------------------------
(* Data *)

Names == UNION {functions[s] : s \in FunctionSets}

\* '1' at position c of a mask of eight characters is core c, both ways.
Little == 0..3
Big    == 4..7
Cores  == Little \cup Big
maskFromConfig(c) == {l \cup b : l \in kSubset(c[1], Little), b \in kSubset(c[2], Big)}

Digits(n) == IF n < 10 THEN 1 ELSE IF n < 100 THEN 2 ELSE 3

Number(n) == <<"number", n>>
Mask(m)   == <<"mask", m>>
Name(f)   == <<"name", f>>
Blank     == <<"blank">>
Torn      == <<"torn">>  \* what is left of a line that was written over

\* Bytes of a line, with its newline.
LineSize(line) == 1 + CASE line[1] = "number" -> Digits(line[2])
                        [] line[1] = "mask"   -> 8
                        [] line[1] = "name"   -> NameLen[line[2]]
                        [] line[1] = "blank"  -> 0

\* FunctionSet.bytes: a set without functions gets an empty line for their names.
bytes(s, entry, exit) ==
    LET names == SetToSeq(functions[s]) IN
    <<Mask(entry), Mask(exit), Number(Len(names))>>
        \o (IF names = <<>> THEN <<Blank>> ELSE [k \in DOMAIN names |-> Name(names[k])])

\* The offsets of lines written from p on, and the offset after the last one.
LineOffsets(p, lines) ==
    LET Offset[k \in 1..(Len(lines) + 1)] ==
            IF k = 1 THEN p ELSE Offset[k - 1] + LineSize(lines[k - 1])
    IN Offset

End(p, lines) == LineOffsets(p, lines)[Len(lines) + 1]

\* The file with lines written from p on: what they overlap is destroyed.
WriteLines(p, lines) ==
    LET at   == LineOffsets(p, lines)
        kept == {q \in DOMAIN file : q + LineSize(file[q]) <= p \/ at[Len(at)] <= q}
    IN [q \in kept \cup {at[k] : k \in DOMAIN lines} |->
           IF q \in kept THEN file[q] ELSE lines[CHOOSE k \in DOMAIN lines : at[k] = q]]

\* The length of a set does not depend on the masks that len draws for it.
SetSize(s) == End(0, bytes(s, {}, {}))

\* The sizes of the first sets, added up.
SetSums ==
    LET Sum[k \in 0..Len(functionSetList)] ==
            IF k = 0 THEN 0 ELSE Sum[k - 1] + SetSize(functionSetList[k])
    IN Sum

SumOfSets == SetSums[Len(functionSetList)]

\* Mutant: the count's newline is forgotten.
getSizeNoNewline == SumOfSets + Digits(Len(functionSetList))

\* getSize: the byte added as `EOF' is the newline after the count.
getSize == SumOfSets + Digits(Len(functionSetList)) + 1
-----------------------------------------------------------------------------
(* ipc.cc: the map a process reads from the file; the script sizes the file by *)
(* getSize, once, and adds no set afterwards.                                  *)

size == getSize

\* tokenize: lines up to the zeros that fill the last page.
tokenize ==
    LET end == size
        From[p \in 0..end] ==
            IF p = end THEN <<>>
            ELSE IF p \notin DOMAIN file THEN <<Torn>>
            ELSE IF p + LineSize(file[p]) > end THEN <<Torn>>
            ELSE <<file[p]>> \o From[p + LineSize(file[p])]
    IN From[0]

Is(kind, lines, n) == n \in DOMAIN lines /\ lines[n][1] = kind

\* The lines of one set, from line n on.
IsSet(lines, n) == /\ Is("mask", lines, n) /\ Is("mask", lines, n + 1)
                   /\ Is("number", lines, n + 2)
                   /\ \A j \in 1..lines[n + 2][2] : Is("name", lines, n + 2 + j)

\* A turn of the loop over the sets: m is the next line and the map so far, unless an
\* exception of stoi or an access past the lines has ended the loop.
ReadSet(lines, m) ==
    LET count == lines[m.line + 2][2]
        fs    == {lines[m.line + 2 + j][2] : j \in 1..count}
    IN IF ~m.ok \/ ~IsSet(lines, m.line) THEN [m EXCEPT !.ok = FALSE]
       ELSE [ok   |-> TRUE,
             line |-> m.line + 3 + count,
             map  |-> [f \in DOMAIN m.map \cup fs |->
                         IF f \in fs THEN <<lines[m.line][2], lines[m.line + 1][2]>>
                                     ELSE m.map[f]]]

\* ipc_update_funcmap; None is one of those exceptions.
ipc_update_funcmap ==
    LET lines == IF size % PageSize = 0 THEN <<Torn>> ELSE tokenize  \* no NUL at the end
        After[n \in 0..lines[1][2]] ==
            IF n = 0 THEN [ok |-> TRUE, line |-> 2, map |-> [f \in {} |-> None]]
                     ELSE ReadSet(lines, After[n - 1])
        final == After[lines[1][2]]
    IN IF Is("number", lines, 1) /\ final.ok THEN final.map ELSE None
-----------------------------------------------------------------------------
(* The calls of ipc.py; a call that raises keeps what it did before. *)

IpcInit ==
    /\ functionSetList = <<>>
    /\ globalSet = {}
    /\ ipcWritable = FALSE
    /\ offset = [s \in FunctionSets |-> None]
    /\ file = <<>>
    /\ op = "none" /\ i = 1 /\ pos = 0
    /\ drawn = [s \in FunctionSets |-> <<{}, {}>>]
    /\ raised = FALSE

Idle == op = "none"

Raise == raised' = TRUE /\ UNCHANGED <<functionSetList, globalSet, ipcWritable, offset,
                                       file, op, i, pos, drawn>>

\* The j-th set shares no function with the sets before it.
Fits(fSet, j) ==
    functions[fSet[j]] \cap (globalSet \cup UNION {functions[fSet[k]] : k \in 1..(j - 1)}) = {}

\* Mutant: the list is extended before the test.
_addSetAnyway(fSet, n) ==
    /\ \A j \in 1..(n - 1) : Fits(fSet, j)
    /\ n < Len(fSet) => n > 0 /\ ~Fits(fSet, n)

\* _addSet takes n of the sets; sets after a rejected one are not tried.
_addSet(fSet, n) ==
    /\ \A j \in 1..n : Fits(fSet, j)
    /\ n < Len(fSet) => ~Fits(fSet, n + 1)

\* addSet of one FunctionSet or of a list of them.
addSet(fSet) ==
    /\ Idle
    /\ IF ipcWritable THEN Raise
       ELSE \E n \in 0..Len(fSet) :
               /\ _addSet(fSet, n)
               /\ functionSetList' = functionSetList \o SubSeq(fSet, 1, n)
               /\ globalSet' = globalSet \cup UNION {functions[fSet[k]] : k \in 1..n}
               /\ raised' = (n < Len(fSet))
               /\ UNCHANGED <<ipcWritable, offset, file, op, i, pos, drawn>>

\* The file is made of zeros, or an existing one of the right size is taken as it is.
Allocate(content) ==
    /\ Idle
    /\ file' = content
    /\ UNCHANGED <<functionSetList, globalSet, ipcWritable, offset, op, i, pos, drawn, raised>>

initIpc ==
    /\ Idle
    /\ IF ipcWritable THEN Raise
       ELSE LET count == <<Number(Len(functionSetList))>> IN
            /\ ipcWritable' = TRUE
            /\ file' = WriteLines(0, count)
            /\ op' = "init" /\ i' = 1 /\ pos' = End(0, count)
            /\ raised' = FALSE
            /\ UNCHANGED <<functionSetList, globalSet, offset, drawn>>

\* One set is written; setOffset refuses to set an offset again.
initIpcSet ==
    /\ op = "init" /\ i <= Len(functionSetList)
    /\ LET s == functionSetList[i] IN
         \E entry \in maskFromConfig(entryConfig[s]), exit \in maskFromConfig(exitConfig[s]) :
            /\ file' = WriteLines(pos, bytes(s, entry, exit))
            /\ drawn' = [drawn EXCEPT ![s] = <<entry, exit>>]
            /\ IF offset[s] = None
               THEN /\ offset' = [offset EXCEPT ![s] = End(pos, bytes(s, entry, exit))]
                    /\ i' = i + 1 /\ pos' = offset'[s]
                    /\ UNCHANGED <<op, raised>>
               ELSE /\ op' = "none" /\ i' = 1 /\ pos' = 0
                    /\ raised' = TRUE
                    /\ UNCHANGED offset
    /\ UNCHANGED <<functionSetList, globalSet, ipcWritable>>

randomizeMasks ==
    /\ Idle
    /\ IF ~ipcWritable THEN Raise
       ELSE /\ op' = "randomize" /\ i' = 1
            /\ pos' = Digits(Len(functionSetList)) + 1
            /\ raised' = FALSE
            /\ UNCHANGED <<functionSetList, globalSet, ipcWritable, offset, file, drawn>>

\* One set's masks are written, then the next offset is fetched: a set that initIpc
\* did not reach has none.
randomizeMasksSet ==
    /\ op = "randomize" /\ i <= Len(functionSetList)
    /\ LET s == functionSetList[i] IN
         \E entry \in maskFromConfig(entryConfig[s]), exit \in maskFromConfig(exitConfig[s]) :
            /\ file' = WriteLines(pos, <<Mask(entry), Mask(exit)>>)
            /\ drawn' = [drawn EXCEPT ![s] = <<entry, exit>>]
            /\ IF offset[s] # None
               THEN i' = i + 1 /\ pos' = offset[s] /\ UNCHANGED <<op, raised>>
               ELSE op' = "none" /\ i' = 1 /\ pos' = 0 /\ raised' = TRUE
    /\ UNCHANGED <<functionSetList, globalSet, ipcWritable, offset>>

\* The loop over the sets has ended.
endLoop ==
    /\ op # "none" /\ i > Len(functionSetList)
    /\ op' = "none" /\ i' = 1 /\ pos' = 0
    /\ UNCHANGED <<functionSetList, globalSet, ipcWritable, offset, file, drawn, raised>>

ipcStep == initIpcSet \/ randomizeMasksSet \/ endLoop
-----------------------------------------------------------------------------
(* Whatever calls were made, accepted or refused, between its calls the interface  *)
(* has every function in at most one of its sets and globalSet is their union     *)
(* (the promise of the docstring of globalSet, through lists refused half-way).   *)
OneSetPerFunction ==
    /\ globalSet = UNION {functions[functionSetList[k]] : k \in DOMAIN functionSetList}
    /\ \A j, k \in DOMAIN functionSetList :
          j # k => functions[functionSetList[j]] \cap functions[functionSetList[k]] = {}

(* Whatever was added, and whatever was in the file before, nothing is written  *)
(* beyond the bytes getSize counted for the mapping, and the next set is written *)
(* within them (nothing else keeps the script inside its file).                 *)
InsideTheFile ==
    /\ pos \in 0..size
    /\ \A q \in DOMAIN file : q >= 0 /\ q + LineSize(file[q]) <= size
    /\ \A s \in FunctionSets : offset[s] \in (0..size) \cup {None}

\* A NUL after the file, and no empty line in it: only the last set may be without
\* functions.
WellFormed ==
    /\ size % PageSize # 0
    /\ \A k \in DOMAIN functionSetList : functions[functionSetList[k]] = {} => k = Len(functionSetList)

\* What the sets say a function's masks are.
Assigned == [f \in globalSet |->
                drawn[CHOOSE s \in ToSet(functionSetList) : f \in functions[s]]]

(* After initIpc and after any number of randomizeMasks a process that reads the   *)
(* file gets exactly the functions that were added, each with the masks last      *)
(* drawn for its set: offsets, sizes and the two parsers agree, also on a file    *)
(* that another experiment left behind.  They do not when a set without functions *)
(* comes before another: tokenize keeps the empty line that nobody skips.         *)
ReadsWhatWasWritten ==
    ipcWritable /\ Idle /\ WellFormed => ipc_update_funcmap = Assigned
-----------------------------------------------------------------------------
(* The inductive invariant behind the last two *)

\* Where the k-th set begins.
SetStart(k) == Digits(Len(functionSetList)) + 1 + SetSums[k - 1]

\* Its lines with the masks last drawn for it.
SetLines(k) ==
    LET s == functionSetList[k] IN bytes(s, drawn[s][1], drawn[s][2])

\* This content has the lines from p on.
Holds(content, p, lines) ==
    \A j \in DOMAIN lines : LET q == LineOffsets(p, lines)[j]
                            IN q \in DOMAIN content /\ content[q] = lines[j]

\* What is in the file lies inside it.
FileInside == \A q \in DOMAIN file : /\ q \in Nat /\ LineSize(file[q]) \in Nat \ {0}
                                     /\ q + LineSize(file[q]) <= size

\* What has been written lies inside, and what is written next begins where some set
\* begins, no later than the set whose turn it is.
PlaceInv ==
    /\ offset \in [FunctionSets -> Nat \cup {None}]
    /\ drawn \in [FunctionSets -> (SUBSET Cores) \X (SUBSET Cores)]
    /\ FileInside
    /\ ~ipcWritable => op = "none" /\ \A s \in FunctionSets : offset[s] = None
    /\ op = "none" => pos = 0
    /\ op = "init" => /\ pos = SetStart(i)
                      /\ \A k \in 1..(i - 1) : offset[functionSetList[k]] # None
    /\ op = "randomize" => \E j \in 1..i : pos = SetStart(j)
    /\ \A s \in FunctionSets : offset[s] # None => s \in ToSet(functionSetList)
    /\ \A k \in DOMAIN functionSetList : offset[functionSetList[k]] # None =>
          \E j \in 1..k : offset[functionSetList[k]] = SetStart(j + 1)

Distinct == \A j, k \in DOMAIN functionSetList :
                j # k => functionSetList[j] # functionSetList[k]

\* Sets added once each lie one behind the other, each with the masks last drawn for it;
\* those initIpc has not reached have no offset yet.
LayoutInv ==
    Distinct /\ ipcWritable =>
        /\ Holds(file, 0, <<Number(Len(functionSetList))>>)
        /\ op = "randomize" => pos = SetStart(i)
        /\ \A k \in DOMAIN functionSetList :
              LET s == functionSetList[k] IN
              IF op = "init" /\ k >= i THEN offset[s] = None
              ELSE offset[s] = SetStart(k + 1) /\ Holds(file, SetStart(k), SetLines(k))
=============================================================================
