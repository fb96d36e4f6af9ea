------------------------ MODULE FunctionHooksProofs ------------------------
(***************************************************************************)
(* For any threads, functions, depth of nesting and number of refreshes,   *)
(* whatever the handler does to fmap meanwhile: fexit finds the start time *)
(* of its own call on the stack, the affinity of a thread is the mask of   *)
(* the call it is in or has returned from, and every latency reported is   *)
(* that of the call it is reported for (FunctionHooks implements           *)
(* CallTimer).                                                             *)
(***************************************************************************)
EXTENDS FunctionHooks, SequenceTheorems, TLAPS

USE FunctionHooksAssumption

-----------------------------------------------------------------------------
(* Stacks *)

(* What pushing on a stack does. *)
LEMMA Push ==
    ASSUME NEW S, NEW s \in Seq(S), NEW e \in S
    PROVE  /\ Append(s, e) \in Seq(S)
           /\ Append(s, e) # <<>>
           /\ Len(s) \in Nat
           /\ Len(Append(s, e)) = Len(s) + 1
           /\ Last(Append(s, e)) = e
           /\ \A i \in 1..Len(s) : Append(s, e)[i] = s[i]
BY AppendProperties, LenProperties DEF Last

(* A stack that is not empty has a top. *)
LEMMA Top ==
    ASSUME NEW S, NEW s \in Seq(S), s # <<>>
    PROVE  /\ Len(s) \in Nat \ {0}
           /\ Len(s) \in 1..Len(s)
           /\ Last(s) \in S
<1>1. Len(s) \in Nat \ {0}
  BY EmptySeq
<1>2. Len(s) \in 1..Len(s)
  BY <1>1, SMT
<1>3. s[Len(s)] \in S
  BY <1>2, ElementOfSeq
<1> QED
  BY <1>1, <1>2, <1>3 DEF Last

(* What popping a stack does. *)
LEMMA Pop ==
    ASSUME NEW S, NEW s \in Seq(S), s # <<>>
    PROVE  /\ Front(s) \in Seq(S)
           /\ Len(Front(s)) = Len(s) - 1
           /\ \A i \in 1..(Len(s) - 1) : Front(s)[i] = s[i]
<1>1. Len(s) \in Nat \ {0}
  BY EmptySeq
<1>2. \A i \in 1..(Len(s) - 1) : s[i] \in S
  <2> SUFFICES ASSUME NEW i \in 1..(Len(s) - 1) PROVE s[i] \in S
    OBVIOUS
  <2>1. i \in 1..Len(s)
    BY <1>1, SMT
  <2> QED
    BY <2>1, ElementOfSeq
<1>3. 1 \in Int /\ Len(s) - 1 \in Int
  BY <1>1, SMT
<1>4. /\ SubSeq(s, 1, Len(s) - 1) \in Seq(S)
      /\ Len(SubSeq(s, 1, Len(s) - 1))
            = IF 1 <= Len(s) - 1 THEN (Len(s) - 1) - 1 + 1 ELSE 0
      /\ \A i \in 1..((Len(s) - 1) - 1 + 1) :
            SubSeq(s, 1, Len(s) - 1)[i] = s[1 + i - 1]
  BY <1>2, <1>3, SubSeqProperties
<1>5. (Len(s) - 1) - 1 + 1 = Len(s) - 1
  BY <1>1, SMT
<1>6. \A i \in 1..(Len(s) - 1) : 1 + i - 1 = i
  BY <1>1, SMT
<1> QED
  BY <1>1, <1>4, <1>5, <1>6, SMT DEF Front

(* The call stack when the innermost wrapper has returned. *)
Returned(s) == [i \in 1..(Len(s) - 1) |->
                   IF i = Len(s) - 1 THEN [s[i] EXCEPT !.resumed = TRUE] ELSE s[i]]

(* It is one call shorter, holds the same functions, and its top is resumed. *)
LEMMA Return ==
    ASSUME NEW s \in Seq(Frames), s # <<>>
    PROVE  /\ Returned(s) \in Seq(Frames)
           /\ Len(Returned(s)) = Len(s) - 1
           /\ \A i \in 1..(Len(s) - 1) : /\ Returned(s)[i].fn = s[i].fn
                                         /\ Returned(s)[i].entry = s[i].entry
           /\ Returned(s) # <<>> => Last(Returned(s)).resumed
<1>1. Len(s) \in Nat \ {0} /\ Len(s) - 1 \in Nat
  <2>1. Len(s) \in Nat \ {0}
    BY EmptySeq
  <2> QED
    BY <2>1, SMT
<1>2. \A i \in 1..(Len(s) - 1) : s[i] \in Frames
  <2> SUFFICES ASSUME NEW i \in 1..(Len(s) - 1) PROVE s[i] \in Frames
    OBVIOUS
  <2>1. i \in 1..Len(s)
    BY <1>1, SMT
  <2> QED
    BY <2>1, ElementOfSeq
<1>3. \A c \in Frames : /\ [c EXCEPT !.resumed = TRUE] \in Frames
                        /\ [c EXCEPT !.resumed = TRUE].fn = c.fn
                        /\ [c EXCEPT !.resumed = TRUE].entry = c.entry
                        /\ [c EXCEPT !.resumed = TRUE].resumed
  BY DEF Frames
<1>4. Returned(s) \in [1..(Len(s) - 1) -> Frames]
  BY <1>2, <1>3 DEF Returned
<1>5. Returned(s) \in Seq(Frames)
  BY <1>1, <1>4, SeqDef
<1>6. Len(Returned(s)) = Len(s) - 1
  BY <1>1, <1>4, <1>5, LenProperties, SMT
<1>7. ASSUME Returned(s) # <<>> PROVE Last(Returned(s)).resumed
  <2>1. Len(s) - 1 \in 1..(Len(s) - 1)
    BY <1>5, <1>6, <1>7, Top
  <2>2. Last(Returned(s)) = [s[Len(s) - 1] EXCEPT !.resumed = TRUE]
    BY <1>6, <2>1 DEF Returned, Last
  <2> QED
    BY <1>2, <1>3, <2>1, <2>2
<1> QED
  BY <1>2, <1>3, <1>5, <1>6, <1>7 DEF Returned
-----------------------------------------------------------------------------
(* Types *)

(* At first no thread is in a call. *)
LEMMA InitInv == Init => IInv
<1> SUFFICES ASSUME Init PROVE IInv
  OBVIOUS
<1>1. /\ <<>> \in Seq(Frames) /\ <<>> \in Seq(0..MaxClock)
      /\ Len(<<>>) = 0
  BY EmptySeq
<1>2. /\ calls \in [Threads -> Seq(Frames)]
      /\ time_queue \in [Threads -> Seq(0..MaxClock)]
      /\ \A t \in Threads : Len(calls[t]) = 0
  BY <1>1 DEF Init
<1>2a. 0 <= MaxDepth
  BY SMT
<1>3. \A t \in Threads : Len(calls[t]) <= MaxDepth
  BY <1>2, <1>2a
<1>3a. /\ now \in 0..MaxClock /\ round \in 0..Rounds /\ snapshot \in 0..Rounds
       /\ latency \in [Threads -> 0..MaxClock]
       /\ fmap \in [Functions -> (0..Rounds) \cup {Absent, Zero}]
  BY SMT DEF Init
<1>3b. TypeOK
  BY <1>2, <1>3, <1>3a DEF Init, TypeOK
<1>4. QueueMatchesCalls
  BY <1>1 DEF Init, QueueMatchesCalls, Stamped
<1>5. StartedBefore
  BY <1>1, SMT DEF Init, StartedBefore
<1>6. InsideHooks /\ AffinityFollowsCalls
  BY DEF Init, InsideHooks, AffinityFollowsCalls
<1>7. EnteredBefore
  BY <1>1, SMT DEF Init, EnteredBefore
<1>8. MapOfSnapshot
  BY SMT DEF Init, MapOfSnapshot
<1> QED
  BY <1>3b, <1>4, <1>5, <1>6, <1>7, <1>8 DEF IInv

(* A lookup yields a mask of the function that is looked up, or none. *)
LEMMA Lookup ==
    ASSUME TypeOK, NEW f \in Functions, NEW side \in {"entry", "exit"}
    PROVE  /\ Found(f, side) \in Masks \cup {Zero}
           /\ Inserted(f) \in [Functions -> (0..Rounds) \cup {Absent, Zero}]
<1>1. fmap \in [Functions -> (0..Rounds) \cup {Absent, Zero}]
  BY DEF TypeOK
<1>2. fmap[f] \in {Absent, Zero} => Found(f, side) = Zero
  BY DEF Found
<1>3. fmap[f] \notin {Absent, Zero} =>
         /\ Found(f, side) = <<f, side, fmap[f]>>
         /\ Found(f, side) \in Masks
  BY <1>1 DEF Found, Masks
<1> QED
  BY <1>1, <1>2, <1>3 DEF Inserted

(* A mask that is found is of the round the process has read last. *)
LEMMA LookupRound ==
    ASSUME IInv, NEW f \in Functions, NEW side \in {"entry", "exit"},
           Found(f, side) # Zero
    PROVE  /\ snapshot \in 0..snapshot
           /\ Found(f, side) = <<f, side, snapshot>>
<1>1. snapshot \in 0..snapshot
  BY SMT DEF IInv, TypeOK
<1>2. fmap[f] \in {Absent, Zero, snapshot}
  BY DEF IInv, MapOfSnapshot
<1> QED
  BY <1>1, <1>2 DEF Found

(* The mask a thread is pinned to. *)
LEMMA PinnedMask ==
    ASSUME TypeOK, NEW t \in Threads
    PROVE  Pinned(t) \in Masks \cup {Unpinned}
BY DEF TypeOK, Pinned

(* The latency of a call that is past its entry hook is a number of ticks. *)
LEMMA Elapsed ==
    ASSUME IInv, NEW t \in Threads, at[t] = "run", calls[t] # <<>>
    PROVE  /\ time_queue[t] \in Seq(0..MaxClock)
           /\ time_queue[t] # <<>>
           /\ Len(time_queue[t]) = Len(calls[t])
           /\ Last(time_queue[t]) \in 0..now
           /\ now - Last(time_queue[t]) \in 0..MaxClock
<1>1. time_queue[t] \in Seq(0..MaxClock) /\ calls[t] \in Seq(Frames) /\ now \in 0..MaxClock
  BY DEF IInv, TypeOK
<1>2. Len(time_queue[t]) = Len(calls[t])
  BY DEF IInv, QueueMatchesCalls, Stamped
<1>3. time_queue[t] # <<>>
  <2>1. Len(calls[t]) \in Nat \ {0}
    BY <1>1, EmptySeq
  <2>2. Len(<<>>) = 0
    BY EmptySeq
  <2> QED
    BY <1>2, <2>1, <2>2
<1>4. /\ Last(time_queue[t]) \in 0..MaxClock
      /\ Len(time_queue[t]) \in 1..Len(time_queue[t])
  BY <1>1, <1>3, Top
<1>5. Last(time_queue[t]) <= now
  BY <1>4 DEF IInv, StartedBefore, Last
<1> QED
  BY <1>1, <1>2, <1>3, <1>4, <1>5, SMT

(* Every step keeps the types. *)
LEMMA TypeStep == IInv /\ [Next]_vars => TypeOK'
<1> SUFFICES ASSUME IInv, [Next]_vars PROVE TypeOK'
  OBVIOUS
<1>t. TypeOK
  BY DEF IInv
<1> USE DEF threadVars, mapVars
<1>0. CASE UNCHANGED vars
  BY <1>0, <1>t DEF vars, TypeOK
<1>1. ASSUME Tick PROVE TypeOK'
  <2>1. now' \in 0..MaxClock
    BY <1>1, <1>t, SMT DEF Tick, TypeOK
  <2> QED
    BY <1>1, <1>t, <2>1 DEF Tick, TypeOK
<1>2. ASSUME NEW t \in Threads, NEW f \in Functions, EnterLookup(t, f) PROVE TypeOK'
  <2>1. /\ Found(f, "entry") \in Masks \cup {Zero}
        /\ Inserted(f) \in [Functions -> (0..Rounds) \cup {Absent, Zero}]
    BY <1>t, Lookup
  <2> DEFINE frame == [fn |-> f, entry |-> Found(f, "entry"), resumed |-> FALSE]
  <2>2. frame \in Frames
    BY <2>1 DEF Frames
  <2>3. calls[t] \in Seq(Frames)
    BY <1>t DEF TypeOK
  <2>4. /\ Append(calls[t], frame) \in Seq(Frames)
        /\ Len(calls[t]) \in Nat
        /\ Len(Append(calls[t], frame)) = Len(calls[t]) + 1
    BY <2>2, <2>3, Push
  <2>5. calls' = [calls EXCEPT ![t] = Append(calls[t], frame)]
    BY <1>2 DEF EnterLookup
  <2> HIDE DEF frame
  <2>6. Len(Append(calls[t], frame)) <= MaxDepth
    BY <1>2, <2>4, SMT DEF EnterLookup
  <2>7. /\ calls' \in [Threads -> Seq(Frames)]
        /\ \A u \in Threads : Len(calls'[u]) <= MaxDepth
    BY <1>t, <2>4, <2>5, <2>6 DEF TypeOK
  <2>8. missed' \in [Threads -> BOOLEAN]
    BY <1>2, <1>t, Zenon DEF EnterLookup, TypeOK
  <2>9. mask' \in [Threads -> Masks \cup {Zero}]
    BY <1>2, <1>t, <2>1 DEF EnterLookup, TypeOK
  <2> QED
    BY <1>2, <1>t, <2>1, <2>7, <2>8, <2>9 DEF EnterLookup, TypeOK
<1>3. ASSUME NEW t \in Threads, EnterPin(t) PROVE TypeOK'
  <2>1. /\ time_queue[t] \in Seq(0..MaxClock)
        /\ now \in 0..MaxClock
    BY <1>t DEF TypeOK
  <2>2. Append(time_queue[t], now) \in Seq(0..MaxClock)
    BY <2>1, Push
  <2>3. Pinned(t) \in Masks \cup {Unpinned}
    BY <1>t, PinnedMask
  <2> QED
    BY <1>3, <1>t, <2>2, <2>3 DEF EnterPin, TypeOK
<1>4. ASSUME NEW t \in Threads, ExitStamp(t) PROVE TypeOK'
  <2>1. /\ time_queue[t] \in Seq(0..MaxClock)
        /\ time_queue[t] # <<>>
        /\ now - Last(time_queue[t]) \in 0..MaxClock
    BY <1>4, Elapsed DEF ExitStamp, Stamp
  <2>2. Front(time_queue[t]) \in Seq(0..MaxClock)
    BY <2>1, Pop
  <2> QED
    BY <1>4, <1>t, <2>1, <2>2 DEF ExitStamp, Stamp, TypeOK
<1>5. ASSUME NEW t \in Threads, ExitLookup(t) PROVE TypeOK'
  <2>1. Last(calls[t]) \in Frames
    BY <1>5, Top DEF IInv, TypeOK, InsideHooks, ExitLookup
  <2>2. PICK f \in Functions : f = Last(calls[t]).fn
    BY <2>1 DEF Frames
  <2>3. /\ Found(f, "exit") \in Masks \cup {Zero}
        /\ Inserted(f) \in [Functions -> (0..Rounds) \cup {Absent, Zero}]
    BY <1>t, Lookup
  <2> QED
    BY <1>5, <1>t, <2>2, <2>3 DEF ExitLookup, TypeOK
<1>6. ASSUME NEW t \in Threads, ExitPin(t) PROVE TypeOK'
  <2>1. calls[t] \in Seq(Frames) /\ calls[t] # <<>>
    BY <1>6 DEF IInv, TypeOK, InsideHooks, ExitPin
  <2>2. /\ Returned(calls[t]) \in Seq(Frames)
        /\ Len(Returned(calls[t])) = Len(calls[t]) - 1
    BY <2>1, Return
  <2>3. Len(calls[t]) \in Nat /\ Last(calls[t]) \in Frames
    BY <2>1, Top
  <2>3a. Last(calls[t]).fn \in Functions
    BY <2>3 DEF Frames
  <2>4. Len(Returned(calls[t])) <= MaxDepth
    BY <1>t, <2>2, <2>3, SMT DEF TypeOK
  <2>5. calls' = [calls EXCEPT ![t] = Returned(calls[t])]
    BY <1>6 DEF ExitPin, Returned
  <2>6. /\ calls' \in [Threads -> Seq(Frames)]
        /\ \A u \in Threads : Len(calls'[u]) <= MaxDepth
    BY <1>t, <2>2, <2>4, <2>5 DEF TypeOK
  <2>7. Pinned(t) \in Masks \cup {Unpinned}
    BY <1>t, PinnedMask
  <2>8. /\ report' \in [Threads -> [fn : Functions, latency : 0..MaxClock] \cup {NoCall}]
        /\ finished' \in [Threads -> Frames \cup {NoCall}]
    BY <1>6, <1>t, <2>3, <2>3a DEF ExitPin, TypeOK
  <2>9. latency' \in [Threads -> 0..MaxClock]
    BY <1>6, <1>t, SMT DEF ExitPin, TypeOK
  <2> QED
    BY <1>6, <1>t, <2>6, <2>7, <2>8, <2>9 DEF ExitPin, TypeOK
<1>7. ASSUME Refresh PROVE TypeOK'
  <2>1. CASE NewRound
    BY <2>1, <1>t, SMT DEF NewRound, TypeOK
  <2>2. ASSUME NEW t \in Threads, StartUpdate(t) PROVE TypeOK'
    BY <2>2, <1>t DEF StartUpdate, TypeOK
  <2>3. ASSUME NEW f \in Functions, InsertFunction(f) PROVE TypeOK'
    BY <2>3, <1>t DEF InsertFunction, TypeOK
  <2>4. CASE FinishUpdate
    BY <2>4, <1>t DEF FinishUpdate, TypeOK
  <2> QED
    BY <1>7, <2>1, <2>2, <2>3, <2>4 DEF Refresh
<1> QED
  BY <1>0, <1>1, <1>2, <1>3, <1>4, <1>5, <1>6, <1>7 DEF Next, Hook
-----------------------------------------------------------------------------
(* The parts of the invariant that speak of one thread at a time *)

Queue(u)   == Len(time_queue[u]) = Stamped(u)
Started(u) == \A i \in 1..Len(time_queue[u]) : time_queue[u][i] <= now
Entered(u) == \A i \in 1..Len(calls[u]) : EnteredWith(calls[u][i], snapshot)
AtFound(u, r) == /\ mask[u] = <<Last(calls[u]).fn, "exit", r>>
                 /\ \A i \in 1..Len(calls[u]) : NotOlder(r, calls[u][i].entry)
Inside(u)  ==
    /\ at[u] # "run" => calls[u] # <<>>
    /\ at[u] = "enter" =>
          /\ ~Last(calls[u]).resumed
          /\ ~missed[u] => mask[u] = Last(calls[u]).entry /\ mask[u] # Zero
    /\ at[u] = "found" /\ ~missed[u] =>
          mask[u] # Zero /\ \E r \in 0..snapshot : AtFound(u, r)
Follows(u) ==
    at[u] = "run" /\ ~missed[u] =>
        IF calls[u] = <<>>
        THEN \/ affinity[u] = Unpinned /\ finished[u] = NoCall
             \/ AtExitMask(u, finished[u])
        ELSE IF Last(calls[u]).resumed THEN AtExitMask(u, Last(calls[u]))
                                       ELSE AtEntryMask(u, Last(calls[u]))

ThreadInv(u) == Queue(u) /\ Started(u) /\ Entered(u) /\ Inside(u) /\ Follows(u)

(* The invariant is the types, the map and what holds of each thread. *)
LEMMA PerThread ==
    IInv <=> TypeOK /\ MapOfSnapshot /\ \A u \in Threads : ThreadInv(u)
<1>1. QueueMatchesCalls <=> \A u \in Threads : Queue(u)
  BY DEF QueueMatchesCalls, Queue
<1>2. StartedBefore <=> \A u \in Threads : Started(u)
  BY DEF StartedBefore, Started
<1>3. InsideHooks <=> \A u \in Threads : Inside(u)
  BY DEF InsideHooks, Inside, AtFound
<1>3a. EnteredBefore <=> \A u \in Threads : Entered(u)
  BY DEF EnteredBefore, Entered
<1>4. AffinityFollowsCalls <=> \A u \in Threads : Follows(u)
  BY DEF AffinityFollowsCalls, Follows
<1> QED
  BY <1>1, <1>2, <1>3, <1>3a, <1>4 DEF IInv, ThreadInv

(* Every step keeps the round of the map; the rounds read only grow. *)
LEMMA MapStep ==
    ASSUME IInv, [Next]_vars
    PROVE  MapOfSnapshot' /\ 0..snapshot \subseteq 0..snapshot'
<1>0. /\ snapshot \in Nat /\ round \in Nat /\ snapshot <= round
      /\ fmap \in [Functions -> (0..Rounds) \cup {Absent, Zero}]
      /\ \A f \in Functions : fmap[f] \in {Absent, Zero, snapshot}
  BY SMT DEF IInv, TypeOK, MapOfSnapshot
<1>1. CASE \/ UNCHANGED <<fmap, snapshot, round>>
           \/ /\ \E f \in Functions : fmap' = Inserted(f)
              /\ UNCHANGED <<snapshot, round>>
  BY <1>0, <1>1 DEF MapOfSnapshot, Inserted
<1>2. CASE Tick \/ UNCHANGED vars \/ FinishUpdate
  BY <1>1, <1>2 DEF Tick, vars, mapVars, FinishUpdate
<1>3. CASE NewRound
  <2>1. round' = round + 1 /\ fmap' = fmap /\ snapshot' = snapshot
    BY <1>3 DEF NewRound
  <2>2. snapshot' <= round'
    BY <1>0, <2>1, SMT
  <2> QED
    BY <1>0, <2>1, <2>2 DEF MapOfSnapshot
<1>4. ASSUME NEW t \in Threads, StartUpdate(t)
      PROVE  MapOfSnapshot' /\ 0..snapshot \subseteq 0..snapshot'
  <2>1. /\ round' = round /\ snapshot' = round
        /\ fmap' = [f \in Functions |-> Absent]
    BY <1>4 DEF StartUpdate
  <2>2. snapshot' <= round' /\ 0..snapshot \subseteq 0..snapshot'
    BY <1>0, <2>1, SMT
  <2> QED
    BY <2>1, <2>2 DEF MapOfSnapshot
<1>5. ASSUME NEW f \in Functions, InsertFunction(f)
      PROVE  MapOfSnapshot' /\ 0..snapshot \subseteq 0..snapshot'
  BY <1>0, <1>5 DEF InsertFunction, MapOfSnapshot
<1>6. ASSUME NEW t \in Threads, Hook(t)
      PROVE  MapOfSnapshot' /\ 0..snapshot \subseteq 0..snapshot'
  <2>1. CASE EnterPin(t) \/ ExitStamp(t) \/ ExitPin(t)
    BY <1>1, <2>1 DEF EnterPin, ExitStamp, Stamp, ExitPin, mapVars
  <2>2. ASSUME NEW f \in Functions, EnterLookup(t, f)
        PROVE  MapOfSnapshot' /\ 0..snapshot \subseteq 0..snapshot'
    BY <1>1, <2>2 DEF EnterLookup
  <2>3. CASE ExitLookup(t)
    <3>1. Last(calls[t]) \in Frames
      BY <2>3, Top DEF IInv, TypeOK, InsideHooks, ExitLookup
    <3>2. Last(calls[t]).fn \in Functions
      BY <3>1 DEF Frames
    <3> QED
      BY <1>1, <2>3, <3>2 DEF ExitLookup
  <2> QED
    BY <1>6, <2>1, <2>2, <2>3 DEF Hook
<1> QED
  BY <1>2, <1>3, <1>4, <1>5, <1>6 DEF Next, Refresh

(* A thread that does not move keeps what holds of it. *)
LEMMA ThreadFrame ==
    ASSUME NEW u, ThreadInv(u), now' = now,
           calls'[u] = calls[u], at'[u] = at[u], mask'[u] = mask[u],
           time_queue'[u] = time_queue[u], affinity'[u] = affinity[u],
           missed'[u] = missed[u], finished'[u] = finished[u],
           0..snapshot \subseteq 0..snapshot'
    PROVE  ThreadInv(u)'
<1>1. Queue(u)' /\ Started(u)'
  BY DEF ThreadInv, Queue, Started, Stamped
<1>2. \A c : EnteredWith(c, snapshot) => EnteredWith(c, snapshot')
  BY DEF EnteredWith
<1>2a. Entered(u)'
  BY <1>2 DEF ThreadInv, Entered
<1>3. \A c : /\ AtExitMask(u, c) => AtExitMask(u, c)'
             /\ AtEntryMask(u, c) => AtEntryMask(u, c)'
  BY DEF AtExitMask, AtEntryMask
<1>4. \A r : AtFound(u, r) => AtFound(u, r)'
  BY DEF AtFound
<1>5. Inside(u)'
  BY <1>4 DEF ThreadInv, Inside, AtFound
<1>6. Follows(u)'
  BY DEF ThreadInv, Follows, AtExitMask, AtEntryMask
<1> QED
  BY <1>1, <1>2a, <1>5, <1>6 DEF ThreadInv

(* The refresh of fmap touches no thread, and time passes for all of them.      *)
LEMMA QuietStep ==
    ASSUME IInv, Tick \/ Refresh \/ UNCHANGED vars, NEW u \in Threads
    PROVE  ThreadInv(u)'
<1>0. ThreadInv(u)
  BY PerThread
<1>1. ASSUME Tick PROVE ThreadInv(u)'
  <2>1. Started(u)'
    <3>1. /\ time_queue' = time_queue
          /\ now' = now + 1
          /\ now \in Nat
      BY <1>1, SMT DEF Tick, threadVars, IInv, TypeOK
    <3>2. time_queue[u] \in Seq(0..MaxClock)
      BY DEF IInv, TypeOK
    <3>3. \A i \in 1..Len(time_queue[u]) : time_queue[u][i] \in 0..MaxClock
      BY <3>2, ElementOfSeq
    <3>4. \A i \in 1..Len(time_queue[u]) : time_queue[u][i] <= now
      BY <1>0 DEF ThreadInv, Started
    <3>5. \A x \in 0..MaxClock : x <= now => x <= now + 1
      BY <3>1, SMT
    <3> QED
      BY <3>1, <3>3, <3>4, <3>5 DEF Started
  <2>2. Queue(u)' /\ Entered(u)' /\ Inside(u)' /\ Follows(u)'
    BY <1>0, <1>1 DEF Tick, threadVars, mapVars, ThreadInv, Queue, Entered, EnteredWith,
       Inside, AtFound, Follows, AtExitMask, AtEntryMask, Stamped
  <2> QED
    BY <2>1, <2>2 DEF ThreadInv
<1>1a. 0..snapshot \subseteq 0..snapshot'
  BY MapStep DEF Next
<1>2. CASE Refresh
  <2>1. UNCHANGED <<now, threadVars>>
    BY <1>2 DEF Refresh, NewRound, FinishUpdate, StartUpdate, InsertFunction
  <2> QED
    BY <1>0, <1>1a, <2>1, ThreadFrame DEF threadVars
<1>3. CASE UNCHANGED vars
  BY <1>0, <1>1a, <1>3, ThreadFrame DEF vars, threadVars
<1> QED
  BY <1>1, <1>2, <1>3

(* A hook of one thread leaves the other threads alone. *)
LEMMA OtherThreads ==
    ASSUME IInv, NEW t \in Threads, Hook(t), NEW u \in Threads, u # t
    PROVE  ThreadInv(u)'
<1>0. ThreadInv(u)
  BY PerThread
<1>1. /\ now' = now /\ calls'[u] = calls[u] /\ at'[u] = at[u] /\ mask'[u] = mask[u]
      /\ time_queue'[u] = time_queue[u] /\ affinity'[u] = affinity[u]
      /\ missed'[u] = missed[u] /\ finished'[u] = finished[u]
  <2> USE DEF IInv, TypeOK
  <2>1. ASSUME NEW f \in Functions, EnterLookup(t, f) PROVE <1>1!:
    BY <2>1 DEF EnterLookup
  <2>2. CASE EnterPin(t)
    BY <2>2 DEF EnterPin
  <2>3. CASE ExitStamp(t)
    BY <2>3 DEF ExitStamp, Stamp
  <2>4. CASE ExitLookup(t)
    BY <2>4 DEF ExitLookup
  <2>5. CASE ExitPin(t)
    BY <2>5 DEF ExitPin
  <2> QED
    BY <2>1, <2>2, <2>3, <2>4, <2>5 DEF Hook
<1>2. 0..snapshot \subseteq 0..snapshot'
  BY MapStep DEF Next
<1> QED
  BY <1>0, <1>1, <1>2, ThreadFrame

(* experiment_fentry up to the pinning keeps what holds of its thread: the new  *)
(* call is on the stack and has no start time yet.                              *)
LEMMA EnterLookupStep ==
    ASSUME IInv, NEW t \in Threads, NEW f \in Functions, EnterLookup(t, f)
    PROVE  ThreadInv(t)'
<1> DEFINE m == Found(f, "entry")
           frame == [fn |-> f, entry |-> m, resumed |-> FALSE]
<1>1. frame \in Frames
  BY Lookup DEF Frames, IInv
<1>2. calls[t] \in Seq(Frames)
  BY DEF IInv, TypeOK
<1>3. /\ calls'[t] = Append(calls[t], frame)
      /\ at[t] = "run" /\ at'[t] = "enter"
      /\ mask'[t] = m
      /\ missed'[t] = (m = Zero)
      /\ time_queue' = time_queue /\ now' = now /\ snapshot' = snapshot
  BY DEF EnterLookup, IInv, TypeOK
<1>4. frame.entry = m /\ ~frame.resumed /\ frame.fn = f
  OBVIOUS
<1>4a. EnteredWith(frame, snapshot)
  BY <1>4, LookupRound DEF EnteredWith
<1> HIDE DEF frame, m
<1>5. /\ calls'[t] # <<>>
      /\ Len(calls[t]) \in Nat
      /\ Len(calls'[t]) = Len(calls[t]) + 1
      /\ Last(calls'[t]) = frame
      /\ \A i \in 1..Len(calls[t]) : calls'[t][i] = calls[t][i]
  BY <1>1, <1>2, <1>3, Push
<1>6. ThreadInv(t)
  BY PerThread
<1>7. Len(time_queue[t]) = Len(calls'[t]) - 1
  BY <1>3, <1>5, <1>6, SMT DEF ThreadInv, Queue, Stamped
<1>8. Queue(t)'
  BY <1>3, <1>7 DEF Queue, Stamped
<1>9. Started(t)'
  BY <1>3, <1>6 DEF ThreadInv, Started
<1>10. Inside(t)' /\ Follows(t)'
  BY <1>3, <1>4, <1>5 DEF Inside, Follows
<1>11. Entered(t)'
  <2>1. ASSUME NEW i \in 1..Len(calls'[t])
        PROVE  i \in 1..Len(calls[t]) \/ i = Len(calls'[t])
    BY <1>5, SMT
  <2>2. \A i \in 1..Len(calls[t]) : EnteredWith(calls'[t][i], snapshot)
    BY <1>5, <1>6 DEF ThreadInv, Entered
  <2>3. EnteredWith(calls'[t][Len(calls'[t])], snapshot)
    BY <1>4a, <1>5 DEF Last
  <2> QED
    BY <1>3, <2>1, <2>2, <2>3 DEF Entered
<1> QED
  BY <1>8, <1>9, <1>10, <1>11 DEF ThreadInv

(* The rest of experiment_fentry: the thread is at the mask of its call, which  *)
(* has its start time.                                                          *)
LEMMA EnterPinStep ==
    ASSUME IInv, NEW t \in Threads, EnterPin(t)
    PROVE  ThreadInv(t)'
<1>1. /\ time_queue[t] \in Seq(0..MaxClock)
      /\ calls[t] \in Seq(Frames)
      /\ now \in 0..MaxClock
  BY DEF IInv, TypeOK
<1>2. /\ time_queue'[t] = Append(time_queue[t], now)
      /\ at[t] = "enter" /\ at'[t] = "run"
      /\ affinity'[t] = Pinned(t)
      /\ calls' = calls /\ missed' = missed /\ now' = now /\ snapshot' = snapshot
  BY DEF EnterPin, mapVars, IInv, TypeOK
<1>3. ThreadInv(t)
  BY PerThread
<1>4. calls[t] # <<>>
  BY <1>2, <1>3 DEF ThreadInv, Inside
<1>5. /\ Len(time_queue[t]) \in Nat
      /\ Len(time_queue'[t]) = Len(time_queue[t]) + 1
      /\ Last(time_queue'[t]) = now
      /\ \A i \in 1..Len(time_queue[t]) : time_queue'[t][i] = time_queue[t][i]
  BY <1>1, <1>2, Push
<1>6. Len(calls[t]) \in Nat
  BY <1>1, LenProperties
<1>7. Queue(t)'
  <2>1. Len(time_queue[t]) = Len(calls[t]) - 1
    BY <1>2, <1>3 DEF ThreadInv, Queue, Stamped
  <2>2. Len(time_queue'[t]) = Len(calls[t])
    BY <1>5, <1>6, <2>1, SMT
  <2> QED
    BY <1>2, <2>2 DEF Queue, Stamped
<1>8. Started(t)'
  <2>1. now <= now
    BY <1>1, SMT
  <2>2. ASSUME NEW i \in 1..Len(time_queue'[t])
        PROVE  i \in 1..Len(time_queue[t]) \/ i = Len(time_queue'[t])
    BY <1>5, SMT
  <2> QED
    BY <1>2, <1>3, <1>5, <2>1, <2>2 DEF ThreadInv, Started, Last
<1>9. Inside(t)' /\ Entered(t)'
  BY <1>2, <1>3, <1>4 DEF ThreadInv, Inside, Entered
<1>10. Follows(t)'
  <2>1. SUFFICES ASSUME ~missed[t] PROVE AtEntryMask(t, Last(calls[t]))' /\ ~Last(calls[t]).resumed
    BY <1>2, <1>4 DEF Follows, AtEntryMask
  <2>2. /\ ~Last(calls[t]).resumed
        /\ affinity'[t] = Last(calls[t]).entry /\ Last(calls[t]).entry # Zero
    BY <1>2, <1>3, <2>1 DEF ThreadInv, Inside, Pinned
  <2>3. Len(calls[t]) \in 1..Len(calls[t])
    BY <1>1, <1>4, Top
  <2>4. EnteredWith(Last(calls[t]), snapshot)
    BY <1>3, <2>3 DEF ThreadInv, Entered, Last
  <2> QED
    BY <1>2, <2>2, <2>4 DEF EnteredWith, AtEntryMask
<1> QED
  BY <1>7, <1>8, <1>9, <1>10 DEF ThreadInv

(* experiment_fexit takes the start time of its own call from the stack. *)
LEMMA ExitStampStep ==
    ASSUME IInv, NEW t \in Threads, ExitStamp(t)
    PROVE  ThreadInv(t)'
<1>1. /\ time_queue'[t] = Front(time_queue[t])
      /\ at[t] = "run" /\ at'[t] = "leave"
      /\ calls[t] # <<>> /\ calls' = calls
      /\ now' = now /\ snapshot' = snapshot
  BY DEF ExitStamp, Stamp, mapVars, IInv, TypeOK
<1>2. /\ time_queue[t] \in Seq(0..MaxClock)
      /\ time_queue[t] # <<>>
      /\ Len(time_queue[t]) = Len(calls[t])
  BY <1>1, Elapsed
<1>3. /\ Len(time_queue'[t]) = Len(time_queue[t]) - 1
      /\ \A i \in 1..(Len(time_queue[t]) - 1) : time_queue'[t][i] = time_queue[t][i]
  BY <1>1, <1>2, Pop
<1>4. Queue(t)'
  BY <1>1, <1>2, <1>3 DEF Queue, Stamped
<1>5. Started(t)'
  <2>1. Started(t)
    BY PerThread DEF ThreadInv
  <2>2. Len(time_queue[t]) \in Nat
    BY <1>2, LenProperties
  <2>3. \A i \in 1..(Len(time_queue[t]) - 1) : i \in 1..Len(time_queue[t])
    BY <2>2, SMT
  <2> QED
    BY <1>1, <1>3, <2>1, <2>3 DEF Started
<1>6. Inside(t)' /\ Follows(t)'
  BY <1>1 DEF Inside, Follows
<1>7. Entered(t)'
  BY <1>1, PerThread DEF ThreadInv, Entered
<1> QED
  BY <1>4, <1>5, <1>6, <1>7 DEF ThreadInv

(* It looks the function up again: what it finds is an exit mask of the round   *)
(* read last, so no older than any entry mask before it.                        *)
LEMMA ExitLookupStep ==
    ASSUME IInv, NEW t \in Threads, ExitLookup(t)
    PROVE  ThreadInv(t)'
<1>1. ThreadInv(t)
  BY PerThread
<1>2. at[t] = "leave" /\ at'[t] = "found"
  BY DEF ExitLookup, IInv, TypeOK
<1>3. calls[t] # <<>> /\ calls[t] \in Seq(Frames)
  BY <1>1, <1>2 DEF ThreadInv, Inside, IInv, TypeOK
<1>4. Last(calls[t]) \in Frames
  BY <1>3, Top
<1>5. PICK f \in Functions : f = Last(calls[t]).fn
  BY <1>4 DEF Frames
<1>6. /\ mask'[t] = Found(f, "exit")
      /\ missed'[t] = (Found(f, "exit") = Zero)
      /\ calls' = calls /\ time_queue' = time_queue /\ now' = now
      /\ snapshot' = snapshot
  BY <1>5 DEF ExitLookup, IInv, TypeOK
<1>7. ASSUME Found(f, "exit") # Zero
      PROVE  /\ snapshot \in 0..snapshot
             /\ Found(f, "exit") = <<f, "exit", snapshot>>
  BY <1>7, LookupRound
<1>7a. \A i \in 1..Len(calls[t]) : NotOlder(snapshot, calls[t][i].entry)
  <2> SUFFICES ASSUME NEW i \in 1..Len(calls[t]), calls[t][i].entry # Zero
               PROVE  calls[t][i].entry[3] <= snapshot
    BY DEF NotOlder
  <2>1. PICK r \in 0..snapshot : calls[t][i].entry = <<calls[t][i].fn, "entry", r>>
    BY <1>1 DEF ThreadInv, Entered, EnteredWith
  <2>2. r <= snapshot
    BY SMT DEF IInv, TypeOK
  <2> QED
    BY <2>1, <2>2
<1>8. Queue(t)' /\ Started(t)' /\ Entered(t)'
  BY <1>1, <1>2, <1>6 DEF ThreadInv, Queue, Started, Entered, EnteredWith, Stamped
<1>9. Inside(t)' /\ Follows(t)'
  <2>1. ASSUME ~missed'[t]
        PROVE  mask'[t] # Zero /\ \E r \in 0..snapshot' : AtFound(t, r)'
    BY <1>5, <1>6, <1>7, <1>7a, <2>1 DEF AtFound, NotOlder
  <2> QED
    BY <1>2, <1>3, <1>6, <2>1 DEF Inside, Follows
<1> QED
  BY <1>8, <1>9 DEF ThreadInv

(* The rest of experiment_fexit: the thread goes on at the exit mask, and so    *)
(* does its caller.                                                             *)
LEMMA ExitPinStep ==
    ASSUME IInv, NEW t \in Threads, ExitPin(t)
    PROVE  ThreadInv(t)'
<1>1. ThreadInv(t)
  BY PerThread
<1>2. at[t] = "found" /\ at'[t] = "run"
  BY DEF ExitPin, IInv, TypeOK
<1>3. calls[t] # <<>> /\ calls[t] \in Seq(Frames)
  BY <1>1, <1>2 DEF ThreadInv, Inside, IInv, TypeOK
<1>4. /\ calls'[t] = Returned(calls[t])
      /\ affinity'[t] = Pinned(t)
      /\ finished'[t] = Last(calls[t])
      /\ missed' = missed /\ time_queue' = time_queue /\ now' = now
      /\ snapshot' = snapshot
  BY DEF ExitPin, Returned, mapVars, IInv, TypeOK
<1>5. /\ calls'[t] \in Seq(Frames)
      /\ Len(calls'[t]) = Len(calls[t]) - 1
      /\ \A i \in 1..(Len(calls[t]) - 1) : /\ calls'[t][i].fn = calls[t][i].fn
                                           /\ calls'[t][i].entry = calls[t][i].entry
      /\ calls'[t] # <<>> => Last(calls'[t]).resumed
  <2> DEFINE rest == Returned(calls[t])
  <2>1. /\ rest \in Seq(Frames) /\ Len(rest) = Len(calls[t]) - 1
        /\ \A i \in 1..(Len(calls[t]) - 1) : /\ rest[i].fn = calls[t][i].fn
                                             /\ rest[i].entry = calls[t][i].entry
        /\ rest # <<>> => Last(rest).resumed
    BY <1>3, Return
  <2>2. calls'[t] = rest
    BY <1>4
  <2> HIDE DEF rest
  <2> QED
    BY <2>1, <2>2
<1>5a. /\ \A i \in 1..Len(calls'[t]) : i \in 1..Len(calls[t])
       /\ Len(calls[t]) \in 1..Len(calls[t])
  BY <1>3, <1>5, Top, SMT
<1>6. Queue(t)' /\ Started(t)'
  BY <1>1, <1>2, <1>4, <1>5 DEF ThreadInv, Queue, Started, Stamped
<1>6a. Entered(t)'
  BY <1>1, <1>4, <1>5, <1>5a DEF ThreadInv, Entered, EnteredWith
<1>7. ASSUME ~missed[t]
      PROVE  /\ AtExitMask(t, finished[t])'
             /\ calls'[t] # <<>> => AtExitMask(t, Last(calls[t]))'
  <2>1. PICK r \in 0..snapshot : AtFound(t, r)
    BY <1>1, <1>2, <1>7 DEF ThreadInv, Inside
  <2>2. affinity'[t] = <<finished'[t].fn, "exit", r>>
    BY <1>1, <1>2, <1>4, <1>7, <2>1 DEF ThreadInv, Inside, Pinned, AtFound
  <2>3. NotOlder(r, finished'[t].entry)
    BY <1>4, <1>5a, <2>1 DEF AtFound, Last
  <2>4. ASSUME calls'[t] # <<>> PROVE NotOlder(r, Last(calls'[t]).entry)
    <3>1. /\ Len(calls'[t]) \in 1..Len(calls'[t])
          /\ Len(calls'[t]) \in 1..(Len(calls[t]) - 1)
      BY <1>5, <2>4, Top
    <3>2. Last(calls'[t]).entry = calls[t][Len(calls'[t])].entry
      BY <1>5, <3>1 DEF Last
    <3> QED
      BY <1>5a, <2>1, <3>1, <3>2 DEF AtFound
  <2> QED
    BY <1>4, <2>1, <2>2, <2>3, <2>4 DEF AtExitMask, NotOlder
<1>8. Inside(t)' /\ Follows(t)'
  BY <1>2, <1>4, <1>5, <1>7 DEF Inside, Follows
<1> QED
  BY <1>6, <1>6a, <1>8 DEF ThreadInv

(* IInv is inductive, for every value of the constants. *)
THEOREM Inductive == Spec => []IInv
<1>1. IInv /\ [Next]_vars => IInv'
  <2> SUFFICES ASSUME IInv, [Next]_vars PROVE IInv'
    OBVIOUS
  <2>1. ASSUME NEW u \in Threads PROVE ThreadInv(u)'
    <3>1. CASE Tick \/ Refresh \/ UNCHANGED vars
      BY <3>1, QuietStep
    <3>2. ASSUME NEW t \in Threads, Hook(t) PROVE ThreadInv(u)'
      <4>1. CASE u # t
        BY <3>2, <4>1, OtherThreads
      <4>2. CASE u = t
        BY <3>2, <4>2, EnterLookupStep, EnterPinStep, ExitStampStep, ExitLookupStep,
           ExitPinStep DEF Hook
      <4> QED
        BY <4>1, <4>2
    <3> QED
      BY <3>1, <3>2 DEF Next
  <2>2. TypeOK'
    BY TypeStep
  <2>2a. MapOfSnapshot'
    BY MapStep
  <2>3. (TypeOK /\ MapOfSnapshot /\ \A u \in Threads : ThreadInv(u))' => IInv'
    BY PerThread, PTL
  <2> QED
    BY <2>1, <2>2, <2>2a, <2>3
<1> QED
  BY InitInv, <1>1, PTL DEF Spec

(* experiment_fentry, experiment_fexit: the call stack, the time stack, the     *)
(* masks and the latencies keep their types; no latency is negative.            *)
THEOREM TypeCorrect == Spec => []TypeOK
<1>1. IInv => TypeOK
  BY DEF IInv
<1> QED
  BY Inductive, <1>1, PTL

(* experiment_fexit never reads the top of an empty stack of start times.       *)
THEOREM StacksMatch == Spec => []QueueMatchesCalls
<1>1. IInv => QueueMatchesCalls
  BY DEF IInv
<1> QED
  BY Inductive, <1>1, PTL

(* Whatever sigcont_handler does to fmap between the steps of the hooks, after  *)
(* a lookup that found something a thread runs at its own call's entry mask, or *)
(* at the exit mask of the call it has returned from, which is no older than    *)
(* the entry masks of that call and of its caller.                              *)
THEOREM AffinityIsThatOfTheCall == Spec => []AffinityFollowsCalls
<1>1. IInv => AffinityFollowsCalls
  BY DEF IInv
<1> QED
  BY Inductive, <1>1, PTL

-----------------------------------------------------------------------------
(* The refinement of CallTimer *)

Opened == [fn : Functions, start : 0..MaxClock]

Paired(u) ==
    /\ Measured(u) \in Seq(Opened)
    /\ Len(Measured(u)) = Len(time_queue[u])
    /\ Len(time_queue[u]) \in Nat
    /\ \A i \in 1..Len(time_queue[u]) :
          /\ i \in 1..Len(calls[u])
          /\ Measured(u)[i] = [fn |-> calls[u][i].fn, start |-> time_queue[u][i]]

(* The measured calls of a thread are as many as its start times. *)
LEMMA MeasuredCalls == IInv => \A u \in Threads : Paired(u)
<1> SUFFICES ASSUME IInv, NEW u \in Threads PROVE Paired(u)
  OBVIOUS
<1>1. /\ time_queue[u] \in Seq(0..MaxClock)
      /\ calls[u] \in Seq(Frames)
  BY DEF IInv, TypeOK
<1>2. Len(time_queue[u]) \in Nat /\ Len(calls[u]) \in Nat
  BY <1>1, LenProperties
<1>3. Len(time_queue[u]) = Len(calls[u]) \/ Len(time_queue[u]) = Len(calls[u]) - 1
  BY DEF IInv, QueueMatchesCalls, Stamped
<1>4. \A i \in 1..Len(time_queue[u]) : i \in 1..Len(calls[u])
  BY <1>2, <1>3, SMT
<1>5. \A i \in 1..Len(time_queue[u]) :
         calls[u][i] \in Frames /\ time_queue[u][i] \in 0..MaxClock
  BY <1>1, <1>4, ElementOfSeq
<1>6. \A i \in 1..Len(time_queue[u]) :
         [fn |-> calls[u][i].fn, start |-> time_queue[u][i]] \in Opened
  BY <1>5 DEF Frames, Opened
<1>7. Measured(u) \in [1..Len(time_queue[u]) -> Opened]
  BY <1>6 DEF Measured
<1>8. Measured(u) \in Seq(Opened)
  BY <1>2, <1>7, SeqDef
<1>9. Len(Measured(u)) = Len(time_queue[u])
  BY <1>2, <1>7, <1>8, LenProperties, SMT
<1> QED
  BY <1>2, <1>4, <1>8, <1>9 DEF Measured, Paired

(* As long as its start times and the functions of its stamped calls stay, the  *)
(* measured calls of a thread stay.                                             *)
LEMMA MeasuredFrame ==
    ASSUME NEW u, time_queue'[u] = time_queue[u],
           \A i \in 1..Len(time_queue[u]) : calls'[u][i].fn = calls[u][i].fn
    PROVE  Measured(u)' = Measured(u)
BY DEF Measured

(* The rest of experiment_fentry opens the call in CallTimer. *)
LEMMA OpensCall ==
    ASSUME IInv, IInv', NEW t \in Threads, EnterPin(t)
    PROVE  Timer!Enter(t, Last(calls[t]).fn) /\ Last(calls[t]).fn \in Functions
<1>1. /\ calls[t] \in Seq(Frames) /\ calls[t] # <<>>
      /\ at[t] = "enter" /\ at'[t] = "run"
      /\ time_queue[t] \in Seq(0..MaxClock)
      /\ now \in 0..MaxClock
  BY DEF IInv, TypeOK, InsideHooks, EnterPin
<1>2. Last(calls[t]) \in Frames /\ Len(calls[t]) \in Nat
  BY <1>1, Top
<1> DEFINE c == [fn |-> Last(calls[t]).fn, start |-> now]
<1>3. Last(calls[t]).fn \in Functions /\ c \in Opened
  BY <1>1, <1>2 DEF Frames, Opened
<1>4. /\ calls' = calls /\ now' = now /\ latency' = latency
      /\ report' = [report EXCEPT ![t] = NoCall]
      /\ report'[t] = NoCall
      /\ time_queue' = [time_queue EXCEPT ![t] = Append(time_queue[t], now)]
      /\ time_queue'[t] = Append(time_queue[t], now)
      /\ at' = [at EXCEPT ![t] = "run"]
  BY DEF EnterPin, IInv, TypeOK
<1>5. /\ Len(time_queue[t]) \in Nat
      /\ Len(time_queue'[t]) = Len(time_queue[t]) + 1
      /\ Last(time_queue'[t]) = now
      /\ \A i \in 1..Len(time_queue[t]) : time_queue'[t][i] = time_queue[t][i]
  BY <1>1, <1>4, Push
<1>6. Len(time_queue'[t]) = Len(calls[t])
  BY <1>1, <1>2, <1>4, <1>5, SMT DEF IInv, QueueMatchesCalls, Stamped
<1>7. /\ Measured(t) \in Seq(Opened) /\ Len(Measured(t)) = Len(time_queue[t])
      /\ \A i \in 1..Len(time_queue[t]) :
            Measured(t)[i] = [fn |-> calls[t][i].fn, start |-> time_queue[t][i]]
  BY MeasuredCalls DEF Paired
<1>8. /\ Measured(t)' \in Seq(Opened) /\ Len(Measured(t)') = Len(time_queue'[t])
      /\ \A i \in 1..Len(time_queue'[t]) :
            Measured(t)'[i] = [fn |-> calls'[t][i].fn, start |-> time_queue'[t][i]]
  <2>1. IInv' => (\A u \in Threads : Paired(u))'
    BY MeasuredCalls, PTL
  <2> QED
    BY <2>1 DEF Paired
<1> HIDE DEF c
<1>9. /\ Append(Measured(t), c) \in Seq(Opened)
      /\ Len(Append(Measured(t), c)) = Len(Measured(t)) + 1
      /\ Append(Measured(t), c)[Len(Measured(t)) + 1] = c
      /\ \A i \in 1..Len(Measured(t)) : Append(Measured(t), c)[i] = Measured(t)[i]
  BY <1>3, <1>7, AppendProperties
<1>10. ASSUME NEW i \in 1..Len(time_queue'[t])
       PROVE  Measured(t)'[i] = Append(Measured(t), c)[i]
  <2>1. CASE i \in 1..Len(time_queue[t])
    <3>1. /\ calls'[t][i] = calls[t][i]
          /\ time_queue'[t][i] = time_queue[t][i]
      BY <1>4, <1>5, <2>1
    <3>2. Measured(t)'[i] = Measured(t)[i]
      BY <1>7, <1>8, <2>1, <3>1
    <3>3. i \in 1..Len(Measured(t))
      BY <1>7, <2>1
    <3> QED
      BY <1>9, <3>2, <3>3
  <2>2. CASE i = Len(time_queue[t]) + 1
    <3>1. time_queue'[t][i] = now
      BY <1>5, <2>2 DEF Last
    <3>2. calls'[t][i] = Last(calls[t])
      BY <1>4, <1>5, <1>6, <2>2 DEF Last
    <3>3. Measured(t)'[i] = c
      BY <1>8, <3>1, <3>2 DEF c
    <3> QED
      BY <1>7, <1>9, <2>2, <3>3
  <2> QED
    <3>1. i \in 1..Len(time_queue[t]) \/ i = Len(time_queue[t]) + 1
      BY <1>5, SMT
    <3> QED
      BY <2>1, <2>2, <3>1
<1>11. Measured(t)' = Append(Measured(t), c)
  <2>1. Len(Measured(t)') = Len(Append(Measured(t), c))
    BY <1>5, <1>7, <1>8, <1>9
  <2> QED
    BY <1>8, <1>9, <1>10, <2>1, SeqEqual
<1>12. ASSUME NEW u \in Threads, u # t
       PROVE  Measured(u)' = Measured(u) /\ Reported(u)' = Reported(u)
  BY <1>4, <1>12 DEF Measured, Reported, IInv, TypeOK
<1>13. Reported(t)' = NoCall
  BY <1>1, <1>4 DEF Reported
<1>14. [u \in Threads |-> Measured(u)]'
         = [[u \in Threads |-> Measured(u)] EXCEPT ![t] = Append(@, c)]
  BY <1>11, <1>12
<1>15. [u \in Threads |-> Reported(u)]'
         = [[u \in Threads |-> Reported(u)] EXCEPT ![t] = NoCall]
  BY <1>12, <1>13
<1> QED
  BY <1>3, <1>4, <1>14, <1>15 DEF Timer!Enter, c

(* The computation of the latency in experiment_fexit closes the call. *)
LEMMA ClosesCall ==
    ASSUME IInv, IInv', NEW t \in Threads, ExitStamp(t)
    PROVE  Timer!Leave(t)
<1>1. /\ calls[t] \in Seq(Frames) /\ calls[t] # <<>>
      /\ at[t] = "run" /\ at' = [at EXCEPT ![t] = "leave"]
      /\ calls' = calls /\ now' = now /\ report' = report
      /\ time_queue' = [time_queue EXCEPT ![t] = Front(time_queue[t])]
      /\ latency' = [latency EXCEPT ![t] = now - Last(time_queue[t])]
      /\ time_queue'[t] = Front(time_queue[t])
      /\ latency'[t] = now - Last(time_queue[t])
      /\ at'[t] = "leave"
  BY DEF ExitStamp, Stamp, IInv, TypeOK
<1>2. /\ time_queue[t] \in Seq(0..MaxClock)
      /\ time_queue[t] # <<>>
      /\ Len(time_queue[t]) = Len(calls[t])
  BY <1>1, Elapsed
<1>3. /\ Len(time_queue'[t]) = Len(time_queue[t]) - 1
      /\ \A i \in 1..(Len(time_queue[t]) - 1) : time_queue'[t][i] = time_queue[t][i]
  BY <1>1, <1>2, Pop
<1>4. Len(time_queue[t]) \in Nat \ {0} /\ Len(time_queue[t]) \in 1..Len(time_queue[t])
  BY <1>2, Top
<1>5. Paired(t) /\ Paired(t)'
  <2>1. IInv' => (\A u \in Threads : Paired(u))'
    BY MeasuredCalls, PTL
  <2> QED
    BY <2>1, MeasuredCalls
<1> DEFINE c == Measured(t)[Len(Measured(t))]
<1>6. Measured(t) # <<>>
  <2>1. Len(<<>>) = 0
    BY EmptySeq
  <2> QED
    BY <1>4, <1>5, <2>1 DEF Paired
<1>7. c.fn = Last(calls[t]).fn /\ c.start = Last(time_queue[t])
  <2>1. c = [fn |-> calls[t][Len(time_queue[t])].fn,
             start |-> time_queue[t][Len(time_queue[t])]]
    BY <1>4, <1>5 DEF Paired
  <2> HIDE DEF c
  <2> QED
    BY <1>2, <2>1 DEF Last
<1>8. /\ Front(Measured(t)) \in Seq(Opened)
      /\ Len(Front(Measured(t))) = Len(Measured(t)) - 1
      /\ \A i \in 1..(Len(Measured(t)) - 1) : Front(Measured(t))[i] = Measured(t)[i]
  BY <1>5, <1>6, Pop DEF Paired
<1>9. Measured(t)' = Front(Measured(t))
  <2>1. ASSUME NEW i \in 1..(Len(time_queue[t]) - 1)
        PROVE  Measured(t)'[i] = Measured(t)[i]
    <3>1. i \in 1..Len(time_queue[t])
      BY <1>4, SMT
    <3>2. time_queue'[t][i] = time_queue[t][i]
      BY <1>3
    <3>3. Measured(t)[i] = [fn |-> calls[t][i].fn, start |-> time_queue[t][i]]
      BY <1>5, <3>1 DEF Paired
    <3>4. i \in 1..Len(time_queue'[t])
      BY <1>3
    <3>5. Measured(t)'[i] = [fn |-> calls'[t][i].fn, start |-> time_queue'[t][i]]
      BY <1>5, <3>4 DEF Paired
    <3> QED
      BY <1>1, <3>2, <3>3, <3>5
  <2>2. /\ Measured(t)' \in Seq(Opened)
        /\ Len(Measured(t)') = Len(time_queue[t]) - 1
        /\ Len(Measured(t)) = Len(time_queue[t])
    BY <1>3, <1>5 DEF Paired
  <2>3. /\ Len(Measured(t)') = Len(Front(Measured(t)))
        /\ \A i \in 1..Len(Measured(t)') : Measured(t)'[i] = Front(Measured(t))[i]
    BY <1>8, <2>1, <2>2
  <2> QED
    BY <1>8, <2>2, <2>3, SeqEqual
<1> HIDE DEF c
<1>10. Reported(t)' = [fn |-> c.fn, latency |-> now - c.start]
  BY <1>1, <1>7 DEF Reported
<1>11. ASSUME NEW u \in Threads, u # t
       PROVE  Measured(u)' = Measured(u) /\ Reported(u)' = Reported(u)
  BY <1>1, <1>11 DEF Measured, Reported, IInv, TypeOK
<1>12. [u \in Threads |-> Measured(u)]'
         = [[u \in Threads |-> Measured(u)] EXCEPT ![t] = Front(@)]
  BY <1>9, <1>11
<1>13. [u \in Threads |-> Reported(u)]'
         = [[u \in Threads |-> Reported(u)]
               EXCEPT ![t] = [fn |-> c.fn, latency |-> now - c.start]]
  BY <1>10, <1>11
<1> QED
  BY <1>1, <1>6, <1>12, <1>13 DEF Timer!Leave, Front, c

(* The other steps of the hooks, and those of the handler, leave the open and   *)
(* the reported calls as they are.                                              *)
LEMMA Stutters ==
    ASSUME IInv,
           \/ Refresh \/ UNCHANGED vars
           \/ \E t \in Threads : \/ \E f \in Functions : EnterLookup(t, f)
                                 \/ ExitLookup(t) \/ ExitPin(t)
    PROVE  UNCHANGED Timer!vars
<1> SUFFICES ASSUME NEW u \in Threads
             PROVE  now' = now /\ Measured(u)' = Measured(u) /\ Reported(u)' = Reported(u)
  <2>1. now' = now
    BY DEF Refresh, NewRound, FinishUpdate, StartUpdate, InsertFunction, vars,
       EnterLookup, ExitLookup, ExitPin
  <2> QED
    BY <2>1 DEF Timer!vars
<1> USE DEF threadVars
<1>t. /\ calls \in [Threads -> Seq(Frames)]
      /\ at \in [Threads -> {"run", "enter", "leave", "found"}]
      /\ report \in [Threads -> [fn : Functions, latency : 0..MaxClock] \cup {NoCall}]
      /\ latency \in [Threads -> 0..MaxClock]
      /\ calls[u] \in Seq(Frames) /\ Len(calls[u]) \in Nat
  BY LenProperties DEF IInv, TypeOK
<1>0. CASE UNCHANGED vars
  BY <1>0 DEF vars, Measured, Reported
<1>1. CASE Refresh
  BY <1>1 DEF Refresh, NewRound, FinishUpdate, StartUpdate, InsertFunction,
     Measured, Reported
<1>2. ASSUME NEW t \in Threads, NEW f \in Functions, EnterLookup(t, f)
      PROVE  now' = now /\ Measured(u)' = Measured(u) /\ Reported(u)' = Reported(u)
  <2>1. CASE u # t
    BY <1>2, <2>1, <1>t DEF EnterLookup, Measured, Reported
  <2>2. CASE u = t
    <3> DEFINE frame == [fn |-> f, entry |-> Found(f, "entry"), resumed |-> FALSE]
    <3>1. frame \in Frames
      BY Lookup DEF Frames, IInv
    <3>2. /\ calls'[u] = Append(calls[u], frame)
          /\ at[u] = "run" /\ at'[u] = "enter"
          /\ report' = report /\ now' = now /\ time_queue' = time_queue
      BY <1>2, <2>2, <1>t DEF EnterLookup
    <3> HIDE DEF frame
    <3>3. \A i \in 1..Len(calls[u]) : calls'[u][i] = calls[u][i]
      BY <1>t, <3>1, <3>2, Push
    <3>4. \A i \in 1..Len(time_queue[u]) : i \in 1..Len(calls[u])
      BY MeasuredCalls DEF Paired
    <3>5. Measured(u)' = Measured(u)
      BY <3>2, <3>3, <3>4, MeasuredFrame
    <3> QED
      BY <3>2, <3>5 DEF Reported
  <2> QED
    BY <2>1, <2>2
<1>3. ASSUME NEW t \in Threads, ExitLookup(t)
      PROVE  now' = now /\ Measured(u)' = Measured(u) /\ Reported(u)' = Reported(u)
  <2>1. /\ now' = now /\ calls' = calls /\ time_queue' = time_queue
        /\ latency' = latency /\ report' = report
        /\ at' = [at EXCEPT ![t] = "found"] /\ at[t] = "leave"
    BY <1>3 DEF ExitLookup
  <2> QED
    BY <2>1, <1>t DEF Measured, Reported
<1>4. ASSUME NEW t \in Threads, ExitPin(t)
      PROVE  now' = now /\ Measured(u)' = Measured(u) /\ Reported(u)' = Reported(u)
  <2>1. CASE u # t
    BY <1>4, <2>1, <1>t DEF ExitPin, Measured, Reported
  <2>2. CASE u = t
    <3>1. /\ calls'[u] = Returned(calls[u])
          /\ report'[u] = [fn |-> Last(calls[u]).fn, latency |-> latency[u]]
          /\ at[u] = "found" /\ at'[u] = "run"
          /\ now' = now /\ time_queue' = time_queue
      BY <1>4, <2>2, <1>t DEF ExitPin, Returned
    <3>2. calls[u] # <<>> /\ Len(time_queue[u]) = Len(calls[u]) - 1
      BY <3>1 DEF IInv, InsideHooks, QueueMatchesCalls, Stamped
    <3>3. \A i \in 1..Len(time_queue[u]) : calls'[u][i].fn = calls[u][i].fn
      <4>1. \A i \in 1..(Len(calls[u]) - 1) : Returned(calls[u])[i].fn = calls[u][i].fn
        BY <1>t, <3>2, Return
      <4> QED
        BY <3>1, <3>2, <4>1
    <3>4. Measured(u)' = Measured(u)
      BY <3>1, <3>3, MeasuredFrame
    <3> QED
      BY <3>1, <3>4 DEF Reported
  <2> QED
    BY <2>1, <2>2
<1> QED
  BY <1>0, <1>1, <1>2, <1>3, <1>4

(* The log's latencies: FunctionHooks implements CallTimer, so each latency     *)
(* that is reported is the time between the entry and the exit of the call it   *)
(* is reported for, however calls nest and threads and the handler interleave.  *)
THEOREM Implements == Spec => MeasuresOwnCalls
<1>1. Init => Timer!Init
  <2> SUFFICES ASSUME Init PROVE Timer!Init
    OBVIOUS
  <2>1. ASSUME NEW u \in Threads PROVE Measured(u) = <<>> /\ Reported(u) = NoCall
    <3>1. IInv
      BY InitInv
    <3>2. Measured(u) \in Seq(Opened) /\ Len(Measured(u)) = Len(time_queue[u])
      BY <3>1, MeasuredCalls DEF Paired
    <3>3. time_queue[u] = <<>> /\ Len(<<>>) = 0
      BY EmptySeq DEF Init
    <3>4. Measured(u) = <<>>
      BY <3>2, <3>3, EmptySeq
    <3> QED
      BY <3>4 DEF Init, Reported
  <2> QED
    BY <2>1 DEF Init, Timer!Init
<1>2. IInv /\ IInv' /\ [Next]_vars => [Timer!Next]_(Timer!vars)
  <2> SUFFICES ASSUME IInv, IInv', [Next]_vars PROVE [Timer!Next]_(Timer!vars)
    OBVIOUS
  <2>1. CASE Tick
    <3>1. now' = now + 1
      BY <2>1 DEF Tick
    <3>2. \A u \in Threads : Measured(u)' = Measured(u) /\ Reported(u)' = Reported(u)
      BY <2>1 DEF Tick, threadVars, Measured, Reported
    <3> QED
      BY <3>1, <3>2 DEF Timer!Next, Timer!Tick
  <2>2. ASSUME NEW t \in Threads, EnterPin(t) PROVE Timer!Next
    BY <2>2, OpensCall DEF Timer!Next
  <2>3. ASSUME NEW t \in Threads, ExitStamp(t) PROVE Timer!Next
    BY <2>3, ClosesCall DEF Timer!Next
  <2> QED
    BY <2>1, <2>2, <2>3, Stutters DEF Next, Hook
<1> QED
  BY Inductive, <1>1, <1>2, PTL DEF Spec, MeasuresOwnCalls, Timer!Spec
=============================================================================
