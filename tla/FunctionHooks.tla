--------------------------- MODULE FunctionHooks ---------------------------
(***************************************************************************)
(* The measured functions of one Chromium process: every wrapper of        *)
(* chrome_interpose.cc calls experiment_fentry, the real function, and     *)
(* experiment_fexit.  The hooks look the function's masks up in fmap, pin  *)
(* the thread to the mask, and keep a thread-local stack of start times.   *)
(* Meanwhile the SIGCONT handler, on any thread, empties fmap and fills it *)
(* again with the masks of the last round (MaskRefresh models how it reads *)
(* the file; here it takes the round that is complete when it starts).     *)
(*                                                                         *)
(* A mask is the triple of the function it was chosen for, the side of the *)
(* call, and the round that chose it.                                      *)
(***************************************************************************)
EXTENDS Naturals, Sequences, FiniteSets

CONSTANTS Threads,    \* threads that run measured functions
          Functions,  \* the interposed functions
          MaxDepth,   \* bound on nested calls of interposed functions
          MaxClock,   \* bound on the clock
          Rounds,     \* bound on randomizeMasks
          Absent,     \* no entry in fmap
          Zero,       \* the empty mask operator[] default-inserts
          Unpinned,   \* the affinity a thread starts with
          NoOne,      \* no thread is in the handler
          NoCall      \* a thread has returned from no call since its last entry

ASSUME FunctionHooksAssumption ==
    /\ MaxDepth \in Nat \ {0} /\ MaxClock \in Nat /\ Rounds \in Nat
    /\ NoOne \notin Threads
    /\ Absent \notin Nat /\ Zero \notin Nat /\ Absent # Zero

VARIABLES
    now,         \* CLOCK_MONOTONIC
    calls,       \* the wrappers each thread is in, innermost last
    at,          \* where the thread is in a hook ("run": in no hook)
    mask,        \* the local `mask' of the hook
    latency,     \* the local `latency' of experiment_fexit
    time_queue,  \* thread_local std::stack of start times
    affinity,    \* the affinity of the thread
    missed,      \* the last lookup found no mask
    finished,    \* the call the thread has returned from, until it enters another
    report,      \* function and latency in its last line of the log, if that is
                 \* the line of an exit
    fmap,        \* round of the masks of each function
    round,       \* rounds of masks the script has written
    pending,     \* SIGCONT is pending for the process
    updater,     \* the thread that is in sigcont_handler
    snapshot,    \* the round it read from the file
    todo         \* the functions it has still to insert

threadVars == <<calls, at, mask, latency, time_queue, affinity, missed, finished, report>>
mapVars    == <<fmap, round, pending, updater, snapshot, todo>>
vars == <<now, threadVars, mapVars>>
-----------------------------------------------------------------------------
Last(s)  == s[Len(s)]
Front(s) == SubSeq(s, 1, Len(s) - 1)

Masks  == Functions \X {"entry", "exit"} \X (0..Rounds)
Frames == [fn : Functions, entry : Masks \cup {Zero}, resumed : BOOLEAN]

TypeOK ==
    /\ now \in 0..MaxClock
    /\ calls \in [Threads -> Seq(Frames)]
    /\ \A t \in Threads : Len(calls[t]) <= MaxDepth
    /\ time_queue \in [Threads -> Seq(0..MaxClock)]
    /\ at \in [Threads -> {"run", "enter", "leave", "found"}]
    /\ mask \in [Threads -> Masks \cup {Zero}]
    /\ latency \in [Threads -> 0..MaxClock]
    /\ affinity \in [Threads -> Masks \cup {Unpinned}]
    /\ missed \in [Threads -> BOOLEAN]
    /\ finished \in [Threads -> Frames \cup {NoCall}]
    /\ report \in [Threads -> [fn : Functions, latency : 0..MaxClock] \cup {NoCall}]
    /\ fmap \in [Functions -> (0..Rounds) \cup {Absent, Zero}]
    /\ round \in 0..Rounds
    /\ pending \in BOOLEAN
    /\ updater \in Threads \cup {NoOne}
    /\ snapshot \in 0..Rounds
    /\ todo \subseteq Functions

\* The threads start after experiment_init has filled the map.
Init ==
    /\ now = 0
    /\ calls = [t \in Threads |-> <<>>]
    /\ at = [t \in Threads |-> "run"]
    /\ mask = [t \in Threads |-> Zero]
    /\ latency = [t \in Threads |-> 0]
    /\ time_queue = [t \in Threads |-> <<>>]
    /\ affinity = [t \in Threads |-> Unpinned]
    /\ missed = [t \in Threads |-> FALSE]
    /\ finished = [t \in Threads |-> NoCall]
    /\ report = [t \in Threads |-> NoCall]
    /\ fmap = [f \in Functions |-> 0]
    /\ round = 0
    /\ pending = FALSE
    /\ updater = NoOne
    /\ snapshot = 0
    /\ todo = {}

Tick ==
    /\ now < MaxClock
    /\ now' = now + 1
    /\ UNCHANGED <<threadVars, mapVars>>
-----------------------------------------------------------------------------
(* fmap[func_name], with the insertion of zero masks for a missing name *)

Found(f, side) == IF fmap[f] \in {Absent, Zero} THEN Zero ELSE <<f, side, fmap[f]>>
Inserted(f)    == [fmap EXCEPT ![f] = IF @ = Absent THEN Zero ELSE @]

\* sched_setaffinity fails (EINVAL) for an empty mask and changes nothing; its
\* result is not checked.
Pinned(t) == IF mask[t] = Zero THEN affinity[t] ELSE mask[t]
-----------------------------------------------------------------------------
(* experiment_fentry *)

\* A wrapper is called and experiment_fentry looks the function up.
EnterLookup(t, f) ==
    /\ updater # t
    /\ at[t] = "run"
    /\ Len(calls[t]) < MaxDepth
    /\ calls' = [calls EXCEPT ![t] =
                    Append(@, [fn |-> f, entry |-> Found(f, "entry"), resumed |-> FALSE])]
    /\ mask' = [mask EXCEPT ![t] = Found(f, "entry")]
    /\ fmap' = Inserted(f)
    /\ at' = [at EXCEPT ![t] = "enter"]
    /\ missed' = [missed EXCEPT ![t] = (Found(f, "entry") = Zero)]
    /\ UNCHANGED <<now, latency, time_queue, affinity, finished, report, round,
                   pending, updater, snapshot, todo>>


\* It pins the thread, logs, and pushes the start time; the real function runs.
EnterPin(t) ==
    /\ updater # t
    /\ at[t] = "enter"
    /\ affinity' = [affinity EXCEPT ![t] = Pinned(t)]
    /\ time_queue' = [time_queue EXCEPT ![t] = Append(@, now)]
    /\ at' = [at EXCEPT ![t] = "run"]
    /\ mask' = [mask EXCEPT ![t] = Zero]
    /\ finished' = [finished EXCEPT ![t] = NoCall]
    /\ report' = [report EXCEPT ![t] = NoCall]
    /\ UNCHANGED <<now, calls, latency, missed, mapVars>>
-----------------------------------------------------------------------------
(* experiment_fexit *)

\* The latency `time' is computed, `left' of the start times stay on the stack.
Stamp(t, time, left) ==
    /\ updater # t
    /\ at[t] = "run"
    /\ calls[t] # <<>>
    /\ latency' = [latency EXCEPT ![t] = time]
    /\ time_queue' = [time_queue EXCEPT ![t] = left]
    /\ at' = [at EXCEPT ![t] = "leave"]
    /\ UNCHANGED <<now, calls, mask, affinity, missed, finished, report, mapVars>>

\* Mutants of ExitStamp: the top is read and not popped, the oldest start time is
\* taken instead of the last, the difference is the wrong way round.
ExitStampNoPop(t)   == Stamp(t, now - Last(time_queue[t]), time_queue[t])
ExitStampOldest(t)  == Stamp(t, now - Head(time_queue[t]), Tail(time_queue[t]))
ExitStampSwapped(t) == Stamp(t, Last(time_queue[t]) - now, Front(time_queue[t]))

\* The real function has returned: end time, start time from the stack.
ExitStamp(t) == Stamp(t, now - Last(time_queue[t]), Front(time_queue[t]))

ExitLookup(t) ==
    /\ updater # t
    /\ at[t] = "leave"
    /\ LET f == Last(calls[t]).fn IN
         /\ mask' = [mask EXCEPT ![t] = Found(f, "exit")]
         /\ missed' = [missed EXCEPT ![t] = (Found(f, "exit") = Zero)]
         /\ fmap' = Inserted(f)
    /\ at' = [at EXCEPT ![t] = "found"]
    /\ UNCHANGED <<now, calls, latency, time_queue, affinity, finished, report, round,
                   pending, updater, snapshot, todo>>

\* It pins the thread to the exit mask and logs; the wrapper returns to its caller.
ExitPin(t) ==
    /\ updater # t
    /\ at[t] = "found"
    /\ affinity' = [affinity EXCEPT ![t] = Pinned(t)]
    /\ report' = [report EXCEPT ![t] = [fn |-> Last(calls[t]).fn, latency |-> latency[t]]]
    /\ finished' = [finished EXCEPT ![t] = Last(calls[t])]
    /\ calls' = [calls EXCEPT ![t] =
                    [i \in 1..(Len(@) - 1) |->
                        IF i = Len(@) - 1 THEN [@[i] EXCEPT !.resumed = TRUE] ELSE @[i]]]
    /\ at' = [at EXCEPT ![t] = "run"]
    /\ mask' = [mask EXCEPT ![t] = Zero]
    /\ latency' = [latency EXCEPT ![t] = 0]
    /\ UNCHANGED <<now, time_queue, missed, mapVars>>
-----------------------------------------------------------------------------
(* The refresh of fmap *)

\* The script writes a round and signals; nothing waits for the hooks to be idle.
NewRound ==
    /\ round < Rounds
    /\ round' = round + 1
    /\ pending' = TRUE
    /\ UNCHANGED <<now, threadVars, fmap, updater, snapshot, todo>>

\* Mutant: the map is not cleared, so masks of two rounds are in it meanwhile.
StartUpdateKept(t) ==
    /\ pending
    /\ updater = NoOne
    /\ pending' = FALSE
    /\ updater' = t
    /\ snapshot' = round
    /\ todo' = Functions
    /\ UNCHANGED <<now, threadVars, fmap, round>>

\* sigcont_handler on thread t, wherever t is: lock fmap_mut, clear, read the file.
StartUpdate(t) ==
    /\ pending
    /\ updater = NoOne
    /\ pending' = FALSE
    /\ updater' = t
    /\ fmap' = [f \in Functions |-> Absent]
    /\ snapshot' = round
    /\ todo' = Functions
    /\ UNCHANGED <<now, threadVars, round>>

InsertFunction(f) ==
    /\ f \in todo
    /\ fmap' = [fmap EXCEPT ![f] = snapshot]
    /\ todo' = todo \ {f}
    /\ UNCHANGED <<now, threadVars, round, pending, updater, snapshot>>

FinishUpdate ==
    /\ updater # NoOne
    /\ todo = {}
    /\ updater' = NoOne
    /\ UNCHANGED <<now, threadVars, fmap, round, pending, snapshot, todo>>
-----------------------------------------------------------------------------
Hook(t) == \/ \E f \in Functions : EnterLookup(t, f)
           \/ EnterPin(t) \/ ExitStamp(t) \/ ExitLookup(t) \/ ExitPin(t)

Refresh == \/ NewRound \/ FinishUpdate
           \/ \E t \in Threads : StartUpdate(t)
           \/ \E f \in Functions : InsertFunction(f)

Next == Tick \/ Refresh \/ \E t \in Threads : Hook(t)

Spec == Init /\ [][Next]_vars
-----------------------------------------------------------------------------
(* The start times on the stack belong to the calls that are past their entry   *)
(* hook and not yet in their exit hook, so each latency that is logged is the   *)
(* time between the entry and the exit of the call it is logged for.            *)
Stamped(t) == IF at[t] = "run" THEN Len(calls[t]) ELSE Len(calls[t]) - 1

Measured(t) == [i \in 1..Len(time_queue[t]) |->
                    [fn |-> calls[t][i].fn, start |-> time_queue[t][i]]]

\* The call has been measured as soon as its latency is computed.
Reported(t) == IF at[t] \in {"leave", "found"}
               THEN [fn |-> Last(calls[t]).fn, latency |-> latency[t]] ELSE report[t]

Timer == INSTANCE CallTimer WITH open   <- [t \in Threads |-> Measured(t)],
                                 report <- [t \in Threads |-> Reported(t)]

MeasuresOwnCalls == Timer!Spec

(* fexit never pops an empty stack: as many start times as stamped calls.       *)
QueueMatchesCalls == \A t \in Threads : Len(time_queue[t]) = Stamped(t)

(* Where a thread runs after a lookup that found something.  Inside a call no   *)
(* nested call has returned to: at the entry mask of the call's own function.   *)
(* After a call has returned, in its caller or outside all calls: at the exit   *)
(* mask of the function that returned, of a round the process has read that is  *)
(* no older than those it entered that call and the resumed caller with.        *)
NotOlder(r, m) == m # Zero => m[3] <= r

AtEntryMask(t, c) ==
    \E r \in 0..snapshot : c.entry = <<c.fn, "entry", r>> /\ affinity[t] = c.entry

AtExitMask(t, c) ==
    \E r \in 0..snapshot : /\ affinity[t] = <<finished[t].fn, "exit", r>>
                           /\ NotOlder(r, finished[t].entry)
                           /\ NotOlder(r, c.entry)

AffinityFollowsCalls ==
    \A t \in Threads : at[t] = "run" /\ ~missed[t] =>
        IF calls[t] = <<>>
        THEN \/ affinity[t] = Unpinned /\ finished[t] = NoCall
             \/ AtExitMask(t, finished[t])
        ELSE LET c == Last(calls[t]) IN
             IF c.resumed THEN AtExitMask(t, c) ELSE AtEntryMask(t, c)
-----------------------------------------------------------------------------
(* What the two invariants need to be inductive *)

(* No call on the stack started in the future.                                  *)
StartedBefore ==
    \A t \in Threads : \A i \in 1..Len(time_queue[t]) : time_queue[t][i] <= now

(* The map holds masks of the round the process has read last, and no others.   *)
MapOfSnapshot ==
    /\ snapshot <= round
    /\ \A f \in Functions : fmap[f] \in {Absent, Zero, snapshot}

(* A call on the stack was entered with a mask of its function, of a round the  *)
(* process has read, or with none.                                              *)
EnteredWith(c, last) ==
    c.entry # Zero => \E r \in 0..last : c.entry = <<c.fn, "entry", r>>

EnteredBefore ==
    \A t \in Threads : \A i \in 1..Len(calls[t]) : EnteredWith(calls[t][i], snapshot)

(* Inside a hook there is a call.  The mask an entry hook is about to pin to is *)
(* the one its call entered with; that of an exit hook is an exit mask of the   *)
(* function that returns, no older than the entry mask of any call on the stack.*)
InsideHooks ==
    \A t \in Threads :
        /\ at[t] # "run" => calls[t] # <<>>
        /\ at[t] = "enter" =>
              /\ ~Last(calls[t]).resumed
              /\ ~missed[t] => mask[t] = Last(calls[t]).entry /\ mask[t] # Zero
        /\ at[t] = "found" /\ ~missed[t] =>
              /\ mask[t] # Zero
              /\ \E r \in 0..snapshot :
                    /\ mask[t] = <<Last(calls[t]).fn, "exit", r>>
                    /\ \A i \in 1..Len(calls[t]) : NotOlder(r, calls[t][i].entry)

IInv == /\ TypeOK
        /\ QueueMatchesCalls
        /\ StartedBefore
        /\ MapOfSnapshot
        /\ EnteredBefore
        /\ InsideHooks
        /\ AffinityFollowsCalls
-----------------------------------------------------------------------------
(* What the repository says and the code does not do *)

(* ipc.py: exitConfig is the configuration used when a function is exited, so   *)
(* a thread in no call is not left at an entry mask.                            *)
ExitMaskTakesEffect ==
    \A t \in Threads : at[t] = "run" /\ calls[t] = <<>> =>
        affinity[t] = Unpinned \/ affinity[t][2] = "exit"
=============================================================================
