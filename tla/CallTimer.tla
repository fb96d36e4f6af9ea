----------------------------- MODULE CallTimer -----------------------------
(***************************************************************************)
(* What the latency column of the logs promises: every measured call of a  *)
(* thread is reported with the time between its own entry and its own      *)
(* exit, calls of one thread being properly nested.                        *)
(***************************************************************************)
EXTENDS Naturals, Sequences

CONSTANTS Threads,    \* threads that run measured functions
          Functions,  \* the measured functions
          NoCall      \* a thread has reported no call since it entered its last one

VARIABLES open,    \* for each thread, the calls it is in, innermost last
          report,  \* the call each thread has just measured to its end
          now      \* the monotonic clock

vars == <<open, report, now>>

Init == /\ open = [t \in Threads |-> <<>>]
        /\ report = [t \in Threads |-> NoCall]
        /\ now = 0

Enter(t, f) ==
    /\ open' = [open EXCEPT ![t] = Append(@, [fn |-> f, start |-> now])]
    /\ report' = [report EXCEPT ![t] = NoCall]
    /\ UNCHANGED now

Leave(t) ==
    /\ open[t] # <<>>
    /\ LET c == open[t][Len(open[t])] IN
         /\ report' = [report EXCEPT ![t] = [fn |-> c.fn, latency |-> now - c.start]]
         /\ open' = [open EXCEPT ![t] = SubSeq(@, 1, Len(@) - 1)]
    /\ UNCHANGED now

Tick == now' = now + 1 /\ UNCHANGED <<open, report>>

Next == Tick \/ \E t \in Threads : Leave(t) \/ \E f \in Functions : Enter(t, f)

Spec == Init /\ [][Next]_vars
=============================================================================
