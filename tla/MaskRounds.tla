----------------------------- MODULE MaskRounds -----------------------------
(***************************************************************************)
(* What the refresh of masks promises to the measurements.  The script     *)
(* announces one round of masks after the other.  A process uses one       *)
(* complete map at a time: it takes over the whole round that is           *)
(* announced, once for each announcement, and keeps it until the next one  *)
(* or its end.  A process that settles while a new round is being written  *)
(* may have masks of both rounds until the announcement calls it again.    *)
(***************************************************************************)
EXTENDS Naturals

CONSTANTS Procs,      \* the processes
          Functions,  \* the functions that masks are assigned to
          Unsettled   \* a process has no map that it will keep

VARIABLES round,      \* the last complete round
          announced,  \* it is announced, and no other is being written
          ended,      \* the processes that have ended
          masks       \* the map each process uses, or Unsettled

vars == <<round, announced, ended, masks>>

\* A mask is named by the half-writes done to its line: 2r after round r.
Whole == [f \in Functions |-> <<2 * round, 2 * round>>]

Init == /\ round = 0
        /\ announced = FALSE
        /\ ended = {}
        /\ masks = [p \in Procs |-> Unsettled]

Rewrite == announced /\ announced' = FALSE /\ UNCHANGED <<round, ended, masks>>

NewRound == ~announced /\ round' = round + 1 /\ UNCHANGED <<announced, ended, masks>>

Announce == /\ ~announced /\ announced' = TRUE
            /\ masks' = [p \in Procs |-> Unsettled]
            /\ UNCHANGED <<round, ended>>

\* An update has ended: a whole map, if announced that of the round.
Settle(p) ==
    /\ p \notin ended
    /\ masks[p] = Unsettled
    /\ masks'[p] \in [Functions -> Nat \X Nat]
    /\ announced => masks'[p] = Whole
    /\ masks' = [masks EXCEPT ![p] = masks'[p]]
    /\ UNCHANGED <<round, announced, ended>>

\* Processes end, of themselves or with the script, and do not come back.
End == /\ ended \subseteq ended'
       /\ masks' = [p \in Procs |-> IF p \in ended' THEN Unsettled ELSE masks[p]]
       /\ announced' \in {announced, FALSE}
       /\ UNCHANGED round

Next == Rewrite \/ NewRound \/ Announce \/ (\E p \in Procs : Settle(p)) \/ End

Spec == Init /\ [][Next]_vars
=============================================================================
