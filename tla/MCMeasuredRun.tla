--------------------------- MODULE MCMeasuredRun ---------------------------
(* Constants of MeasuredRun for TLC. *)
EXTENDS MeasuredRun

CONSTANTS b, r1, r2, t1, t2

\* permutate.sh starts runs like Timed, chrome-experimenter.py like External.
Timed    == [TIMING |-> "number", IPC |-> "unset", MMAP_FILE |-> FALSE, LOG_FILE |-> TRUE,
             CORE_CONFIG |-> TRUE, noZygote |-> TRUE,
             renderers |-> {r1}, documents |-> {t1, t2}, calls |-> 0]
External == [TIMING |-> "external", IPC |-> "on", MMAP_FILE |-> TRUE, LOG_FILE |-> TRUE,
             CORE_CONFIG |-> FALSE, noZygote |-> TRUE,
             renderers |-> {r1, r2}, documents |-> {t1}, calls |-> 1]

RunsOfTheScripts ==
    { Timed, External,
      [Timed EXCEPT !.renderers = {r1, r2}, !.documents = {}, !.calls = 1],
      [Timed EXCEPT !.TIMING = "unset", !.documents = {t1}, !.calls = 1],
      [Timed EXCEPT !.noZygote = FALSE, !.documents = {t1}, !.calls = 1],
      \* single process
      [Timed EXCEPT !.renderers = {}, !.calls = 1],
      [External EXCEPT !.renderers = {}],
      \* CORE_CONFIG is missing, not missed, and what exits at once
      [Timed EXCEPT !.IPC = "other", !.CORE_CONFIG = FALSE, !.TIMING = "invalid", !.renderers = {}],
      [Timed EXCEPT !.CORE_CONFIG = FALSE],
      [Timed EXCEPT !.LOG_FILE = FALSE, !.noZygote = FALSE],
      [External EXCEPT !.MMAP_FILE = FALSE] }

\* Thread ids that differ by 2^16.
ThreadIds == [p \in Procs |-> IF p = b THEN 300 ELSE IF p = r1 THEN 301 ELSE 65837]
=============================================================================
