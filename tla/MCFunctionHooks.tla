--------------------------- MODULE MCFunctionHooks ---------------------------
(* FunctionHooks for TLC. Nothing tells two threads or two functions apart; *)
(* at most MaxCalls calls are in progress at once.                          *)
EXTENDS FunctionHooks, FiniteSetsExt, TLC

CONSTANT MaxCalls  \* bound on the calls in progress, of all threads

FewCalls == MapThenSumSet(LAMBDA t : Len(calls[t]), Threads) <= MaxCalls

Symmetry == Permutations(Threads) \cup Permutations(Functions)
=============================================================================
