---------------------------- MODULE MCPermutate ----------------------------
(* Arrays for TLC: two orders to draw and, in one list, a repeated entry.     *)
EXTENDS Permutate

CONSTANTS c1, c2, c3, s1, s2

Lists    == {<<c1, c2, c3>>, <<c2>>, <<c1, c2, c1>>}
TwoSites == <<s1, s2>>
=============================================================================
