-------------------------- MODULE MCFailureDomains --------------------------
(***************************************************************************)
(* Three domains make a diamond and a cycle of more than two; two members  *)
(* make an entry that is shared.  The limit holds when all three exist.    *)
(***************************************************************************)
EXTENDS FailureDomains, TLC

CONSTANTS d1, d2, d3, m1, m2

ThreeDomains == {d1, d2, d3}
TwoMembers == {m1, m2}

Symmetry == Permutations(ThreeDomains) \cup Permutations(TwoMembers)
=============================================================================
