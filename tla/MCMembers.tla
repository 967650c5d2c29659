------------------------------ MODULE MCMembers ------------------------------
(***************************************************************************)
(* A small instance of Members: two processes that can both register, and  *)
(* two member keys of which the limit admits one at a time.  The stale     *)
(* epoch and the foreign rack name are exercised by MCAuthority.           *)
(***************************************************************************)
EXTENDS Members, TLC

CONSTANTS b1, b2, w1, r1, i1, i2, m1, m2

MCBoots == {b1, b2}
MCWorkers == {w1}
MCRacks == {r1}
MCRackEpochs == {i1, i2}
MCEpochs == {1}
TwoMembers == {m1, m2}

Symmetry == Permutations(MCBoots) \cup Permutations(MCRackEpochs) \cup Permutations(TwoMembers)
=============================================================================
