---------------------------- MODULE MCSnapshots ----------------------------
(***************************************************************************)
(* Two rack incarnations, three changes and two snapshots over three       *)
(* processes, generations that are exhausted at 2, one retained snapshot.  *)
(***************************************************************************)
EXTENDS Snapshots, TLC

CONSTANTS e1, e2

TwoEpochs == {e1, e2}
Symmetry == Permutations(TwoEpochs)
=============================================================================
