------------------------------ MODULE MCRecovery ------------------------------
(***************************************************************************)
(* Small instances of Recovery: two agents, two session threads, and a     *)
(* coordinator that is started up to three times, each time with or        *)
(* without persist_after_mutation.                                         *)
(***************************************************************************)
EXTENDS Recovery, TLC

CONSTANTS b1, b2, k1, t1, t2

TwoBoots == {b1, b2}
OneRecord == {k1}
TwoThreads == {t1, t2}
EitherMode == BOOLEAN

Symmetry == Permutations(TwoBoots) \cup Permutations(TwoThreads)
=============================================================================
