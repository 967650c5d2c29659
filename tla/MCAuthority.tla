----------------------------- MODULE MCAuthority -----------------------------
(***************************************************************************)
(* A small instance of Authority: three agent processes and room for two,  *)
(* two rack names of which one gets declared, a stale coordinator epoch 0  *)
(* next to the current one, and counters that reach their limit.           *)
(***************************************************************************)
EXTENDS Authority, TLC

CONSTANTS b1, b2, b3, w1, w2, r1, r2, i1, i2

MCBoots == {b1, b2, b3}
MCWorkers == {w1, w2}
MCRacks == {r1, r2}
MCRackEpochs == {i1, i2}
MCEpochs == {0, 1}

Symmetry == Permutations(MCBoots) \cup Permutations(MCWorkers)
              \cup Permutations(MCRacks) \cup Permutations(MCRackEpochs)
=============================================================================
