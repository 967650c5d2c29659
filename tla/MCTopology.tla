----------------------------- MODULE MCTopology -----------------------------
(***************************************************************************)
(* Three members are the least with a cycle that a look at the direct      *)
(* parent misses, and three relationships are what such a cycle takes.     *)
(***************************************************************************)
EXTENDS Topology

ThreeMembers == 1..3
=============================================================================
