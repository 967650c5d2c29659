---------------------------- MODULE MCReadiness ----------------------------
(***************************************************************************)
(* Two processes and the operator, one node, evidence that lives one tick. *)
(* The contracts are asked about in every state: the default one, one that *)
(* asks for health and an active publisher, and one that asks for          *)
(* structure and a power envelope and accepts synthetic evidence.          *)
(***************************************************************************)
EXTENDS Readiness, TLC

CONSTANTS b1, b2, m1, d1

TwoBoots == {b1, b2}
OneMember == {m1}
AllNodes == [m \in {m1} |-> "Node"]
OneDomain == [m \in {m1} |-> {d1}]

Symmetry == Permutations(TwoBoots)

Default ==
    [min_nodes |-> 1, min_accelerators |-> 0, min_distinct_failure_domains |-> 0,
     require_all_members_current |-> TRUE, require_member_health |-> FALSE,
     require_physical_provenance |-> TRUE, require_active_publisher |-> FALSE,
     require_structure |-> {}, require_envelopes |-> {}]

SomeContracts ==
    {Default,
     [Default EXCEPT !.require_member_health = TRUE, !.require_active_publisher = TRUE,
                     !.min_distinct_failure_domains = 1],
     [Default EXCEPT !.min_nodes = 0, !.require_structure = {"relationship"},
                     !.require_envelopes = {"power"}, !.require_physical_provenance = FALSE]}
=============================================================================
