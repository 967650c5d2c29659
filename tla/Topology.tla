------------------------------ MODULE Topology ------------------------------
(***************************************************************************)
(* Containment and relationships between members: the parent of a member   *)
(* record, the relationship records, and the two indexes that the code     *)
(* updates by hand beside them (children_by_parent, relationships_by_      *)
(* member) and reads in place of the records.                              *)
(*                                                                         *)
(* The rack is declared and open.  Who publishes is left out: the operator *)
(* may do everything a process may, so ownership removes no behaviour of   *)
(* the state kept here.  The generation checks of a request only reject,   *)
(* and a request may come without them; member generations, whose          *)
(* exhaustion also rejects, are in Members.  "Current" stands for every    *)
(* lifecycle but Retired.  An index entry that becomes empty is erased, so *)
(* an index is its set of pairs.                                           *)
(***************************************************************************)
EXTENDS Naturals, FiniteSets, Reachability

CONSTANTS
    Members,            \* member keys, which the code orders
    MaxRelationships,   \* limits.max_relationships
    MaxGen,             \* the largest value of a generation counter
    None                \* no parent

ASSUME TopologyAssumption ==
    /\ Members \subseteq Nat
    /\ None \notin Members
    /\ MaxRelationships \in Nat
    /\ MaxGen \in Nat \ {0}

VARIABLES
    lifecycle,              \* lifecycle[m]: "Absent", "Current" or "Retired"
    parent,                 \* parent[m]: a member or None
    relationships,          \* the keys of the relationship records
    relationshipsByMember,  \* index: pairs <<member, key>>
    childrenByParent,       \* index: pairs <<parent, child>>
    topology                \* generations.topology

topologyVars == <<lifecycle, parent, relationships, relationshipsByMember,
                  childrenByParent, topology>>

\* "ConnectedTo" stands for the symmetric classes, "AttachedTo" for the
\* directed ones that are not containment.
RelationshipClass == {"Contains", "AttachedTo", "ConnectedTo"}

RelationshipKey == [cls : RelationshipClass, from : Members, to : Members]

TopologyInit ==
    /\ lifecycle = [m \in Members |-> "Absent"]
    /\ parent = [m \in Members |-> None]
    /\ relationships = {}
    /\ relationshipsByMember = {}
    /\ childrenByParent = {}
    /\ topology = 0

-----------------------------------------------------------------------------
(* Helpers *)

Known == {m \in Members : lifecycle[m] # "Absent"}

is_symmetric(cls) == cls = "ConnectedTo"

\* The key of a symmetric relationship has its endpoints in order.
canonicalize(cls, a, b) ==
    IF is_symmetric(cls) /\ b < a THEN [cls |-> cls, from |-> b, to |-> a]
                                  ELSE [cls |-> cls, from |-> a, to |-> b]

NextGen(g) == IF g < MaxGen THEN g + 1 ELSE g

\* Mutated form of index_remove_relationship: only one endpoint forgets the key.
index_remove_one_end(idx, keys) == idx \ {<<k.from, k>> : k \in keys}

index_add_relationship(idx, keys) ==
    idx \cup {<<k.from, k>> : k \in keys} \cup {<<k.to, k>> : k \in keys}

index_remove_relationship(idx, keys) ==
    idx \ ({<<k.from, k>> : k \in keys} \cup {<<k.to, k>> : k \in keys})

\* The entry of member m in children_by_parent, when its parent is p.
IndexEntry(m, p) == IF p = None THEN {} ELSE {<<p, m>>}

\* What the keys filed under m say, in place of a search of all records.
relationships_touching(m) == {k \in relationships : <<m, k>> \in relationshipsByMember}

\* The parent chain upwards, as edges.
ParentEdges == {e \in Members \X Members : parent[e[1]] = e[2]}

\* The members that contain m according to the Contains relationships, as edges;
\* the code finds the relationships of a member in the index.
ContainerEdges ==
    {e \in Members \X Members :
        <<e[1], [cls |-> "Contains", from |-> e[2], to |-> e[1]]>> \in relationshipsByMember}

\* Mutated form of contains_cycle: only the direct parent is looked at.
contains_cycle_direct(p, child) == p = child \/ parent[p] = child

\* Following parents from p meets child, or runs into an existing cycle.
contains_cycle(p, child) ==
    LET above == ReachableFrom(p, ParentEdges, Members) IN
    \/ child \in above
    \/ \E m \in above : \E q \in Members :
         parent[m] = q /\ m \in ReachableFrom(q, ParentEdges, Members)

\* Following Contains relationships upwards from p meets child.
relationship_contains_cycle(p, child) == child \in ReachableFrom(p, ContainerEdges, Members)

\* The members below m, by the index.
descendants(m) == ReachableFrom(m, childrenByParent, Members) \ {m}

-----------------------------------------------------------------------------
(* Handlers *)

\* publish_member, as far as containment goes: a parent other than m itself that
\* has a record (retired or not) and is not below m.  Declaring a retired
\* identity leaves its children and its relationships as they are.
PublishMember(m, p, retired) ==
    /\ lifecycle[m] = "Retired" => retired
    /\ p # None => p # m /\ p \in Known /\ ~contains_cycle(p, m)
    /\ lifecycle' = [lifecycle EXCEPT ![m] = IF retired THEN "Retired" ELSE "Current"]
    /\ parent' = [parent EXCEPT ![m] = p]
    /\ childrenByParent' = (childrenByParent \ IndexEntry(m, parent[m])) \cup IndexEntry(m, p)
    /\ UNCHANGED <<relationships, relationshipsByMember, topology>>

\* withdraw_evidence with scope All: the record is a plain declaration again.
WithdrawAll(m) ==
    /\ m \in Known
    /\ lifecycle' = [lifecycle EXCEPT ![m] = "Current"]
    /\ UNCHANGED <<parent, relationships, relationshipsByMember, childrenByParent, topology>>

\* The checks of publish_relationship on a canonical key.
MayLink(key) ==
    /\ key.from # key.to
    /\ {key.from, key.to} \subseteq Known
    /\ key.cls = "Contains" => /\ ~contains_cycle(key.from, key.to)
                               /\ ~relationship_contains_cycle(key.from, key.to)
    /\ key \notin relationships => Cardinality(relationships) < MaxRelationships
    /\ topology < MaxGen

\* publish_relationship, of a new key or with new content under an existing one.
PublishRelationship(cls, a, b) ==
    LET key == canonicalize(cls, a, b) IN
    /\ MayLink(key)
    /\ relationships' = relationships \cup {key}
    /\ relationshipsByMember' =
          index_add_relationship(index_remove_relationship(relationshipsByMember, {key}), {key})
    /\ topology' = NextGen(topology)
    /\ UNCHANGED <<lifecycle, parent, childrenByParent>>

\* withdraw_relationship of a key that has a record; it goes even when the
\* topology generation cannot move.
WithdrawRelationship(cls, a, b) ==
    LET key == canonicalize(cls, a, b) IN
    /\ key \in relationships
    /\ relationships' = relationships \ {key}
    /\ relationshipsByMember' = index_remove_relationship(relationshipsByMember, {key})
    /\ topology' = NextGen(topology)
    /\ UNCHANGED <<lifecycle, parent, childrenByParent>>

\* Mutated form of TopologyAfterRemoval: retirement does not version the topology.
TopologyNotMoved(removed) == topology

\* retire_member moves the topology generation when it removed a relationship.
TopologyAfterRemoval(removed) == IF removed # {} THEN NextGen(topology) ELSE topology

\* retire_member: the relationships filed under m go with it, its children are
\* detached.  Its own parent stays.
RetireMember(m) ==
    LET removed == relationships_touching(m) IN
    /\ lifecycle[m] = "Current"
    /\ lifecycle' = [lifecycle EXCEPT ![m] = "Retired"]
    /\ relationships' = relationships \ removed
    /\ relationshipsByMember' = index_remove_relationship(relationshipsByMember, removed)
    /\ parent' = [c \in Members |-> IF parent[c] = m THEN None ELSE parent[c]]
    /\ childrenByParent' = {e \in childrenByParent : parent[e[2]] # m}
    /\ topology' = TopologyAfterRemoval(removed)

TopologyNext ==
    \/ \E m \in Members :
         \/ \E p \in Members \cup {None}, retired \in BOOLEAN : PublishMember(m, p, retired)
         \/ WithdrawAll(m)
         \/ RetireMember(m)
    \/ \E cls \in RelationshipClass, a \in Members, b \in Members :
         \/ PublishRelationship(cls, a, b)
         \/ WithdrawRelationship(cls, a, b)

TopologySpec == TopologyInit /\ [][TopologyNext]_topologyVars

-----------------------------------------------------------------------------
(* What load_state asks of a file, and what it rebuilds *)

rebuild_relationships_by_member == index_add_relationship({}, relationships)
rebuild_children_by_parent == UNION {IndexEntry(m, parent[m]) : m \in Known}

\* check_invariants, the containment and relationship parts.
ContainmentAccepted ==
    /\ \A m \in Known : parent[m] # None => parent[m] # m /\ parent[m] \in Known
    /\ Acyclic(ParentEdges, Members)

RelationshipsAccepted ==
    \A k \in relationships : k.from # k.to /\ {k.from, k.to} \subseteq Known

-----------------------------------------------------------------------------
(* Properties *)

\* The records keep their shape and their limit; a relationship of a symmetric
\* class has one key, whichever way round it was published.
TopologyTypeOK ==
    /\ lifecycle \in [Members -> {"Absent", "Current", "Retired"}]
    /\ parent \in [Members -> Members \cup {None}]
    /\ relationships \subseteq RelationshipKey
    /\ \A k \in relationships : k.cls = "ConnectedTo" => k.from < k.to
    /\ Cardinality(relationships) <= MaxRelationships
    /\ topology \in 0..MaxGen

\* The indexes that publish, withdraw and retire update one entry at a time are
\* those a rebuild from the records would give: relationships_touching and
\* descendants never miss or invent anything.
IndexesMatchRecords ==
    /\ relationshipsByMember = rebuild_relationships_by_member
    /\ childrenByParent = rebuild_children_by_parent

\* Whatever sequence of publications, withdrawals and retirements led here, the
\* containment and relationship checks of load_state accept the state, so that a
\* file saved from it can be read back.
CompositionIsLoadable == ContainmentAccepted /\ RelationshipsAccepted

\* The Contains relationships form no cycle among themselves, though the check on
\* each publication searches upwards through the index only.
ContainsIsAcyclic ==
    Acyclic({<<k.to, k.from>> : k \in {r \in relationships : r.cls = "Contains"}}, Members)

\* A member's place among the others can be read either way: m is found among the
\* descendants of its ancestors, and of nobody else.
DescendantsMirrorAncestors ==
    \A m, a \in Members :
        m \in descendants(a) <=> m # a /\ a \in ReachableFrom(m, ParentEdges, Members)

\* The structure after any sequence of handlers: indexes that match the records,
\* containment without cycles, and queries that agree in both directions.
TopologyInv ==
    /\ TopologyTypeOK
    /\ IndexesMatchRecords
    /\ ContainsIsAcyclic
    /\ DescendantsMirrorAncestors

\* A reader that remembers the topology generation notices every change to the
\* set of relationships, those made by retiring a member included, until the
\* counter is exhausted.
TopologyGenerationNotices ==
    [][relationships' # relationships => topology' > topology \/ topology = MaxGen]_topologyVars
=============================================================================
