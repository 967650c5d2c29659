--------------------------- MODULE StructureProofs ---------------------------
(***************************************************************************)
(* The two structures the coordinator keeps over the members: containment  *)
(* and relationships (Topology), and nested failure domains                *)
(* (FailureDomains).  Both are graphs without cycles kept beside indexes,  *)
(* and both proofs rest on the same facts about reachability, which come   *)
(* first.                                                                  *)
(***************************************************************************)
EXTENDS Topology, FailureDomains, Reachability, FiniteSetTheorems, TLAPS

-----------------------------------------------------------------------------
(***************************************************************************)
(* Facts about reachability and cycles, for graphs of any size.  Module    *)
(* Reachability defines a reachable node by the closed sets that hold the  *)
(* start, so each fact is proved by exhibiting a closed set; no induction  *)
(* over paths is needed.                                                   *)
(***************************************************************************)

\* A start is reachable from itself.
LEMMA ReachSelf ==
    ASSUME NEW N, NEW E, NEW x \in N
    PROVE  x \in ReachableFrom(x, E, N)
  BY DEF ReachableFrom

\* What is reachable stays within every closed set that holds the start.
LEMMA ReachLeast ==
    ASSUME NEW N, NEW E, NEW x, NEW S \in SUBSET N, x \in S, Closed(S, E)
    PROVE  ReachableFrom(x, E, N) \subseteq S
  BY DEF ReachableFrom

\* Following an edge from a reachable node leads to a reachable node.
LEMMA ReachClosed ==
    ASSUME NEW N, NEW E \in SUBSET (N \X N), NEW x
    PROVE  /\ ReachableFrom(x, E, N) \in SUBSET N
           /\ Closed(ReachableFrom(x, E, N), E)
<1>1. ReachableFrom(x, E, N) \in SUBSET N
  BY DEF ReachableFrom
<1>2. ASSUME NEW e \in E, e[1] \in ReachableFrom(x, E, N)
      PROVE  e[2] \in ReachableFrom(x, E, N)
  <2>1. e[2] \in N
    OBVIOUS
  <2>2. ASSUME NEW S \in SUBSET N, x \in S, Closed(S, E)
        PROVE  e[2] \in S
    BY <1>2, <2>2 DEF Closed, ReachableFrom
  <2> QED BY <2>1, <2>2 DEF ReachableFrom
<1> QED
  BY <1>1, <1>2 DEF Closed

\* Reachability is transitive.
LEMMA ReachTrans ==
    ASSUME NEW N, NEW E \in SUBSET (N \X N), NEW x, NEW y \in ReachableFrom(x, E, N)
    PROVE  ReachableFrom(y, E, N) \subseteq ReachableFrom(x, E, N)
  BY ReachClosed, ReachLeast

\* One step: the end of an edge, and what it reaches, is reachable.
LEMMA ReachStep ==
    ASSUME NEW N, NEW E \in SUBSET (N \X N), NEW e \in E
    PROVE  ReachableFrom(e[2], E, N) \subseteq ReachableFrom(e[1], E, N)
<1>1. e[1] \in N
  OBVIOUS
<1>2. e[1] \in ReachableFrom(e[1], E, N)
  BY <1>1, ReachSelf
<1>3. e[2] \in ReachableFrom(e[1], E, N)
  BY <1>2, ReachClosed DEF Closed
<1> QED
  BY <1>3, ReachTrans

\* Fewer edges reach fewer nodes.
LEMMA ReachMono ==
    ASSUME NEW N, NEW E, NEW D \in SUBSET E, NEW x
    PROVE  ReachableFrom(x, D, N) \subseteq ReachableFrom(x, E, N)
  BY DEF ReachableFrom, Closed

\* A graph without cycles has none after edges are removed.
LEMMA AcyclicSubset ==
    ASSUME NEW N, NEW E, NEW D \in SUBSET E, Acyclic(E, N)
    PROVE  Acyclic(D, N)
  BY ReachMono DEF Acyclic

\* New edges from a, out of reach of a node, add nothing to what that node
\* reaches; otherwise they add what their ends reach.
LEMMA ReachNewEdges ==
    ASSUME NEW N, NEW E \in SUBSET (N \X N), NEW a \in N, NEW P \in SUBSET N, NEW x \in N,
           NEW F, \A f \in F : f \in E \/ (f[1] = a /\ f[2] \in P)
    PROVE  /\ a \notin ReachableFrom(x, E, N) =>
                ReachableFrom(x, F, N) \subseteq ReachableFrom(x, E, N)
           /\ \A z \in ReachableFrom(x, F, N) :
                z \in ReachableFrom(x, E, N) \/ \E p \in P : z \in ReachableFrom(p, E, N)
<1> DEFINE X == ReachableFrom(x, E, N)
           B == {z \in N : \E p \in P : z \in ReachableFrom(p, E, N)}
<1>1. X \in SUBSET N /\ Closed(X, E)
  BY ReachClosed
<1>2. x \in X
  BY ReachSelf
<1>3. /\ B \in SUBSET N /\ P \subseteq B
      /\ Closed(B, E)
  <2>1. \A p \in P : /\ ReachableFrom(p, E, N) \in SUBSET N
                     /\ Closed(ReachableFrom(p, E, N), E)
                     /\ p \in ReachableFrom(p, E, N)
    BY ReachClosed, ReachSelf
  <2> QED BY <2>1 DEF Closed
<1> HIDE DEF X, B
<1>4. ASSUME a \notin X
      PROVE  Closed(X, F)
  BY <1>1, <1>4 DEF Closed
<1>5. Closed(X \cup B, F)
  BY <1>1, <1>3 DEF Closed
<1>6. ASSUME a \notin X
      PROVE  ReachableFrom(x, F, N) \subseteq X
  BY <1>1, <1>2, <1>4, <1>6, ReachLeast
<1>7. ReachableFrom(x, F, N) \subseteq X \cup B
  BY <1>1, <1>2, <1>3, <1>5, ReachLeast
<1> QED
  BY <1>6, <1>7 DEF X, B

\* The check that the handlers make before they add edges from one node is
\* enough: when that node cannot be reached from any of their ends, no cycle is
\* closed, not even by several of them together.
THEOREM AcyclicNewEdges ==
    ASSUME NEW N, NEW E \in SUBSET (N \X N), NEW a \in N, NEW P \in SUBSET N,
           Acyclic(E, N), \A p \in P : a \notin ReachableFrom(p, E, N)
    PROVE  Acyclic(E \cup ({a} \X P), N)
<1> DEFINE F == E \cup ({a} \X P)
<1>0. \A x \in N : /\ a \notin ReachableFrom(x, E, N) =>
                          ReachableFrom(x, F, N) \subseteq ReachableFrom(x, E, N)
                   /\ \A z \in ReachableFrom(x, F, N) :
                         z \in ReachableFrom(x, E, N) \/ \E p \in P : z \in ReachableFrom(p, E, N)
  <2>1. \A f \in F : f \in E \/ (f[1] = a /\ f[2] \in P)
    OBVIOUS
  <2> HIDE DEF F
  <2> QED BY <2>1, ReachNewEdges
<1> SUFFICES ASSUME NEW e \in F, e[1] \in ReachableFrom(e[2], F, N)
             PROVE  FALSE
  BY DEF Acyclic
<1>1. CASE e \in {a} \X P
  <2>1. e[1] = a /\ e[2] \in P
    BY <1>1
  <2>2. ReachableFrom(e[2], F, N) \subseteq ReachableFrom(e[2], E, N)
    BY <1>0, <2>1
  <2> QED BY <2>1, <2>2
<1>2. CASE e \in E
  <2>1. e[1] \in N /\ e[2] \in N
    BY <1>2
  <2>2. e[1] \notin ReachableFrom(e[2], E, N)
    BY <1>2 DEF Acyclic
  <2>3. a \in ReachableFrom(e[2], E, N)
    BY <1>0, <2>1, <2>2
  <2>4. PICK p \in P : e[1] \in ReachableFrom(p, E, N)
    BY <1>0, <2>1, <2>2
  <2>5. e[2] \in ReachableFrom(p, E, N)
    BY <1>2, <2>4, ReachClosed DEF Closed
  <2>6. ReachableFrom(e[2], E, N) \subseteq ReachableFrom(p, E, N)
    BY <2>5, ReachTrans
  <2> QED BY <2>3, <2>6
<1> QED
  BY <1>1, <1>2

\* The case of a single edge.
LEMMA AcyclicNewEdge ==
    ASSUME NEW N, NEW E \in SUBSET (N \X N), NEW a \in N, NEW b \in N,
           Acyclic(E, N), a \notin ReachableFrom(b, E, N)
    PROVE  Acyclic(E \cup {<<a, b>>}, N)
<1>1. {a} \X {b} = {<<a, b>>}
  OBVIOUS
<1>2. Acyclic(E \cup ({a} \X {b}), N)
  BY AcyclicNewEdges
<1> QED
  BY <1>1, <1>2

\* One direction of ReachConverse.
LEMMA ReachConverseHalf ==
    ASSUME NEW N, NEW E \in SUBSET (N \X N), NEW D \in SUBSET (N \X N),
           \A u, v \in N : <<u, v>> \in E => <<v, u>> \in D,
           NEW x \in N, NEW y \in ReachableFrom(x, E, N)
    PROVE  x \in ReachableFrom(y, D, N)
<1> DEFINE S == {z \in N : x \in ReachableFrom(z, D, N)}
<1>1. x \in S
  BY ReachSelf
<1>2. ASSUME NEW e \in E, e[1] \in S
      PROVE  e[2] \in S
  <2>1. e[1] \in N /\ e[2] \in N /\ e = <<e[1], e[2]>>
    OBVIOUS
  <2>2. PICK d \in D : d = <<e[2], e[1]>>
    BY <2>1
  <2>3. ReachableFrom(e[1], D, N) \subseteq ReachableFrom(e[2], D, N)
    BY <2>2, ReachStep
  <2> QED BY <1>2, <2>1, <2>3
<1>3. Closed(S, E)
  BY <1>2 DEF Closed
<1> HIDE DEF S
<1>4. y \in S
  <2>1. S \in SUBSET N
    BY DEF S
  <2> QED BY <1>1, <1>3, <2>1, ReachLeast
<1> QED
  BY <1>4 DEF S

\* Going up the edges is the converse of going down: x leads to y along the
\* edges exactly when y leads to x against them.
THEOREM ReachConverse ==
    ASSUME NEW N, NEW E \in SUBSET (N \X N), NEW D \in SUBSET (N \X N),
           \A u, v \in N : <<u, v>> \in E <=> <<v, u>> \in D,
           NEW x \in N, NEW y \in N
    PROVE  y \in ReachableFrom(x, E, N) <=> x \in ReachableFrom(y, D, N)
  BY ReachConverseHalf

\* A node with one successor reaches itself and what its successor reaches.
LEMMA ReachOneSuccessor ==
    ASSUME NEW N, NEW E \in SUBSET (N \X N), NEW w \in N, NEW v \in N, <<w, v>> \in E,
           \A u \in N : <<w, u>> \in E => u = v
    PROVE  ReachableFrom(w, E, N) \subseteq {w} \cup ReachableFrom(v, E, N)
<1> DEFINE V == ReachableFrom(v, E, N)
<1>1. V \in SUBSET N /\ Closed(V, E) /\ v \in V
  BY ReachClosed, ReachSelf
<1> HIDE DEF V
<1>2. Closed({w} \cup V, E)
  BY <1>1 DEF Closed
<1> QED
  BY <1>1, <1>2, ReachLeast DEF V

\* Where every node has at most one successor, what a node reaches is a chain.
THEOREM ReachIsChain ==
    ASSUME NEW N, NEW E \in SUBSET (N \X N),
           \A w, u, v \in N : <<w, u>> \in E /\ <<w, v>> \in E => u = v,
           NEW d \in N, NEW x \in ReachableFrom(d, E, N), NEW y \in ReachableFrom(d, E, N)
    PROVE  y \in ReachableFrom(x, E, N) \/ x \in ReachableFrom(y, E, N)
<1> DEFINE S == {w \in N : w \in ReachableFrom(x, E, N) \/ x \in ReachableFrom(w, E, N)}
<1>0. x \in N
  BY DEF ReachableFrom
<1>1. d \in S
  OBVIOUS
<1>2. ASSUME NEW e \in E, e[1] \in S
      PROVE  e[2] \in S
  <2> DEFINE w == e[1]
             v == e[2]
  <2>1. w \in N /\ v \in N /\ <<w, v>> \in E
    OBVIOUS
  <2>2. CASE w \in ReachableFrom(x, E, N)
    BY <2>1, <2>2, ReachClosed DEF Closed
  <2>3. CASE x \in ReachableFrom(w, E, N) /\ w \notin ReachableFrom(x, E, N)
    <3>1. x # w
      BY <1>0, <2>3, ReachSelf
    <3>2. ReachableFrom(w, E, N) \subseteq {w} \cup ReachableFrom(v, E, N)
      BY <2>1, ReachOneSuccessor
    <3> QED BY <2>1, <2>3, <3>1, <3>2
  <2> QED BY <1>2, <2>2, <2>3
<1>3. Closed(S, E) /\ S \in SUBSET N
  BY <1>2 DEF Closed
<1> HIDE DEF S
<1>4. y \in S
  BY <1>1, <1>3, ReachLeast
<1> QED
  BY <1>4 DEF S

\* A walk that meets a node a second time proves a cycle when every node has at
\* most one successor: in an acyclic graph no two nodes on the way from d lead to
\* the same node.
THEOREM ChainMeetsOnce ==
    ASSUME NEW N, NEW E \in SUBSET (N \X N), Acyclic(E, N),
           \A w, u, v \in N : <<w, u>> \in E /\ <<w, v>> \in E => u = v,
           NEW d \in N, NEW x \in ReachableFrom(d, E, N), NEW y \in ReachableFrom(d, E, N),
           NEW z \in N, <<x, z>> \in E, <<y, z>> \in E
    PROVE  x = y
<1>1. ASSUME NEW p \in N, NEW q \in N, p # q, q \in ReachableFrom(p, E, N),
             <<p, z>> \in E, <<q, z>> \in E
      PROVE  FALSE
  <2>1. ReachableFrom(p, E, N) \subseteq {p} \cup ReachableFrom(z, E, N)
    BY <1>1, ReachOneSuccessor
  <2>2. q \in ReachableFrom(z, E, N)
    BY <1>1, <2>1
  <2> QED BY <1>1, <2>2 DEF Acyclic
<1>2. x \in N /\ y \in N
  BY DEF ReachableFrom
<1>3. y \in ReachableFrom(x, E, N) \/ x \in ReachableFrom(y, E, N)
  BY ReachIsChain
<1> QED
  BY <1>1, <1>2, <1>3

-----------------------------------------------------------------------------
(***************************************************************************)
(* Theorems about Topology, for every set of member keys and every limit.  *)
(*                                                                         *)
(* The inductive invariant takes the two parts of the properties that the  *)
(* handlers themselves rely on (the records' shape and limit, indexes that *)
(* match them, no cycle of parents or of Contains relationships, endpoints *)
(* that have records) and adds two facts: the set of relationships is      *)
(* finite, and a key without a record has no parent, so that the index     *)
(* rebuilt from the records holds every parent edge.                       *)
(***************************************************************************)

\* Containment runs between members that have records.
ParentsHaveRecords ==
    \A m \in Members : parent[m] # None => m \in Known /\ parent[m] \in Known

\* The inductive invariant.
TopologyIndInv ==
    /\ TopologyTypeOK
    /\ IsFiniteSet(relationships)
    /\ IndexesMatchRecords
    /\ ParentsHaveRecords
    /\ Acyclic(ParentEdges, Members)
    /\ RelationshipsAccepted
    /\ ContainsIsAcyclic

\* The Contains relationships as edges from the contained to the container.
ContainsEdges == {<<k.to, k.from>> : k \in {r \in relationships : r.cls = "Contains"}}

\* The relationship index, entry by entry.
LEMMA RelationshipIndex ==
    ASSUME NEW keys
    PROVE  \A x, k : <<x, k>> \in index_add_relationship({}, keys) <=>
                        k \in keys /\ (x = k.from \/ x = k.to)
  BY DEF index_add_relationship

\* Adding keys to an index that matches a set of keys, or removing them, gives
\* the index that matches the new set.
LEMMA IndexFollows ==
    ASSUME NEW keys, NEW ks
    PROVE  /\ index_remove_relationship(index_add_relationship({}, keys), ks)
                = index_add_relationship({}, keys \ ks)
           /\ index_add_relationship(
                index_remove_relationship(index_add_relationship({}, keys), ks), ks)
                = index_add_relationship({}, keys \cup ks)
  BY DEF index_add_relationship, index_remove_relationship

\* The children index rebuilt from records holds the parent edges turned round.
LEMMA ChildrenIndex ==
    ASSUME NEW par, NEW records \in SUBSET Members,
           \A m \in Members : par[m] # None => m \in records
    PROVE  UNION {IndexEntry(m, par[m]) : m \in records}
              = {<<par[m], m>> : m \in {c \in Members : par[c] # None}}
  BY DEF IndexEntry

\* The search upwards through the index is a search of the Contains
\* relationships.
LEMMA ContainerEdgesAreContains ==
    ASSUME TopologyTypeOK, relationshipsByMember = rebuild_relationships_by_member
    PROVE  /\ ContainerEdges = ContainsEdges
           /\ ContainsEdges \in SUBSET (Members \X Members)
<1>1. relationships \subseteq RelationshipKey
  BY DEF TopologyTypeOK
<1>2. ContainsEdges \in SUBSET (Members \X Members)
  BY <1>1 DEF ContainsEdges, RelationshipKey
<1>3. ASSUME NEW u \in Members, NEW v \in Members
      PROVE  <<u, v>> \in ContainerEdges <=> <<u, v>> \in ContainsEdges
  <2> DEFINE key == [cls |-> "Contains", from |-> v, to |-> u]
  <2>1. <<u, v>> \in ContainerEdges <=> <<u, key>> \in relationshipsByMember
    BY DEF ContainerEdges
  <2>2. <<u, key>> \in relationshipsByMember <=> key \in relationships
    <3>1. u = key.to
      OBVIOUS
    <3> HIDE DEF key
    <3> QED BY <3>1, RelationshipIndex DEF rebuild_relationships_by_member
  <2>3. <<u, v>> \in ContainsEdges <=> key \in relationships
    <3>1. ASSUME NEW k \in relationships, k.cls = "Contains", k.to = u, k.from = v
          PROVE  k = key
      BY <1>1, <3>1 DEF RelationshipKey
    <3>2. key.cls = "Contains" /\ key.to = u /\ key.from = v
      OBVIOUS
    <3> HIDE DEF key
    <3> QED BY <3>1, <3>2 DEF ContainsEdges
  <2> QED BY <2>1, <2>2, <2>3
<1>4. ContainerEdges \in SUBSET (Members \X Members)
  BY DEF ContainerEdges
<1> QED
  BY <1>2, <1>3, <1>4

\* An empty instance satisfies the invariant.
THEOREM TopologyInitInv == TopologyInit => TopologyIndInv
<1> SUFFICES ASSUME TopologyInit
             PROVE  TopologyIndInv
  OBVIOUS
<1>1. TopologyTypeOK /\ IsFiniteSet(relationships)
  BY FS_EmptySet, TopologyAssumption DEF TopologyInit, TopologyTypeOK
<1>2. ParentsHaveRecords /\ RelationshipsAccepted
  BY DEF TopologyInit, ParentsHaveRecords, RelationshipsAccepted
<1>3. IndexesMatchRecords
  <2>1. relationshipsByMember = rebuild_relationships_by_member
    BY DEF TopologyInit, rebuild_relationships_by_member, index_add_relationship
  <2>2. childrenByParent = rebuild_children_by_parent
    BY DEF TopologyInit, rebuild_children_by_parent, Known
  <2> QED BY <2>1, <2>2 DEF IndexesMatchRecords
<1>4. ParentEdges = {}
  BY TopologyAssumption DEF TopologyInit, ParentEdges
<1>5. Acyclic(ParentEdges, Members)
  BY <1>4 DEF Acyclic
<1>6. ContainsIsAcyclic
  BY DEF TopologyInit, ContainsIsAcyclic, Acyclic
<1> QED
  BY <1>1, <1>2, <1>3, <1>5, <1>6 DEF TopologyIndInv

\* A topology generation advanced stays in range.
LEMMA TopologyRange ==
    ASSUME topology \in 0..MaxGen
    PROVE  /\ NextGen(topology) \in 0..MaxGen
           /\ topology < MaxGen => NextGen(topology) > topology
           /\ NextGen(topology) > topology \/ topology = MaxGen
  BY TopologyAssumption DEF NextGen

\* publish_member keeps the invariant: the search for the member above its new
\* parent is what keeps containment free of cycles.
LEMMA PublishMemberInv ==
    ASSUME TopologyIndInv, NEW m \in Members, NEW p \in Members \cup {None}, NEW retired \in BOOLEAN,
           PublishMember(m, p, retired)
    PROVE  TopologyIndInv'
<1> USE DEF TopologyIndInv
<1>1. /\ lifecycle' = [lifecycle EXCEPT ![m] = IF retired THEN "Retired" ELSE "Current"]
      /\ parent' = [parent EXCEPT ![m] = p]
      /\ UNCHANGED <<relationships, relationshipsByMember, topology>>
      /\ p # None => p # m /\ p \in Known /\ ~contains_cycle(p, m)
  BY DEF PublishMember
<1>2. TopologyTypeOK' /\ IsFiniteSet(relationships)'
  BY <1>1 DEF TopologyTypeOK
<1>3. Known' = Known \cup {m}
  BY <1>1 DEF Known, TopologyTypeOK
<1>4. ParentsHaveRecords'
  BY <1>1, <1>3 DEF ParentsHaveRecords, TopologyTypeOK
<1>5. RelationshipsAccepted' /\ ContainsIsAcyclic'
  BY <1>1, <1>3 DEF RelationshipsAccepted, ContainsIsAcyclic
<1>6. IndexesMatchRecords'
  <2>1. childrenByParent = {<<parent[c], c>> : c \in {x \in Members : parent[x] # None}}
    BY ChildrenIndex DEF IndexesMatchRecords, rebuild_children_by_parent, ParentsHaveRecords, Known
  <2>2. childrenByParent' = (childrenByParent \ IndexEntry(m, parent[m])) \cup IndexEntry(m, p)
    BY DEF PublishMember
  <2>3. childrenByParent' = {<<parent'[c], c>> : c \in {x \in Members : parent'[x] # None}}
    BY <1>1, <2>1, <2>2 DEF IndexEntry, TopologyTypeOK
  <2>4. childrenByParent' = rebuild_children_by_parent'
    BY <1>4, <2>3, ChildrenIndex DEF rebuild_children_by_parent, ParentsHaveRecords, Known
  <2> QED BY <1>1, <2>4 DEF IndexesMatchRecords, rebuild_relationships_by_member
<1>7. Acyclic(ParentEdges, Members)'
  <2> DEFINE Kept == {e \in ParentEdges : e[1] # m}
  <2>1. Kept \in SUBSET ParentEdges /\ Kept \in SUBSET (Members \X Members)
    BY DEF ParentEdges
  <2>2. Acyclic(Kept, Members)
    BY <2>1, AcyclicSubset
  <2>3. ParentEdges' = Kept \cup {e \in {<<m, p>>} : p # None}
    BY <1>1, TopologyAssumption DEF ParentEdges, TopologyTypeOK
  <2> HIDE DEF Kept
  <2>4. CASE p = None
    BY <2>2, <2>3, <2>4
  <2>5. CASE p # None
    <3>1. m \notin ReachableFrom(p, ParentEdges, Members)
      BY <1>1, <2>5 DEF contains_cycle
    <3>2. m \notin ReachableFrom(p, Kept, Members)
      BY <2>1, <3>1, ReachMono
    <3>3. Acyclic(Kept \cup {<<m, p>>}, Members)
      BY <2>1, <2>2, <2>5, <3>2, AcyclicNewEdge
    <3> QED BY <2>3, <2>5, <3>3
  <2> QED BY <2>4, <2>5
<1> QED
  BY <1>2, <1>4, <1>5, <1>6, <1>7

\* The canonical key of a publication is a key, in order when it is symmetric.
LEMMA CanonicalKey ==
    ASSUME NEW cls \in RelationshipClass, NEW a \in Members, NEW b \in Members
    PROVE  /\ canonicalize(cls, a, b) \in RelationshipKey
           /\ LET key == canonicalize(cls, a, b) IN
                key.cls = "ConnectedTo" /\ key.from # key.to => key.from < key.to
  BY TopologyAssumption DEF canonicalize, is_symmetric, RelationshipKey

\* publish_relationship keeps the invariant: the search upwards through the
\* index keeps the Contains relationships free of cycles.
LEMMA PublishRelationshipInv ==
    ASSUME TopologyIndInv, NEW cls \in RelationshipClass, NEW a \in Members, NEW b \in Members,
           PublishRelationship(cls, a, b)
    PROVE  TopologyIndInv'
<1> DEFINE key == canonicalize(cls, a, b)
<1>1. /\ MayLink(key)
      /\ relationships' = relationships \cup {key}
      /\ relationshipsByMember' =
            index_add_relationship(index_remove_relationship(relationshipsByMember, {key}), {key})
      /\ topology' = NextGen(topology)
      /\ UNCHANGED <<lifecycle, parent, childrenByParent>>
  BY DEF PublishRelationship
<1>2. /\ key \in RelationshipKey
      /\ key.cls = "ConnectedTo" /\ key.from # key.to => key.from < key.to
  BY CanonicalKey
<1> HIDE DEF key
<1>3. key.from # key.to /\ {key.from, key.to} \subseteq Known
  BY <1>1 DEF MayLink
<1>4. Known' = Known
  BY <1>1 DEF Known
<1>5. /\ IsFiniteSet(relationships)'
      /\ Cardinality(relationships)' <= MaxRelationships
  <2>1. /\ IsFiniteSet(relationships \cup {key})
        /\ Cardinality(relationships \cup {key}) =
             IF key \in relationships THEN Cardinality(relationships)
                                      ELSE Cardinality(relationships) + 1
        /\ Cardinality(relationships) \in Nat
    BY FS_AddElement, FS_CardinalityType DEF TopologyIndInv
  <2>2. /\ Cardinality(relationships) <= MaxRelationships
        /\ key \notin relationships => Cardinality(relationships) < MaxRelationships
    BY <1>1 DEF MayLink, TopologyIndInv, TopologyTypeOK
  <2> QED BY <1>1, <2>1, <2>2, TopologyAssumption
<1>6. topology' \in 0..MaxGen
  BY <1>1, TopologyRange DEF TopologyIndInv, TopologyTypeOK
<1>7. TopologyTypeOK'
  BY <1>1, <1>2, <1>3, <1>5, <1>6 DEF TopologyIndInv, TopologyTypeOK
<1>8. ParentsHaveRecords' /\ Acyclic(ParentEdges, Members)'
  BY <1>1, <1>4 DEF TopologyIndInv, ParentsHaveRecords, ParentEdges
<1>9. RelationshipsAccepted'
  BY <1>1, <1>3, <1>4 DEF TopologyIndInv, RelationshipsAccepted
<1>10. IndexesMatchRecords'
  <2>1. relationshipsByMember' = index_add_relationship({}, relationships')
    BY <1>1, IndexFollows DEF TopologyIndInv, IndexesMatchRecords, rebuild_relationships_by_member
  <2> QED
    BY <1>1, <1>4, <2>1 DEF TopologyIndInv, IndexesMatchRecords,
                        rebuild_relationships_by_member, rebuild_children_by_parent
<1>11. ContainsIsAcyclic'
  <2>1. CASE key.cls # "Contains"
    <3>1. {r \in relationships' : r.cls = "Contains"} = {r \in relationships : r.cls = "Contains"}
      BY <1>1, <2>1
    <3> QED BY <3>1 DEF TopologyIndInv, ContainsIsAcyclic
  <2>2. CASE key.cls = "Contains"
    <3>1. /\ ContainerEdges = ContainsEdges
          /\ ContainsEdges \in SUBSET (Members \X Members)
      BY ContainerEdgesAreContains DEF TopologyIndInv, IndexesMatchRecords
    <3>2. key.to \notin ReachableFrom(key.from, ContainsEdges, Members)
      BY <1>1, <2>2, <3>1 DEF MayLink, relationship_contains_cycle
    <3>3. Acyclic(ContainsEdges, Members)
      BY DEF TopologyIndInv, ContainsIsAcyclic, ContainsEdges
    <3>4. key.to \in Members /\ key.from \in Members
      BY <1>2 DEF RelationshipKey
    <3>5. Acyclic(ContainsEdges \cup {<<key.to, key.from>>}, Members)
      BY <3>1, <3>2, <3>3, <3>4, AcyclicNewEdge
    <3>6. ContainsEdges' = ContainsEdges \cup {<<key.to, key.from>>}
      BY <1>1, <2>2 DEF ContainsEdges
    <3> QED BY <3>5, <3>6 DEF ContainsIsAcyclic, ContainsEdges
  <2> QED BY <2>1, <2>2
<1> QED
  BY <1>5, <1>7, <1>8, <1>9, <1>10, <1>11 DEF TopologyIndInv

\* Removing relationships and detaching children keeps the invariant, as long as
\* the indexes follow.
LEMMA RemovalInv ==
    ASSUME TopologyIndInv, NEW removed,
           relationships' = relationships \ removed,
           relationshipsByMember' = index_remove_relationship(relationshipsByMember, removed),
           lifecycle' \in [Members -> {"Absent", "Current", "Retired"}],
           Known' = Known,
           topology' \in 0..MaxGen,
           NEW D \in SUBSET Members,
           parent' = [c \in Members |-> IF c \in D THEN None ELSE parent[c]],
           childrenByParent' = {e \in childrenByParent : e[2] \notin D}
    PROVE  TopologyIndInv'
<1>1. /\ IsFiniteSet(relationships)'
      /\ Cardinality(relationships)' <= MaxRelationships
  <2>1. relationships' \in SUBSET relationships
    OBVIOUS
  <2>2. /\ IsFiniteSet(relationships')
        /\ Cardinality(relationships') <= Cardinality(relationships)
        /\ Cardinality(relationships) \in Nat /\ Cardinality(relationships') \in Nat
    BY <2>1, FS_Subset, FS_CardinalityType DEF TopologyIndInv
  <2> QED
    BY <2>2, TopologyAssumption DEF TopologyIndInv, TopologyTypeOK
<1>2. TopologyTypeOK'
  BY <1>1 DEF TopologyIndInv, TopologyTypeOK
<1>3. ParentsHaveRecords'
  BY DEF TopologyIndInv, ParentsHaveRecords
<1>4. RelationshipsAccepted'
  BY DEF TopologyIndInv, RelationshipsAccepted
<1>5. Acyclic(ParentEdges, Members)'
  <2>1. ParentEdges' \in SUBSET ParentEdges
    BY TopologyAssumption DEF ParentEdges, TopologyIndInv, TopologyTypeOK
  <2> QED BY <2>1, AcyclicSubset DEF TopologyIndInv
<1>6. ContainsIsAcyclic'
  <2>1. ContainsEdges' \in SUBSET ContainsEdges
    BY DEF ContainsEdges
  <2> QED BY <2>1, AcyclicSubset DEF TopologyIndInv, ContainsIsAcyclic, ContainsEdges
<1>7. relationshipsByMember' = rebuild_relationships_by_member'
  BY IndexFollows DEF TopologyIndInv, IndexesMatchRecords, rebuild_relationships_by_member
<1>8. childrenByParent' = rebuild_children_by_parent'
  <2>1. Known \in SUBSET Members
    BY DEF Known
  <2>2. childrenByParent = UNION {IndexEntry(m, parent[m]) : m \in Known}
    BY DEF TopologyIndInv, IndexesMatchRecords, rebuild_children_by_parent
  <2>3. {e \in childrenByParent : e[2] \notin D} = UNION {IndexEntry(m, parent'[m]) : m \in Known}
    BY <2>1, <2>2 DEF IndexEntry
  <2> QED BY <2>3 DEF rebuild_children_by_parent, IndexEntry
<1> QED
  BY <1>1, <1>2, <1>3, <1>4, <1>5, <1>6, <1>7, <1>8 DEF TopologyIndInv, IndexesMatchRecords

\* Every handler keeps the invariant.
THEOREM TopologyStepInv == TopologyIndInv /\ [TopologyNext]_topologyVars => TopologyIndInv'
<1> SUFFICES ASSUME TopologyIndInv, [TopologyNext]_topologyVars
             PROVE  TopologyIndInv'
  OBVIOUS
<1>0. /\ lifecycle \in [Members -> {"Absent", "Current", "Retired"}]
      /\ parent \in [Members -> Members \cup {None}]
      /\ topology \in 0..MaxGen
  BY DEF TopologyIndInv, TopologyTypeOK
<1>1. ASSUME NEW cls \in RelationshipClass, NEW a \in Members, NEW b \in Members,
             WithdrawRelationship(cls, a, b)
      PROVE  TopologyIndInv'
  <2> DEFINE key == canonicalize(cls, a, b)
  <2>1. /\ relationships' = relationships \ {key}
        /\ relationshipsByMember' = index_remove_relationship(relationshipsByMember, {key})
        /\ topology' = NextGen(topology)
        /\ UNCHANGED <<lifecycle, parent, childrenByParent>>
    BY <1>1 DEF WithdrawRelationship
  <2> HIDE DEF key
  <2>2. Known' = Known /\ topology' \in 0..MaxGen
    BY <1>0, <2>1, TopologyRange DEF Known
  <2> DEFINE D == {}
  <2>3. /\ parent' = [c \in Members |-> IF c \in D THEN None ELSE parent[c]]
        /\ childrenByParent' = {e \in childrenByParent : e[2] \notin D}
        /\ D \in SUBSET Members
    BY <1>0, <2>1
  <2>4. lifecycle' \in [Members -> {"Absent", "Current", "Retired"}]
    BY <1>0, <2>1
  <2> HIDE DEF D
  <2> QED BY <2>1, <2>2, <2>3, <2>4, RemovalInv
<1>2. ASSUME NEW m \in Members, RetireMember(m)
      PROVE  TopologyIndInv'
  <2> DEFINE removed == relationships_touching(m)
             D == {c \in Members : parent[c] = m}
  <2>1. /\ relationships' = relationships \ removed
        /\ relationshipsByMember' = index_remove_relationship(relationshipsByMember, removed)
        /\ lifecycle[m] = "Current"
        /\ lifecycle' = [lifecycle EXCEPT ![m] = "Retired"]
        /\ topology' \in {topology, NextGen(topology)}
    BY <1>2 DEF RetireMember, TopologyAfterRemoval
  <2>2. parent' = [c \in Members |-> IF c \in D THEN None ELSE parent[c]]
    BY <1>2 DEF RetireMember
  <2>3. childrenByParent' = {e \in childrenByParent : e[2] \notin D}
    <3>1. childrenByParent = {<<parent[c], c>> : c \in {x \in Members : parent[x] # None}}
      BY ChildrenIndex DEF TopologyIndInv, IndexesMatchRecords, rebuild_children_by_parent,
                           ParentsHaveRecords, Known
    <3>2. \A e \in childrenByParent : e[2] \in Members
      BY <3>1
    <3> QED BY <1>2, <3>2 DEF RetireMember
  <2>4. /\ lifecycle' \in [Members -> {"Absent", "Current", "Retired"}]
        /\ Known' = Known
        /\ topology' \in 0..MaxGen
    BY <1>0, <2>1, TopologyRange DEF Known
  <2>5. D \in SUBSET Members
    OBVIOUS
  <2> HIDE DEF removed, D
  <2> QED BY <2>1, <2>2, <2>3, <2>4, <2>5, RemovalInv
<1>3. ASSUME NEW m \in Members, WithdrawAll(m)
      PROVE  TopologyIndInv'
  <2>1. Known' = Known
    BY <1>0, <1>3 DEF WithdrawAll, Known
  <2>2. lifecycle' \in [Members -> {"Absent", "Current", "Retired"}]
    BY <1>0, <1>3 DEF WithdrawAll
  <2>3. UNCHANGED <<parent, relationships, relationshipsByMember, childrenByParent, topology>>
    BY <1>3 DEF WithdrawAll
  <2> QED
    BY <2>1, <2>2, <2>3
    DEF TopologyIndInv, TopologyTypeOK, IndexesMatchRecords, ParentsHaveRecords, ParentEdges,
        RelationshipsAccepted, ContainsIsAcyclic, rebuild_relationships_by_member,
        rebuild_children_by_parent
<1>4. ASSUME UNCHANGED topologyVars
      PROVE  TopologyIndInv'
  BY <1>4
  DEF topologyVars, TopologyIndInv, TopologyTypeOK, IndexesMatchRecords, ParentsHaveRecords,
      ParentEdges, RelationshipsAccepted, ContainsIsAcyclic, rebuild_relationships_by_member,
      rebuild_children_by_parent, Known
<1> QED
  BY <1>1, <1>2, <1>3, <1>4, PublishMemberInv, PublishRelationshipInv DEF TopologyNext

\* Descendants, read from the index, are the converse of ancestors, read from
\* the records.
LEMMA DescendantsAreConverse ==
    ASSUME TopologyIndInv
    PROVE  DescendantsMirrorAncestors
<1>1. childrenByParent = {<<parent[c], c>> : c \in {x \in Members : parent[x] # None}}
  BY ChildrenIndex DEF TopologyIndInv, IndexesMatchRecords, rebuild_children_by_parent,
                       ParentsHaveRecords, Known
<1>2. parent \in [Members -> Members \cup {None}]
  BY DEF TopologyIndInv, TopologyTypeOK
<1>3. /\ childrenByParent \in SUBSET (Members \X Members)
      /\ ParentEdges \in SUBSET (Members \X Members)
      /\ \A u, v \in Members : <<u, v>> \in childrenByParent <=> <<v, u>> \in ParentEdges
  BY <1>1, <1>2, TopologyAssumption DEF ParentEdges
<1>4. \A a, m \in Members : m \in ReachableFrom(a, childrenByParent, Members) <=>
                               a \in ReachableFrom(m, ParentEdges, Members)
  BY <1>3, ReachConverse
<1> QED
  BY <1>4 DEF DescendantsMirrorAncestors, descendants

\* After any sequence of handlers the indexes match the records, neither
\* containment nor the Contains relationships have a cycle, and descendants
\* mirror ancestors.
THEOREM TopologyCorrect == TopologySpec => []TopologyInv
<1>1. TopologyIndInv => TopologyInv
  BY DescendantsAreConverse DEF TopologyIndInv, TopologyInv
<1> QED
  BY <1>1, TopologyInitInv, TopologyStepInv, PTL DEF TopologySpec

\* The containment and relationship checks of load_state accept every state the
\* handlers reach.
THEOREM CompositionLoadable == TopologySpec => []CompositionIsLoadable
<1>1. TopologyIndInv => CompositionIsLoadable
  <2> SUFFICES ASSUME TopologyIndInv, NEW m \in Known, parent[m] # None
               PROVE  parent[m] # m /\ parent[m] \in Known
    BY DEF CompositionIsLoadable, ContainmentAccepted, TopologyIndInv
  <2>1. parent[m] \in Known /\ m \in Members /\ parent[m] \in Members
    BY DEF TopologyIndInv, ParentsHaveRecords, Known
  <2>2. ASSUME parent[m] = m
        PROVE  FALSE
    <3>1. <<m, m>> \in ParentEdges
      BY <2>1, <2>2 DEF ParentEdges
    <3>2. m \notin ReachableFrom(m, ParentEdges, Members)
      BY <3>1 DEF TopologyIndInv, Acyclic
    <3> QED BY <2>1, <3>2, ReachSelf
  <2> QED BY <2>1, <2>2
<1> QED
  BY <1>1, TopologyInitInv, TopologyStepInv, PTL DEF TopologySpec

\* Every change to the set of relationships moves the topology generation, until
\* the counter is exhausted.
THEOREM TopologyChangesNoticed == TopologySpec => TopologyGenerationNotices
<1>1. TopologyIndInv /\ [TopologyNext]_topologyVars =>
        [relationships' # relationships => topology' > topology \/ topology = MaxGen]_topologyVars
  <2> SUFFICES ASSUME TopologyIndInv, TopologyNext, relationships' # relationships
               PROVE  topology' > topology \/ topology = MaxGen
    OBVIOUS
  <2>1. NextGen(topology) > topology \/ topology = MaxGen
    BY TopologyRange DEF TopologyIndInv, TopologyTypeOK
  <2>2. topology' = NextGen(topology)
    <3>1. ASSUME NEW m \in Members, RetireMember(m)
          PROVE  topology' = NextGen(topology)
      <4>1. relationships' = relationships \ relationships_touching(m)
        BY <3>1 DEF RetireMember
      <4>2. relationships_touching(m) # {}
        BY <4>1
      <4> QED BY <3>1, <4>2 DEF RetireMember, TopologyAfterRemoval
    <3> QED
      BY <3>1 DEF TopologyNext, PublishMember, WithdrawAll, PublishRelationship, WithdrawRelationship
  <2> QED BY <2>1, <2>2
<1> QED
  BY <1>1, TopologyInitInv, TopologyStepInv, PTL DEF TopologySpec, TopologyGenerationNotices

-----------------------------------------------------------------------------
(***************************************************************************)
(* Theorems about FailureDomains, for every set of domains and members and *)
(* every limit.                                                            *)
(*                                                                         *)
(* The index of members may lose members (a domain published again), so    *)
(* the inductive invariant says only that it invents none: whoever is      *)
(* filed under a domain is attached to it, and attachments name domains    *)
(* that have records.  With the child index mirroring the parents this is  *)
(* what makes the two directions of the failure queries agree.             *)
(***************************************************************************)

\* The member index invents nothing.
FiledBelong ==
    \A d \in Domains : \A m \in Filed(membersByFailureDomain, d) :
       m \in MemberKeys /\ d \in attached[m]

\* MemberKeys are attached to domains that have records.
AttachmentsExist == \A m \in MemberKeys : attached[m] \subseteq KnownDomains

\* The inductive invariant.
DomainsIndInv ==
    /\ DomainsTypeOK
    /\ IsFiniteSet(KnownDomains)
    /\ NestingIsAcyclic
    /\ ChildrenMirrorParents
    /\ FiledBelong
    /\ AttachmentsExist

\* What index_add_member does to an entry.
LEMMA FiledAfterAdd ==
    ASSUME NEW idx, NEW m, NEW domains
    PROVE  /\ \A d, x : x \in Filed(index_add_member(idx, m, domains), d) <=>
                            x \in Filed(idx, d) \/ (x = m /\ d \in domains)
           /\ DOMAIN index_add_member(idx, m, domains) = DOMAIN idx \cup domains
  BY DEF index_add_member, Filed

\* What index_remove_member does to an entry: one that becomes empty is erased,
\* which nobody who reads the index by Filed notices.
LEMMA FiledAfterRemove ==
    ASSUME NEW idx, NEW m, NEW domains
    PROVE  /\ \A d, x : x \in Filed(index_remove_member(idx, m, domains), d) <=>
                            x \in Filed(idx, d) /\ ~(x = m /\ d \in domains)
           /\ DOMAIN index_remove_member(idx, m, domains) \subseteq DOMAIN idx
<1> DEFINE emptied == {d \in domains : Filed(idx, d) \subseteq {m}}
           rest == index_remove_member(idx, m, domains)
<1>1. rest = [d \in DOMAIN idx \ emptied |-> IF d \in domains THEN idx[d] \ {m} ELSE idx[d]]
  BY DEF index_remove_member
<1>2. DOMAIN rest = DOMAIN idx \ emptied
  BY <1>1
<1>3. ASSUME NEW d, NEW x
      PROVE  x \in Filed(rest, d) <=> x \in Filed(idx, d) /\ ~(x = m /\ d \in domains)
  <2>1. CASE d \notin DOMAIN idx
    BY <1>2, <2>1 DEF Filed
  <2>2. CASE d \in DOMAIN idx /\ d \in emptied
    BY <1>2, <2>2 DEF Filed
  <2>3. CASE d \in DOMAIN idx /\ d \notin emptied
    BY <1>1, <1>2, <2>3 DEF Filed
  <2> QED BY <2>1, <2>2, <2>3
<1> QED
  BY <1>2, <1>3

\* Filing member m anew puts it under its new domains, takes it from the old ones
\* and moves nobody else.
LEMMA FiledAnew ==
    ASSUME NEW idx, NEW m, NEW before, NEW after
    PROVE  /\ \A d, x : x \in Filed(Refiled(idx, m, before, after), d) <=>
                \/ x = m /\ d \in after
                \/ x \in Filed(idx, d) /\ ~(x = m /\ d \in before)
           /\ DOMAIN Refiled(idx, m, before, after) \subseteq DOMAIN idx \cup after
<1> DEFINE rest == index_remove_member(idx, m, before)
<1>1. /\ \A d, x : x \in Filed(rest, d) <=> x \in Filed(idx, d) /\ ~(x = m /\ d \in before)
      /\ DOMAIN rest \subseteq DOMAIN idx
  BY FiledAfterRemove
<1> HIDE DEF rest
<1>2. /\ \A d, x : x \in Filed(index_add_member(rest, m, after), d) <=>
                       x \in Filed(rest, d) \/ (x = m /\ d \in after)
      /\ DOMAIN index_add_member(rest, m, after) = DOMAIN rest \cup after
  BY FiledAfterAdd
<1>3. Refiled(idx, m, before, after) = index_add_member(rest, m, after)
  BY DEF Refiled, rest
<1> QED
  BY <1>1, <1>2, <1>3

\* The index keeps its shape as long as its entries do.
LEMMA IndexShape ==
    ASSUME NEW idx,
           DOMAIN idx \subseteq Domains,
           \A d \in Domains : \A x \in Filed(idx, d) : x \in MemberKeys
    PROVE  \A d \in DOMAIN idx : idx[d] \subseteq MemberKeys
  BY DEF Filed

\* An empty instance satisfies the invariant.
THEOREM DomainsInitInv == DomainsInit => DomainsIndInv
<1> SUFFICES ASSUME DomainsInit
             PROVE  DomainsIndInv
  OBVIOUS
<1>1. KnownDomains = {} /\ NestingEdges = {}
  BY DEF DomainsInit, KnownDomains, NestingEdges
<1>2. DomainsTypeOK /\ IsFiniteSet(KnownDomains)
  BY <1>1, FS_EmptySet, FailureDomainAssumption DEF DomainsInit, DomainsTypeOK
<1>3. NestingIsAcyclic
  BY <1>1 DEF DomainsInit, NestingIsAcyclic, Acyclic
<1>4. ChildrenMirrorParents
  BY DEF DomainsInit, ChildrenMirrorParents, rebuild_children_by_domain
<1>5. FiledBelong /\ AttachmentsExist
  BY DEF DomainsInit, FiledBelong, AttachmentsExist, Filed
<1> QED
  BY <1>2, <1>3, <1>4, <1>5 DEF DomainsIndInv

\* A member filed anew, with the same domains or with others that exist.
LEMMA RefiledInv ==
    ASSUME DomainsIndInv, NEW m \in MemberKeys, NEW domains \in SUBSET Domains,
           domains \subseteq KnownDomains,
           attached' = [attached EXCEPT ![m] = domains],
           membersByFailureDomain' = Refiled(membersByFailureDomain, m, attached[m], domains),
           UNCHANGED <<domainLifecycle, parents, childrenByDomain, generation>>
    PROVE  DomainsIndInv'
<1>0. /\ attached \in [MemberKeys -> SUBSET Domains]
      /\ DOMAIN membersByFailureDomain \subseteq Domains
  BY DEF DomainsIndInv, DomainsTypeOK
<1>1. KnownDomains' = KnownDomains
  BY DEF KnownDomains
<1>2. attached' \in [MemberKeys -> SUBSET Domains]
  BY <1>0
<1>3. \A d, x : x \in Filed(membersByFailureDomain', d) <=>
                  \/ x = m /\ d \in domains
                  \/ x \in Filed(membersByFailureDomain, d) /\ ~(x = m /\ d \in attached[m])
  BY FiledAnew
<1>4. FiledBelong'
  BY <1>0, <1>3 DEF DomainsIndInv, FiledBelong
<1>5. DOMAIN membersByFailureDomain' \subseteq Domains
  BY <1>0, FiledAnew
<1>6. DomainsTypeOK'
  <2>1. \A d \in DOMAIN membersByFailureDomain' : membersByFailureDomain'[d] \subseteq MemberKeys
    BY <1>4, <1>5, IndexShape DEF FiledBelong
  <2> QED BY <1>1, <1>2, <1>5, <2>1 DEF DomainsIndInv, DomainsTypeOK
<1>7. NestingIsAcyclic' /\ ChildrenMirrorParents' /\ IsFiniteSet(KnownDomains)'
  BY <1>1 DEF DomainsIndInv, NestingIsAcyclic, ChildrenMirrorParents, NestingEdges,
              rebuild_children_by_domain
<1>8. AttachmentsExist'
  BY <1>0, <1>1 DEF DomainsIndInv, AttachmentsExist
<1> QED
  BY <1>4, <1>6, <1>7, <1>8 DEF DomainsIndInv

\* publish_failure_domain keeps the invariant, for a new domain as for one
\* published again with other parents.
LEMMA PublishFailureDomainInv ==
    ASSUME DomainsIndInv, NEW d \in Domains, NEW ps \in SUBSET Domains, NEW retired \in BOOLEAN,
           PublishFailureDomain(d, ps, retired)
    PROVE  DomainsIndInv'
<1>0. /\ domainLifecycle \in [Domains -> {"Absent", "Current", "Retired"}]
      /\ parents \in [Domains -> SUBSET Domains]
      /\ attached \in [MemberKeys -> SUBSET Domains]
      /\ DOMAIN membersByFailureDomain \subseteq Domains
      /\ generation \in 0..MaxDomainGen
  BY DEF DomainsIndInv, DomainsTypeOK
<1>1. /\ MayPublishDomain(d, ps, retired)
      /\ domainLifecycle' = [domainLifecycle EXCEPT ![d] = IF retired THEN "Retired" ELSE "Current"]
      /\ parents' = [parents EXCEPT ![d] = ps]
      /\ childrenByDomain' = ChildrenRefiled(d, ps)
      /\ generation' = generation + 1
      /\ attached' = attached
  BY DEF PublishFailureDomain
<1>2. KnownDomains' = KnownDomains \cup {d}
  BY <1>0, <1>1 DEF KnownDomains
<1>3. IsFiniteSet(KnownDomains)' /\ Cardinality(KnownDomains)' <= MaxFailureDomains
  <2>1. /\ IsFiniteSet(KnownDomains \cup {d})
        /\ Cardinality(KnownDomains \cup {d}) =
             IF d \in KnownDomains THEN Cardinality(KnownDomains) ELSE Cardinality(KnownDomains) + 1
        /\ Cardinality(KnownDomains) \in Nat
    BY FS_AddElement, FS_CardinalityType DEF DomainsIndInv
  <2>2. /\ Cardinality(KnownDomains) <= MaxFailureDomains
        /\ d \notin KnownDomains => Cardinality(KnownDomains) < MaxFailureDomains
    BY <1>1 DEF MayPublishDomain, DomainsIndInv, DomainsTypeOK
  <2> QED BY <1>2, <2>1, <2>2, FailureDomainAssumption
<1>4. /\ DOMAIN membersByFailureDomain' \subseteq Domains
      /\ \A x \in Domains : Filed(membersByFailureDomain', x) \subseteq Filed(membersByFailureDomain, x)
  BY <1>0 DEF PublishFailureDomain, EntryRenewed, EntryAdded, Filed
<1>5. FiledBelong'
  BY <1>1, <1>4 DEF DomainsIndInv, FiledBelong
<1>6. DomainsTypeOK'
  <2>1. \A x \in DOMAIN membersByFailureDomain' : membersByFailureDomain'[x] \subseteq MemberKeys
    BY <1>4, <1>5, IndexShape DEF FiledBelong
  <2>2. generation' \in 0..MaxDomainGen
    BY <1>0, <1>1, FailureDomainAssumption DEF MayPublishDomain
  <2> QED BY <1>0, <1>1, <1>3, <1>4, <2>1, <2>2 DEF DomainsTypeOK
<1>7. NestingIsAcyclic'
  <2> DEFINE Kept == {e \in NestingEdges : e[1] # d}
  <2>1. Kept \in SUBSET NestingEdges /\ Kept \in SUBSET (Domains \X Domains)
    BY DEF NestingEdges
  <2>2. Acyclic(Kept, Domains)
    BY <2>1, AcyclicSubset DEF DomainsIndInv, NestingIsAcyclic
  <2>3. NestingEdges' = Kept \cup ({d} \X ps)
    BY <1>0, <1>1 DEF NestingEdges
  <2>4. \A p \in ps : d \notin ReachableFrom(p, NestingEdges, Domains)
    BY <1>1 DEF MayPublishDomain, domain_contains_cycle
  <2> HIDE DEF Kept
  <2>5. \A p \in ps : d \notin ReachableFrom(p, Kept, Domains)
    BY <2>1, <2>4, ReachMono
  <2>6. Acyclic(Kept \cup ({d} \X ps), Domains)
    BY <2>1, <2>2, <2>5, AcyclicNewEdges
  <2>7. Acyclic(NestingEdges, Domains)'
    BY <2>3, <2>6
  <2>8. \A x \in Domains : parents'[x] \subseteq KnownDomains'
    BY <1>0, <1>1, <1>2 DEF DomainsIndInv, NestingIsAcyclic, MayPublishDomain
  <2> QED BY <2>7, <2>8 DEF NestingIsAcyclic
<1>8. ChildrenMirrorParents'
  BY <1>0, <1>1 DEF DomainsIndInv, ChildrenMirrorParents, rebuild_children_by_domain, ChildrenRefiled
<1>9. AttachmentsExist'
  BY <1>1, <1>2 DEF DomainsIndInv, AttachmentsExist
<1> QED
  BY <1>3, <1>5, <1>6, <1>7, <1>8, <1>9 DEF DomainsIndInv

\* Reloading a saved state keeps the invariant.
LEMMA ReloadInv ==
    ASSUME DomainsIndInv, Reload
    PROVE  DomainsIndInv'
<1>1. KnownDomains' = KnownDomains /\ UNCHANGED <<domainLifecycle, parents, attached, generation>>
  BY DEF Reload, KnownDomains
<1>2. membersByFailureDomain' = [d \in KnownDomains |-> {m \in MemberKeys : d \in attached[m]}]
  BY DEF Reload, rebuild_members_by_failure_domain
<1>3. /\ DOMAIN membersByFailureDomain' \subseteq Domains
      /\ \A d \in DOMAIN membersByFailureDomain' : membersByFailureDomain'[d] \subseteq MemberKeys
  BY <1>2 DEF KnownDomains
<1>4. DomainsTypeOK' /\ IsFiniteSet(KnownDomains)'
  BY <1>1, <1>3 DEF DomainsIndInv, DomainsTypeOK
<1>5. FiledBelong'
  BY <1>1, <1>2 DEF FiledBelong, Filed
<1>6. NestingIsAcyclic' /\ AttachmentsExist'
  BY <1>1 DEF DomainsIndInv, NestingIsAcyclic, NestingEdges, AttachmentsExist
<1>7. ChildrenMirrorParents'
  BY <1>1 DEF Reload, ChildrenMirrorParents, rebuild_children_by_domain
<1> QED
  BY <1>4, <1>5, <1>6, <1>7 DEF DomainsIndInv

\* Every handler keeps the invariant.
THEOREM DomainsStepInv == DomainsIndInv /\ [DomainsNext]_domainVars => DomainsIndInv'
<1> SUFFICES ASSUME DomainsIndInv, [DomainsNext]_domainVars
             PROVE  DomainsIndInv'
  OBVIOUS
<1>1. ASSUME NEW m \in MemberKeys, NEW domains \in SUBSET Domains, AttachMember(m, domains)
      PROVE  DomainsIndInv'
  BY <1>1, RefiledInv DEF AttachMember
<1>2. ASSUME NEW m \in MemberKeys, ReplaceMember(m)
      PROVE  DomainsIndInv'
  <2>1. attached \in [MemberKeys -> SUBSET Domains] /\ attached[m] \subseteq KnownDomains
    BY DEF DomainsIndInv, DomainsTypeOK, AttachmentsExist
  <2>2. attached' = [attached EXCEPT ![m] = attached[m]]
    BY <1>2, <2>1 DEF ReplaceMember
  <2> QED BY <1>2, <2>1, <2>2, RefiledInv DEF ReplaceMember
<1>3. ASSUME UNCHANGED domainVars
      PROVE  DomainsIndInv'
  BY <1>3 DEF domainVars, DomainsIndInv, DomainsTypeOK, KnownDomains, NestingIsAcyclic, NestingEdges,
              ChildrenMirrorParents, rebuild_children_by_domain, FiledBelong, AttachmentsExist
<1> QED
  BY <1>1, <1>2, <1>3, PublishFailureDomainInv, ReloadInv DEF DomainsNext

\* A member reported as affected by d is in d, at some level.
LEMMA AffectedBelong ==
    ASSUME DomainsIndInv
    PROVE  AffectedMembersBelong
<1>1. /\ childrenByDomain \in SUBSET (Domains \X Domains)
      /\ NestingEdges \in SUBSET (Domains \X Domains)
      /\ \A u, v \in Domains : <<u, v>> \in childrenByDomain <=> <<v, u>> \in NestingEdges
  BY DEF DomainsIndInv, ChildrenMirrorParents, rebuild_children_by_domain, NestingEdges
<1>2. ASSUME NEW d \in Domains, NEW m \in members_affected_by(d)
      PROVE  d \in failure_domains_of(m)
  <2>1. PICK x \in ReachableFrom(d, childrenByDomain, Domains) : m \in Filed(membersByFailureDomain, x)
    BY <1>2 DEF members_affected_by, members_in_failure_domain
  <2>2. x \in Domains
    BY DEF ReachableFrom
  <2>3. x \in attached[m]
    BY <2>1, <2>2 DEF DomainsIndInv, FiledBelong
  <2>4. d \in ReachableFrom(x, NestingEdges, Domains)
    BY <1>1, <2>1, <2>2, ReachConverse
  <2> QED BY <2>3, <2>4 DEF failure_domains_of
<1> QED
  BY <1>2 DEF AffectedMembersBelong, shares_failure_domain

\* The hierarchy has no cycles, the child index mirrors the parents, and the two
\* directions of the failure queries agree, after any sequence of handlers.
THEOREM DomainsCorrect == DomainsSpec => []DomainsInv
<1>1. DomainsIndInv => DomainsInv
  BY AffectedBelong DEF DomainsIndInv, DomainsInv
<1> QED
  BY <1>1, DomainsInitInv, DomainsStepInv, PTL DEF DomainsSpec

\* Only publishing a domain again makes the index lose a member.
THEOREM OnlyRepublication == DomainsSpec => OnlyRepublicationUnfiles
<1> DEFINE Unfiled(m, d) ==
              /\ m \in Filed(membersByFailureDomain, d)
              /\ m \notin Filed(membersByFailureDomain', d)
<1>1. DomainsIndInv /\ [DomainsNext]_domainVars =>
        [\A m \in MemberKeys : \A d \in attached[m] \cap attached'[m] :
            Unfiled(m, d) => generation' > generation /\ domainLifecycle[d] # "Absent"]_domainVars
  <2> SUFFICES ASSUME DomainsIndInv, DomainsNext, NEW m \in MemberKeys,
                      NEW d \in attached[m] \cap attached'[m], Unfiled(m, d)
               PROVE  generation' > generation /\ domainLifecycle[d] # "Absent"
    OBVIOUS
  <2>0. /\ d \in KnownDomains /\ domainLifecycle[d] # "Absent"
        /\ generation \in Nat
        /\ attached \in [MemberKeys -> SUBSET Domains]
    BY FailureDomainAssumption DEF DomainsIndInv, AttachmentsExist, KnownDomains, DomainsTypeOK
  <2>1. ASSUME NEW x \in MemberKeys, NEW after,
               membersByFailureDomain' = Refiled(membersByFailureDomain, x, attached[x], after),
               x = m => d \in after
        PROVE  FALSE
    BY <2>1, FiledAnew
  <2>2. ASSUME NEW x \in MemberKeys, NEW domains \in SUBSET Domains, AttachMember(x, domains)
        PROVE  FALSE
    BY <2>0, <2>1, <2>2 DEF AttachMember
  <2>3. ASSUME NEW x \in MemberKeys, ReplaceMember(x)
        PROVE  FALSE
    BY <2>1, <2>3 DEF ReplaceMember
  <2>4. ASSUME Reload
        PROVE  FALSE
    BY <2>0, <2>4 DEF Reload, rebuild_members_by_failure_domain, Filed
  <2>5. ASSUME NEW x \in Domains, NEW ps \in SUBSET Domains, NEW retired \in BOOLEAN,
               PublishFailureDomain(x, ps, retired)
        PROVE  generation' > generation
    BY <2>0, <2>5 DEF PublishFailureDomain
  <2> QED BY <2>0, <2>2, <2>3, <2>4, <2>5 DEF DomainsNext
<1> QED
  BY <1>1, DomainsInitInv, DomainsStepInv, PTL DEF DomainsSpec, OnlyRepublicationUnfiles

\* As long as no domain has two parents, load_state accepts every state the
\* handlers reach: its walk meets a domain twice only on a cycle.
THEOREM SingleParentReloads == DomainsSpec => []SingleParentNestingReloads
<1>1. DomainsIndInv => SingleParentNestingReloads
  <2> SUFFICES ASSUME DomainsIndInv, \A d \in Domains : Cardinality(parents[d]) <= 1
               PROVE  DomainsAccepted
    BY DEF SingleParentNestingReloads
  <2>0. /\ parents \in [Domains -> SUBSET Domains]
        /\ Acyclic(NestingEdges, Domains)
        /\ \A d \in Domains : parents[d] \subseteq KnownDomains
        /\ KnownDomains \subseteq Domains
    BY DEF DomainsIndInv, DomainsTypeOK, NestingIsAcyclic, KnownDomains
  <2>1. NestingEdges \in SUBSET (Domains \X Domains)
    BY DEF NestingEdges
  <2>2. \A w, u, v \in Domains : <<w, u>> \in NestingEdges /\ <<w, v>> \in NestingEdges => u = v
    <3> SUFFICES ASSUME NEW w \in Domains, NEW u \in parents[w], NEW v \in parents[w]
                 PROVE  u = v
      BY DEF NestingEdges
    <3>1. IsFiniteSet(parents[w]) /\ Cardinality(parents[w]) \in Nat
      BY <2>0, FS_Subset, FS_CardinalityType DEF DomainsIndInv
    <3>2. Cardinality(parents[w]) # 0
      BY <3>1, FS_EmptySet
    <3>3. Cardinality(parents[w]) = 1
      BY <3>1, <3>2
    <3>4. \E x : parents[w] = {x}
      BY <3>1, <3>3, FS_Singleton
    <3> QED BY <3>4
  <2>3. ASSUME NEW d \in KnownDomains
        PROVE  d \notin parents[d]
    <3>1. ASSUME d \in parents[d]
          PROVE  FALSE
      <4>1. <<d, d>> \in NestingEdges
        BY <2>0, <3>1 DEF NestingEdges
      <4> QED BY <2>0, <4>1, ReachSelf DEF Acyclic
    <3> QED BY <3>1
  <2>4. ASSUME NEW d \in KnownDomains, CycleReportedAt(d)
        PROVE  FALSE
    <3>1. ReachableFrom(d, NestingEdges, Domains) \subseteq Domains
      BY DEF ReachableFrom
    <3>2. ASSUME NEW x \in ReachableFrom(d, NestingEdges, Domains), d \in parents[x]
          PROVE  FALSE
      <4>1. <<x, d>> \in NestingEdges
        BY <2>0, <3>1, <3>2 DEF NestingEdges
      <4> QED BY <2>0, <3>2, <4>1 DEF Acyclic
    <3>3. ASSUME NEW x \in ReachableFrom(d, NestingEdges, Domains),
                 NEW y \in ReachableFrom(d, NestingEdges, Domains),
                 x # y, NEW z \in parents[x] \cap parents[y]
          PROVE  FALSE
      <4>1. z \in Domains /\ <<x, z>> \in NestingEdges /\ <<y, z>> \in NestingEdges
        BY <2>0, <3>1, <3>3 DEF NestingEdges
      <4> QED BY <2>0, <2>1, <2>2, <3>3, <4>1, ChainMeetsOnce
    <3> QED BY <2>4, <3>2, <3>3 DEF CycleReportedAt
  <2> QED
    BY <2>0, <2>3, <2>4 DEF DomainsAccepted, DomainsIndInv, AttachmentsExist
<1> QED
  BY <1>1, DomainsInitInv, DomainsStepInv, PTL DEF DomainsSpec
=============================================================================
