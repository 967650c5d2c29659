--------------------------- MODULE FailureDomains ---------------------------
(***************************************************************************)
(* Failure domains, the members attached to them, and the two indexes the  *)
(* code keeps beside the records: children_by_domain and members_by_       *)
(* failure_domain.  The queries about what fails together read the one     *)
(* upwards through the records and the other downwards through the indexes.*)
(*                                                                         *)
(* As in Topology the rack is open and publishers are left out.            *)
(* membersByFailureDomain is a partial function, because an entry with no  *)
(* members and no entry at all are different to check_invariants; for the  *)
(* other index a pair set is enough.                                       *)
(***************************************************************************)
EXTENDS Naturals, FiniteSets, Reachability

CONSTANTS
    MemberKeys,         \* member keys
    Domains,            \* failure domain identities
    MaxFailureDomains,  \* limits.max_failure_domains
    MaxDomainGen        \* the largest value of a generation counter

ASSUME FailureDomainAssumption ==
    /\ MaxFailureDomains \in Nat
    /\ MaxDomainGen \in Nat \ {0}

VARIABLES
    domainLifecycle,        \* domainLifecycle[d]: "Absent", "Current" or "Retired"
    parents,                \* parents[d]: the domains d is nested in
    attached,               \* attached[m]: the failure_domains of member m
    membersByFailureDomain, \* index: domain to members, where it has an entry
    childrenByDomain,       \* index: pairs <<parent, child>>
    generation              \* generations.failure_domains

domainVars == <<domainLifecycle, parents, attached, membersByFailureDomain, childrenByDomain,
                generation>>

DomainsInit ==
    /\ domainLifecycle = [d \in Domains |-> "Absent"]
    /\ parents = [d \in Domains |-> {}]
    /\ attached = [m \in MemberKeys |-> {}]
    /\ membersByFailureDomain = [d \in {} |-> {}]
    /\ childrenByDomain = {}
    /\ generation = 0

-----------------------------------------------------------------------------
(* Indexes *)

KnownDomains == {d \in Domains : domainLifecycle[d] # "Absent"}

\* What the index holds for d; nothing when it has no entry.
Filed(idx, d) == IF d \in DOMAIN idx THEN idx[d] ELSE {}

\* index_add_member: m is filed under each of its domains.
index_add_member(idx, m, domains) ==
    [d \in DOMAIN idx \cup domains |->
        IF d \in domains THEN Filed(idx, d) \cup {m} ELSE idx[d]]

\* index_remove_member: an entry that becomes empty is erased.
index_remove_member(idx, m, domains) ==
    LET emptied == {d \in domains : Filed(idx, d) \subseteq {m}} IN
    [d \in DOMAIN idx \ emptied |-> IF d \in domains THEN idx[d] \ {m} ELSE idx[d]]

\* Mutated form of Refiled: the new entries go in before the old ones are removed.
RefiledTooEarly(idx, m, before, after) ==
    index_remove_member(index_add_member(idx, m, after), m, before)

\* A member record replaced by one with other domains.
Refiled(idx, m, before, after) ==
    index_add_member(index_remove_member(idx, m, before), m, after)

\* index_remove_failure_domain then index_add_failure_domain, on the member index:
\* the entry is erased with whatever it held, and an empty one takes its place.
EntryRenewed(idx, d) == [x \in DOMAIN idx \cup {d} |-> IF x = d THEN {} ELSE idx[x]]

\* index_add_failure_domain of a new record: an existing entry is kept.
EntryAdded(idx, d) == [x \in DOMAIN idx \cup {d} |-> Filed(idx, x)]

\* The parent edges of d replaced in children_by_domain.
ChildrenRefiled(d, ps) == (childrenByDomain \ (parents[d] \X {d})) \cup (ps \X {d})

\* rebuild_indexes: members first, then an entry for every domain.
rebuild_members_by_failure_domain ==
    [d \in KnownDomains |-> {m \in MemberKeys : d \in attached[m]}]

rebuild_children_by_domain == {e \in Domains \X Domains : e[1] \in parents[e[2]]}

-----------------------------------------------------------------------------
(* Queries *)

\* Edges from a domain to the domains it is nested in, by the records.
NestingEdges == {e \in Domains \X Domains : e[2] \in parents[e[1]]}

\* Mutated form of domain_contains_cycle: one level of parents only.
domain_contains_cycle_direct(p, child) == p = child \/ child \in parents[p]

\* Nesting child in p would close a cycle: child is at or above p.
domain_contains_cycle(p, child) == child \in ReachableFrom(p, NestingEdges, Domains)

\* Every domain whose failure takes member m with it, at any level.
failure_domains_of(m) == UNION {ReachableFrom(d, NestingEdges, Domains) : d \in attached[m]}

members_in_failure_domain(d) == Filed(membersByFailureDomain, d)

\* The members that the indexes give for d and every domain nested in it.
members_affected_by(d) ==
    UNION {members_in_failure_domain(x) : x \in ReachableFrom(d, childrenByDomain, Domains)}

shares_failure_domain(a, b) == failure_domains_of(a) \cap failure_domains_of(b) # {}

-----------------------------------------------------------------------------
(* Handlers *)

\* publish_member with a list of failure domains, all of which have records.
AttachMember(m, domains) ==
    /\ domains \subseteq KnownDomains
    /\ attached' = [attached EXCEPT ![m] = domains]
    /\ membersByFailureDomain' = Refiled(membersByFailureDomain, m, attached[m], domains)
    /\ UNCHANGED <<domainLifecycle, parents, childrenByDomain, generation>>

\* Every other handler that replaces a member record (health, capability and
\* evidence publication, unavailability, retirement, revalidation, fencing of its
\* owner) leaves its domains alone but files it anew.
ReplaceMember(m) ==
    /\ membersByFailureDomain' = Refiled(membersByFailureDomain, m, attached[m], attached[m])
    /\ UNCHANGED <<domainLifecycle, parents, attached, childrenByDomain, generation>>

\* The checks of publish_failure_domain; ps is deduplicated.
MayPublishDomain(d, ps, retired) ==
    /\ \A p \in ps : p # d /\ p \in KnownDomains /\ ~domain_contains_cycle(p, d)
    /\ d \notin KnownDomains => Cardinality(KnownDomains) < MaxFailureDomains
    /\ domainLifecycle[d] = "Retired" => retired
    /\ generation < MaxDomainGen

\* publish_failure_domain, of a new domain or with other content.
PublishFailureDomain(d, ps, retired) ==
    /\ MayPublishDomain(d, ps, retired)
    /\ domainLifecycle' = [domainLifecycle EXCEPT ![d] = IF retired THEN "Retired" ELSE "Current"]
    /\ parents' = [parents EXCEPT ![d] = ps]
    /\ childrenByDomain' = ChildrenRefiled(d, ps)
    /\ membersByFailureDomain' = IF d \in KnownDomains THEN EntryRenewed(membersByFailureDomain, d)
                                                       ELSE EntryAdded(membersByFailureDomain, d)
    /\ generation' = generation + 1
    /\ UNCHANGED attached

-----------------------------------------------------------------------------
(* Loading *)

\* Mutated form of CycleReportedAt: siblings already make a cycle.
CycleReportedAtSiblings(d) ==
    \E x, y \in Domains : x # y /\ parents[x] \cap parents[y] # {}

\* check_invariants walks up from d and reports a cycle when it meets a domain a
\* second time: one that is d, or to which two of the domains walked lead.
CycleReportedAt(d) ==
    LET walked == ReachableFrom(d, NestingEdges, Domains) IN
    \/ \E x \in walked : d \in parents[x]
    \/ \E x, y \in walked : x # y /\ parents[x] \cap parents[y] # {}

\* check_invariants, the failure domain and reference parts.
DomainsAccepted ==
    /\ \A d \in KnownDomains : parents[d] \subseteq KnownDomains \ {d}
    /\ \A d \in KnownDomains : ~CycleReportedAt(d)
    /\ \A m \in MemberKeys : attached[m] \subseteq KnownDomains

\* load_state of a file saved from this state: the indexes are rebuilt; a state
\* that check_invariants reports on is refused.
Reload ==
    /\ DomainsAccepted
    /\ membersByFailureDomain' = rebuild_members_by_failure_domain
    /\ childrenByDomain' = rebuild_children_by_domain
    /\ UNCHANGED <<domainLifecycle, parents, attached, generation>>

DomainsNext ==
    \/ \E m \in MemberKeys :
         \/ \E domains \in SUBSET Domains : AttachMember(m, domains)
         \/ ReplaceMember(m)
    \/ \E d \in Domains, ps \in SUBSET Domains, retired \in BOOLEAN :
         PublishFailureDomain(d, ps, retired)
    \/ Reload

DomainsSpec == DomainsInit /\ [][DomainsNext]_domainVars

-----------------------------------------------------------------------------
(* Properties *)

\* The records and indexes keep their shape and the limit on domains.
DomainsTypeOK ==
    /\ domainLifecycle \in [Domains -> {"Absent", "Current", "Retired"}]
    /\ parents \in [Domains -> SUBSET Domains]
    /\ attached \in [MemberKeys -> SUBSET Domains]
    /\ DOMAIN membersByFailureDomain \subseteq Domains
    /\ \A d \in DOMAIN membersByFailureDomain : membersByFailureDomain[d] \subseteq MemberKeys
    /\ generation \in 0..MaxDomainGen
    /\ Cardinality(KnownDomains) <= MaxFailureDomains

\* The nesting of failure domains stays a directed acyclic graph of existing
\* domains, although publish_failure_domain checks one record's parents at a time
\* and a domain may be published again with other parents.
NestingIsAcyclic ==
    /\ Acyclic(NestingEdges, Domains)
    /\ \A d \in Domains : parents[d] \subseteq KnownDomains

\* children_by_domain, edited edge by edge, is the reverse of the records.
ChildrenMirrorParents == childrenByDomain = rebuild_children_by_domain

\* The two directions of the question what fails with what do not contradict each
\* other: a member that members_affected_by reports for d has d among its
\* failure_domains_of, and shares one with every other member reported.
AffectedMembersBelong ==
    \A d \in Domains : \A m \in members_affected_by(d) :
        /\ d \in failure_domains_of(m)
        /\ \A other \in members_affected_by(d) : shares_failure_domain(m, other)

\* The hierarchy after any sequence of handlers: no cycles, a child index that mirrors
\* the parents, and no member reported as affected by a domain it is not in.
DomainsInv ==
    /\ DomainsTypeOK
    /\ NestingIsAcyclic
    /\ ChildrenMirrorParents
    /\ AffectedMembersBelong

\* The index loses members only when a domain that has members is published
\* again; in every other step a member that is filed where it belongs stays so,
\* and replacing its record files it where it belongs.
OnlyRepublicationUnfiles ==
    [][\A m \in MemberKeys :
          \A d \in attached[m] \cap attached'[m] :
             /\ m \in Filed(membersByFailureDomain, d)
             /\ m \notin Filed(membersByFailureDomain', d)
             => generation' > generation /\ domainLifecycle[d] # "Absent"]_domainVars

\* As long as no domain has two parents, load_state accepts what publication
\* built.  With two parents it need not: its walk takes an ancestor met on two
\* ways for a cycle.
SingleParentNestingReloads ==
    (\A d \in Domains : Cardinality(parents[d]) <= 1) => DomainsAccepted
=============================================================================
