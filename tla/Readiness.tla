------------------------------ MODULE Readiness ------------------------------
(***************************************************************************)
(* What the rack may be said to be: evidence on members, relationships,    *)
(* failure domains and envelopes, who stands behind it, how it ages, and   *)
(* the readiness and lifecycle that are derived from it on every query.    *)
(*                                                                         *)
(* The rack is declared and open.  Processes have the phases of            *)
(* BootAuthority, which Authority implements; a live one is "registered"   *)
(* until its first mutation makes it "active".  Records of the operator    *)
(* carry no owner.  The published readiness of a member is treated like    *)
(* its health, of which NotReady is one more value that is not positive.   *)
(* Structure of relationships and domains is in Topology and               *)
(* FailureDomains, quantities of envelopes are in Envelopes, versions are  *)
(* in Members.                                                             *)
(***************************************************************************)
EXTENDS Evidence, FiniteSets

CONSTANTS
    Boots,          \* boot identities
    Members,        \* member keys
    Kind,           \* Kind[m]: "Node" or "Accelerator"
    DomainsOf,      \* DomainsOf[m]: failure_domains_of(m), see FailureDomains
    Structures,     \* of "relationship" and "failure_domain", those with a record here
    Envelopes,      \* of "power" and "cooling", those with a record here
    Contracts,      \* the readiness contracts asked about
    None            \* the operator, and the absence of an owner

ASSUME ReadinessAssumption ==
    /\ None \notin Boots
    /\ Kind \in [Members -> {"Node", "Accelerator"}]
    /\ \A m \in Members : IsFiniteSet(DomainsOf[m])
    /\ Structures \subseteq {"relationship", "failure_domain"}
    /\ Envelopes \subseteq {"power", "cooling"}
    /\ Contracts \subseteq
         [min_nodes : Nat, min_accelerators : Nat, min_distinct_failure_domains : Nat,
          require_all_members_current : BOOLEAN, require_member_health : BOOLEAN,
          require_physical_provenance : BOOLEAN, require_active_publisher : BOOLEAN,
          require_structure : SUBSET Structures,
          require_envelopes : SUBSET Envelopes]

VARIABLES
    phase,      \* phase[b]: "unknown", "registered", "active" or "dead"
    members,    \* members[m], lifecycle "Absent" without a record
    structure,  \* structure[s]: the relationship and the failure domain records
    envelopes,  \* envelopes[e]: the evidence of the power and cooling envelope
    vouched     \* history: members of a fenced owner that the operator revalidated

readinessVars == <<phase, members, structure, envelopes, vouched>>

Owner == Boots \cup {None}

\* by: history, the process that published the health.
HealthEvidence == [ev : EvidenceValue, positive : BOOLEAN, by : Owner]
NoHealth == [ev |-> NoEvidence, positive |-> FALSE, by |-> None]

MemberRecord ==
    [lifecycle : {"Absent", "Declared", "Present", "Unavailable", "Retired"},
     owner : Owner, ev : EvidenceValue, health : HealthEvidence]

StructureRecord == [known : BOOLEAN, owner : Owner, durable : BOOLEAN, reval : BOOLEAN]
EnvelopeRecord == [known : BOOLEAN, owner : Owner, ev : EvidenceValue]

NoMember == [lifecycle |-> "Absent", owner |-> None, ev |-> NoEvidence, health |-> NoHealth]
NoStructure == [known |-> FALSE, owner |-> None, durable |-> TRUE, reval |-> FALSE]
NoEnvelope == [known |-> FALSE, owner |-> None, ev |-> NoEvidence]

ReadinessInit ==
    /\ phase = [b \in Boots |-> "unknown"]
    /\ members = [m \in Members |-> NoMember]
    /\ structure = [s \in Structures |-> NoStructure]
    /\ envelopes = [e \in Envelopes |-> NoEnvelope]
    /\ vouched = {}

-----------------------------------------------------------------------------
(* Authority *)

Live(b) == phase[b] \in {"registered", "active"}

\* Who may change the rack: a live process, or the operator.
Token == {b \in Boots : Live(b)} \cup {None}

owner_conflict(owner, tok) == tok # None /\ owner # None /\ owner # tok

advance_publication(tok) == phase' = [b \in Boots |-> IF b = tok THEN "active" ELSE phase[b]]

Register(b) ==
    /\ phase[b] = "unknown"
    /\ phase' = [phase EXCEPT ![b] = "registered"]
    /\ UNCHANGED <<members, structure, envelopes, vouched>>

-----------------------------------------------------------------------------
(* Handlers *)

Known == {m \in Members : members[m].lifecycle # "Absent"}

\* The member is known, and it is not another process's.
MayChange(tok, m) == m \in Known /\ ~owner_conflict(members[m].owner, tok)

ChangeMember(tok, m, rec) ==
    /\ members' = [members EXCEPT ![m] = rec]
    /\ advance_publication(tok)
    /\ UNCHANGED <<structure, envelopes>>

\* publish_member: presence needs evidence, retirement clears it.  The record
\* carries no health of its own here; publish_health brings it.
PublishMember(tok, m, lifecycle, ev) ==
    /\ ~owner_conflict(members[m].owner, tok)
    /\ validate_evidence(ev)
    /\ lifecycle = "Present" => has_evidence(ev)
    /\ members[m].lifecycle = "Retired" => lifecycle = "Retired"
    /\ ChangeMember(tok, m, [lifecycle |-> lifecycle, owner |-> tok, health |-> NoHealth,
                             ev |-> IF lifecycle = "Retired" THEN Cleared(ev) ELSE ev])
    /\ vouched' = vouched \ {m}

\* publish_health: on a member in any lifecycle, by any process when nobody owns
\* the member; the owner stays as it is.
PublishHealth(tok, m, ev, positive) ==
    /\ MayChange(tok, m)
    /\ validate_evidence(ev)
    /\ ChangeMember(tok, m, [members[m] EXCEPT !.health =
            IF has_evidence(ev) THEN [ev |-> ev, positive |-> positive, by |-> tok] ELSE NoHealth])
    /\ UNCHANGED vouched

\* withdraw_evidence with scope All, also of a retired member.
WithdrawAll(tok, m) ==
    /\ MayChange(tok, m)
    /\ ChangeMember(tok, m, [members[m] EXCEPT !.lifecycle = "Declared", !.health = NoHealth,
                                               !.ev = Cleared(@)])
    /\ UNCHANGED vouched

\* withdraw_evidence with scope Health.
WithdrawHealth(tok, m) ==
    /\ MayChange(tok, m)
    /\ ChangeMember(tok, m, [members[m] EXCEPT !.health = NoHealth])
    /\ UNCHANGED vouched

MarkUnavailable(tok, m) ==
    /\ MayChange(tok, m)
    /\ members[m].lifecycle \notin {"Retired", "Unavailable"}
    /\ ChangeMember(tok, m, [members[m] EXCEPT !.lifecycle = "Unavailable", !.ev.reval = TRUE])
    /\ UNCHANGED vouched

\* retire_member: whoever owns it, the observation and the health are cleared.
RetireMember(tok, m) ==
    /\ m \in Known /\ members[m].lifecycle # "Retired"
    /\ ChangeMember(tok, m, [members[m] EXCEPT !.lifecycle = "Retired", !.health = NoHealth,
                                               !.ev = Cleared(@)])
    /\ UNCHANGED vouched

\* revalidate_members of one flagged record: the flag goes, the evidence and its
\* age stay.  The flags of its health stay too.
RevalidateMember(tok, m) ==
    /\ MayChange(tok, m)
    /\ members[m].ev.reval
    /\ ChangeMember(tok, m, [members[m] EXCEPT !.ev.reval = FALSE])
    /\ vouched' = IF tok = None THEN vouched \cup {m} ELSE vouched

\* publish_relationship and publish_failure_domain.
PublishStructure(tok, s, durable) ==
    /\ ~owner_conflict(structure[s].owner, tok)
    /\ structure' = [structure EXCEPT ![s] =
            [known |-> TRUE, owner |-> tok, durable |-> durable, reval |-> FALSE]]
    /\ advance_publication(tok)
    /\ UNCHANGED <<members, envelopes, vouched>>

WithdrawRelationship(tok) ==
    /\ "relationship" \in Structures /\ structure["relationship"].known
    /\ ~owner_conflict(structure["relationship"].owner, tok)
    /\ structure' = [structure EXCEPT !["relationship"] = NoStructure]
    /\ advance_publication(tok)
    /\ UNCHANGED <<members, envelopes, vouched>>

\* publish_power_envelope and publish_cooling_envelope: no one asks who published
\* the envelope that is replaced.
PublishEnvelope(tok, e, ev) ==
    /\ validate_evidence(ev)
    /\ envelopes' = [envelopes EXCEPT ![e] = [known |-> TRUE, owner |-> tok, ev |-> ev]]
    /\ advance_publication(tok)
    /\ UNCHANGED <<members, structure, vouched>>

-----------------------------------------------------------------------------
(* Fencing, restart, time *)

\* Ephemeral health can never be current again.
FenceHealth(h) ==
    IF has_evidence(h.ev) /\ ~h.ev.durable THEN [h EXCEPT !.ev.reval = TRUE] ELSE h

\* Mutated form of fence_member_evidence: durable records are spared.
fence_ephemeral_evidence(rec) ==
    [rec EXCEPT !.ev.reval = @ \/ ~rec.ev.durable, !.health = FenceHealth(@)]

\* The record is flagged whatever its durability.
fence_member_evidence(rec) == [rec EXCEPT !.ev.reval = TRUE, !.health = FenceHealth(@)]

\* Mutated form of FencedStructure: nothing is flagged.
StructureUntouched(b) == structure

\* Relationships and failure domains of the boot, when ephemeral, are flagged.
FencedStructure(b) ==
    [s \in Structures |-> IF structure[s].owner = b /\ ~structure[s].durable
                          THEN [structure[s] EXCEPT !.reval = TRUE] ELSE structure[s]]

FencedEnvelopes(b) ==
    [e \in Envelopes |-> IF envelopes[e].owner = b /\ ~envelopes[e].ev.durable
                         THEN [envelopes[e] EXCEPT !.ev.reval = TRUE] ELSE envelopes[e]]

\* fence_publisher.
Fence(b) ==
    LET owned == {m \in Members : members[m].owner = b} IN
    /\ Live(b)
    /\ phase' = [phase EXCEPT ![b] = "dead"]
    /\ members' = [m \in Members |-> IF m \in owned THEN fence_member_evidence(members[m])
                                                    ELSE members[m]]
    /\ structure' = FencedStructure(b)
    /\ envelopes' = FencedEnvelopes(b)
    /\ vouched' = vouched \ owned

\* apply_recovery_policy on each kind of record: what a process owned, and what is
\* ephemeral, is flagged; owners are forgotten; ephemeral health is dropped.
RecoveredMember(rec) ==
    [rec EXCEPT !.owner = None, !.ev.reval = @ \/ ~rec.ev.durable \/ rec.owner # None,
                !.health = IF @.ev.durable THEN @ ELSE NoHealth]

RecoveredStructure(rec) ==
    [rec EXCEPT !.owner = None, !.reval = @ \/ ~rec.durable \/ rec.owner # None]

RecoveredEnvelope(rec) ==
    [rec EXCEPT !.owner = None, !.ev.reval = @ \/ ~rec.ev.durable \/ rec.owner # None]

\* A coordinator that loads this state: every process has lost its standing.
Restart ==
    /\ phase' = [b \in Boots |-> IF phase[b] = "unknown" THEN "unknown" ELSE "dead"]
    /\ members' = [m \in Members |-> IF m \in Known THEN RecoveredMember(members[m])
                                                    ELSE members[m]]
    /\ structure' = [s \in Structures |-> RecoveredStructure(structure[s])]
    /\ envelopes' = [e \in Envelopes |-> RecoveredEnvelope(envelopes[e])]
    /\ vouched' = {}

Tick ==
    /\ members' = [m \in Members |-> [members[m] EXCEPT !.ev = Aged(@), !.health.ev = Aged(@)]]
    /\ envelopes' = [e \in Envelopes |-> [envelopes[e] EXCEPT !.ev = Aged(@)]]
    /\ UNCHANGED <<phase, structure, vouched>>

-----------------------------------------------------------------------------
(* Queries *)

\* Present and Unavailable members make up the current composition.
is_current_member(m) == members[m].lifecycle \in {"Present", "Unavailable"}

\* The member counts towards readiness.
has_current_evidence(m, c) ==
    /\ members[m].lifecycle = "Present"
    /\ is_current(members[m].ev)
    /\ c.require_physical_provenance => is_physical_provenance(members[m].ev.prov)

Qualifying(kind, c) == {m \in Members : Kind[m] = kind /\ has_current_evidence(m, c)}

StaleMembers == {m \in Members : is_current_member(m) /\ ~is_current(members[m].ev)}

\* Mutated form of HealthIsCurrent: a report of any age will do.
HealthWasReported(m) == has_evidence(members[m].health.ev)

\* A report on the member's health that is a statement about the present.
HealthIsCurrent(m) == is_current(members[m].health.ev)

\* evaluate_readiness: no requirement of the contract is unmet.
evaluate_readiness(c) ==
    /\ Cardinality(Qualifying("Node", c)) >= c.min_nodes
    /\ Cardinality(Qualifying("Accelerator", c)) >= c.min_accelerators
    /\ Cardinality(UNION {DomainsOf[m] : m \in Qualifying("Node", c)})
         >= c.min_distinct_failure_domains
    /\ c.require_all_members_current => StaleMembers = {}
    /\ c.require_member_health =>
         \A m \in Members : is_current_member(m) => HealthIsCurrent(m)
    /\ \A s \in c.require_structure : structure[s].known
    /\ \A e \in c.require_envelopes : envelopes[e].known /\ is_current(envelopes[e].ev)
    /\ c.require_active_publisher => \E b \in Boots : phase[b] = "active"

\* Envelopes are not asked whether they need revalidation.
needs_revalidation ==
    \/ \E m \in Members : members[m].ev.reval
    \/ \E s \in Structures : structure[s].reval

\* Mutated form of Degraded: only the health of a member is looked at.
DegradedByHealth ==
    \E m \in Members :
        /\ is_current_member(m)
        /\ is_current(members[m].health.ev) /\ ~members[m].health.positive

\* A member is known to be unavailable or not well, by evidence that is current.
Degraded ==
    \E m \in Members :
        /\ is_current_member(m)
        /\ \/ members[m].lifecycle = "Unavailable"
           \/ is_current(members[m].health.ev) /\ ~members[m].health.positive

derive_lifecycle(c) ==
    CASE needs_revalidation -> "RevalidationRequired"
      [] ~needs_revalidation /\ evaluate_readiness(c) ->
            IF Degraded THEN "Degraded" ELSE "Ready"
      [] OTHER ->
            IF Known = {} THEN "Declared"
            ELSE IF \E m \in Members : is_current_member(m) THEN "Partial" ELSE "Discovering"

\* The counts that summary() makes record by record.
summary ==
    [present |-> Cardinality({m \in Members : members[m].lifecycle = "Present"}),
     unavailable |-> Cardinality({m \in Members : members[m].lifecycle = "Unavailable"}),
     retired |-> Cardinality({m \in Members : members[m].lifecycle = "Retired"}),
     revalidation_required |-> Cardinality({m \in Members : members[m].ev.reval}),
     stale |-> Cardinality(StaleMembers)]

-----------------------------------------------------------------------------
(* Specification *)

\* Evidence a request may carry: nothing, a synthetic declaration, a physical
\* observation made now or dated one tick ahead by a clock that runs fast.
RequestEvidence ==
    {NoEvidence,
     [prov |-> "Synthetic", age |-> 0, ttl |-> 0, durable |-> TRUE, reval |-> FALSE]} \cup
    {[prov |-> "Physical", age |-> a, ttl |-> Ttl, durable |-> FALSE, reval |-> FALSE] :
        a \in {-1, 0}}

\* An envelope and a health result are observations made now.
RequestObservation ==
    {[prov |-> "Physical", age |-> 0, ttl |-> Ttl, durable |-> FALSE, reval |-> FALSE]}

MutateBy(tok) ==
    \/ \E m \in Members :
         \/ \E lc \in {"Declared", "Present", "Retired"}, ev \in RequestEvidence :
               PublishMember(tok, m, lc, ev)
         \/ \E ev \in RequestObservation, positive \in BOOLEAN : PublishHealth(tok, m, ev, positive)
         \/ WithdrawAll(tok, m)
         \/ WithdrawHealth(tok, m)
         \/ MarkUnavailable(tok, m)
         \/ RetireMember(tok, m)
         \/ RevalidateMember(tok, m)
    \/ \E s \in Structures, durable \in BOOLEAN : PublishStructure(tok, s, durable)
    \/ WithdrawRelationship(tok)
    \/ \E e \in Envelopes, ev \in RequestObservation : PublishEnvelope(tok, e, ev)

ReadinessNext ==
    \/ \E b \in Boots : Register(b) \/ Fence(b)
    \/ \E tok \in Token : MutateBy(tok)
    \/ Restart
    \/ Tick

ReadinessSpec == ReadinessInit /\ [][ReadinessNext]_readinessVars

-----------------------------------------------------------------------------
(* Properties *)

\* Records keep their shape; a key without a record carries nothing.
ReadinessTypeOK ==
    /\ phase \in [Boots -> {"unknown", "registered", "active", "dead"}]
    /\ members \in [Members -> MemberRecord]
    /\ structure \in [Structures -> StructureRecord]
    /\ envelopes \in [Envelopes -> EnvelopeRecord]
    /\ vouched \subseteq Members
    /\ \A m \in Members : members[m].lifecycle = "Absent" => members[m] = NoMember

\* What check_invariants demands, and load_state with it: a retired member is
\* never current, through fencing, revalidation, late health and the clock.
RetiredIsNeverCurrent ==
    \A m \in Members : members[m].lifecycle = "Retired" => ~is_current(members[m].ev)

\* A member that counts towards readiness is nobody's, or its owner is alive, or
\* the operator has revalidated it since its owner was fenced: no order of
\* publication, fencing, restart and revalidation lets a dead process hold the
\* rack ready.
CountedMembersHaveAuthority ==
    \A c \in Contracts, m \in Members :
        has_current_evidence(m, c) =>
            \/ members[m].owner = None
            \/ Live(members[m].owner)
            \/ m \in vouched

\* A live observation on a relationship, a failure domain, an envelope, or the
\* health its owner reported for a member, stands unflagged only while the
\* process that made it does.
LiveFactsHaveLiveOwners ==
    /\ \A s \in Structures :
          structure[s].owner # None /\ ~structure[s].durable /\ ~structure[s].reval
          => Live(structure[s].owner)
    /\ \A e \in Envelopes :
          envelopes[e].owner # None /\ ~envelopes[e].ev.durable /\ ~envelopes[e].ev.reval
          => Live(envelopes[e].owner)
    /\ \A m \in Members :
          LET h == members[m].health IN
          has_evidence(h.ev) /\ h.by # None /\ h.by = members[m].owner /\ ~h.ev.reval
          => Live(h.by)

\* Current facts have an owner in standing, and none is about a retired member.
ReadinessInv ==
    /\ ReadinessTypeOK
    /\ RetiredIsNeverCurrent
    /\ LiveFactsHaveLiveOwners

\* What lifecycle() calls Ready, summary() agrees with: nothing to revalidate,
\* nothing unavailable and, where the contract asks for it, nothing stale.
ReadySummaryIsClean ==
    \A c \in Contracts :
        derive_lifecycle(c) = "Ready" =>
            /\ summary.revalidation_required = 0
            /\ summary.unavailable = 0
            /\ c.require_all_members_current => summary.stale = 0
            /\ summary.present >= c.min_nodes + c.min_accelerators

DatedAhead ==
    \/ \E m \in Members : members[m].ev.age < 0
    \/ \E e \in Envelopes : envelopes[e].ev.age < 0

\* The passage of time alone never makes the rack ready: it can only when an
\* observation was dated ahead, or when a report that a member is not well ages
\* out under a contract that does not require health.
AgingNeverHeals ==
    [][Tick =>
         \A c \in Contracts :
            \/ DatedAhead
            \/ ~c.require_member_health /\ Degraded
            \/ derive_lifecycle(c) = "Ready"
            \/ derive_lifecycle(c)' # "Ready"]_readinessVars
=============================================================================
