------------------------------- MODULE Members -------------------------------
(***************************************************************************)
(* The member records of the rack and the handlers that change them, under *)
(* the authority of module Authority: every publishing handler here is the *)
(* authority half (check_authority on entry, advance_publication on exit)  *)
(* and its effect on the records, in one atomic step.                      *)
(*                                                                         *)
(* A record keeps what ownership, retirement and versioning depend on: its *)
(* lifecycle, its generation, the boot identity that owns it, and whether  *)
(* it must be revalidated.  "Declared" stands for every lifecycle that is  *)
(* none of Present, Unavailable, Retired.  The checks on what a record     *)
(* refers to (parent, failure domains, power, cooling and switch domains)  *)
(* only reject, and a rejection changes no record: they are left out.      *)
(*                                                                         *)
(* Lease renewal and expiry touch no member record except through          *)
(* fence_publisher, which may happen at any time here; their timing is in  *)
(* Authority.                                                              *)
(***************************************************************************)
EXTENDS Authority

CONSTANTS
    Members,        \* member keys
    MaxMembers      \* limits.max_members

ASSUME MemberLimitAssumption == MaxMembers \in Nat

VARIABLES
    members,        \* members[m]; lifecycle "Absent" when m has no record
    gens            \* the counters of GenerationSet that members move

memberVars == <<members, gens>>
rackVars == <<authorityVars, memberVars>>

Lifecycle == {"Absent", "Declared", "Present", "Unavailable", "Retired"}

MemberRecord ==
    [lifecycle : Lifecycle, gen : Generation, owner : Boots \cup {None}, reval : BOOLEAN]

GenerationSet == [membership : Generation, health : Generation, capabilities : Generation]

\* The part of a publish_member request that decides the record's generation:
\* an expected generation (None when absent), the record's own generation
\* (0 when unset), and the explicit request to supersede.
VersionRequest ==
    [expected : Generation \cup {None}, gen : Generation, supersede : BOOLEAN]

NoMember == [lifecycle |-> "Absent", gen |-> 0, owner |-> None, reval |-> FALSE]
NoGenerations == [membership |-> 0, health |-> 0, capabilities |-> 0]

MembersInit ==
    /\ AuthorityInit
    /\ members = [m \in Members |-> NoMember]
    /\ gens = NoGenerations

-----------------------------------------------------------------------------
(* Helpers *)

Known == {m \in Members : members[m].lifecycle # "Absent"}
OwnedBy(b) == {m \in Known : members[m].owner = b}

\* A record changed in place: one generation further on.
Bumped(rec) == [rec EXCEPT !.gen = NextGen(@)]

\* Mutated form of MayChange: the ownership check is missing.
MayChangeAnyOwner(tok, m) ==
    /\ check_authority(tok, TRUE)
    /\ m \in Known

\* The checks every handler makes on an existing record: authority, existence
\* and, in all of them but retire_member, ownership.
MayChange(tok, m) ==
    /\ check_authority(tok, TRUE)
    /\ m \in Known
    /\ ~owner_conflict(members[m].owner, tok)

\* Every such handler is refused when the record's generation is exhausted.
HasNextGen(m) == members[m].gen < MaxGen

\* The three generation regimes of publish_member for an existing record.  In
\* the last one a request whose content is the same is "no change"; content the
\* model leaves out may differ, so a request may always be a real change.
VersionAdmitted(m, v) ==
    LET current == members[m].gen IN
    \/ v.expected # None /\ v.expected = current
    \/ /\ v.expected = None /\ v.gen > current
       /\ v.gen = current + 1 \/ v.supersede
    \/ v.expected = None /\ v.gen = 0

\* Mutated form of TargetGen: a generation in the request always wins.
TargetGenAsRequested(previous, v) == IF v.gen # 0 THEN v.gen ELSE previous + 1

\* The generation publish_member commits, given the previous one.
TargetGen(previous, v) == IF v.gen > previous THEN v.gen ELSE previous + 1

\* membership advances; health and capabilities are initialised when unset.
GensAfterPublish ==
    [membership   |-> NextGen(gens.membership),
     health       |-> IF gens.health = 0 THEN 1 ELSE gens.health,
     capabilities |-> IF gens.capabilities = 0 THEN 1 ELSE gens.capabilities]

GensAfterMembership == [gens EXCEPT !.membership = NextGen(@)]

-----------------------------------------------------------------------------
(* Handlers *)

\* Mutated form of MayPublish: the authority token is not checked.
MayPublishUnchecked(tok, m) ==
    /\ m \notin Known => Cardinality(Known) < MaxMembers
    /\ m \in Known => ~owner_conflict(members[m].owner, tok)

\* publish_member: whether tok may publish under key m at all.
MayPublish(tok, m) ==
    /\ check_authority(tok, TRUE)
    /\ m \notin Known => Cardinality(Known) < MaxMembers
    /\ m \in Known => ~owner_conflict(members[m].owner, tok)

\* Mutated form of PublishAdmitted: a retired identity may be published again.
PublishAdmittedAgain(tok, m, rec, v) ==
    /\ MayPublish(tok, m)
    /\ ~owner_conflict(rec.owner, tok)
    /\ m \in Known => VersionAdmitted(m, v)
    /\ v.gen > members[m].gen \/ HasNextGen(m)

\* publish_member: admission of this record, new or replacing the current one.
PublishAdmitted(tok, m, rec, v) ==
    /\ MayPublish(tok, m)
    /\ ~owner_conflict(rec.owner, tok)
    /\ m \in Known =>
         /\ members[m].lifecycle = "Retired" => rec.lifecycle = "Retired"
         /\ VersionAdmitted(m, v)
    /\ v.gen > members[m].gen \/ HasNextGen(m)

\* publish_member.  A publisher becomes the owner; the operator's request says
\* itself who owns the record, and may name nobody.
PublishMember(tok, m, rec, v) ==
    /\ PublishAdmitted(tok, m, rec, v)
    /\ members' = [members EXCEPT ![m] =
            [rec EXCEPT !.gen = TargetGen(members[m].gen, v),
                        !.owner = IF tok.boot # None THEN tok.boot ELSE @]]
    /\ gens' = GensAfterPublish
    /\ advance_publication(tok)
    /\ UNCHANGED <<epoch, rack, fencedBoots, expiring>>

\* publish_health: the record moves one generation, in any lifecycle.
PublishHealth(tok, m, expected) ==
    /\ MayChange(tok, m) /\ HasNextGen(m)
    /\ expected # None => expected >= members[m].gen
    /\ members' = [members EXCEPT ![m] = Bumped(@)]
    /\ gens' = [gens EXCEPT !.health = NextGen(@)]
    /\ advance_publication(tok)
    /\ UNCHANGED <<epoch, rack, fencedBoots, expiring>>

\* publish_capability that adds or changes a capability.
PublishCapability(tok, m) ==
    /\ MayChange(tok, m) /\ HasNextGen(m)
    /\ members' = [members EXCEPT ![m] = Bumped(@)]
    /\ gens' = [gens EXCEPT !.capabilities = NextGen(@)]
    /\ advance_publication(tok)
    /\ UNCHANGED <<epoch, rack, fencedBoots, expiring>>

\* withdraw_evidence with a scope other than All: one kind of evidence goes,
\* the record moves one generation.
WithdrawScoped(tok, m) ==
    /\ MayChange(tok, m) /\ HasNextGen(m)
    /\ members' = [members EXCEPT ![m] = Bumped(@)]
    /\ gens' = GensAfterMembership
    /\ advance_publication(tok)
    /\ UNCHANGED <<epoch, rack, fencedBoots, expiring>>

\* withdraw_evidence with scope All: whatever its lifecycle was, the record is
\* a plain declaration again and needs no revalidation.
WithdrawAll(tok, m) ==
    /\ MayChange(tok, m) /\ HasNextGen(m)
    /\ members' = [members EXCEPT ![m] =
            [Bumped(@) EXCEPT !.lifecycle = "Declared", !.reval = FALSE]]
    /\ gens' = GensAfterMembership
    /\ advance_publication(tok)
    /\ UNCHANGED <<epoch, rack, fencedBoots, expiring>>

MarkUnavailable(tok, m) ==
    /\ MayChange(tok, m) /\ HasNextGen(m)
    /\ members[m].lifecycle \notin {"Retired", "Unavailable"}
    /\ members' = [members EXCEPT ![m] =
            [Bumped(@) EXCEPT !.lifecycle = "Unavailable", !.reval = TRUE]]
    /\ gens' = GensAfterMembership
    /\ advance_publication(tok)
    /\ UNCHANGED <<epoch, rack, fencedBoots, expiring>>

\* retire_member, the one handler on a record that does not ask who owns it.
RetireMember(tok, m) ==
    /\ check_authority(tok, TRUE)
    /\ m \in Known /\ HasNextGen(m)
    /\ members[m].lifecycle # "Retired"
    /\ members' = [members EXCEPT ![m] =
            [Bumped(@) EXCEPT !.lifecycle = "Retired", !.reval = FALSE]]
    /\ gens' = GensAfterMembership
    /\ advance_publication(tok)
    /\ UNCHANGED <<epoch, rack, fencedBoots, expiring>>

\* The target x makes revalidate_members return a rejection.
BadTarget(tok, x) ==
    \/ x \notin Known
    \/ owner_conflict(members[x].owner, tok)
    \/ members[x].reval /\ ~HasNextGen(x)

\* The records in S revalidated, each one generation further on.
Revalidated(S) ==
    [m \in Members |-> IF m \in S THEN [Bumped(members[m]) EXCEPT !.reval = FALSE]
                                  ELSE members[m]]

\* revalidate_members with targets that are all good: those flagged are cleared.
RevalidateMembers(tok, targets) ==
    LET flagged == {m \in targets : members[m].reval} IN
    /\ check_authority(tok, TRUE)
    /\ \A x \in targets : ~BadTarget(tok, x)
    /\ flagged # {}
    /\ members' = Revalidated(flagged)
    /\ gens' = GensAfterMembership
    /\ advance_publication(tok)
    /\ UNCHANGED <<epoch, rack, fencedBoots, expiring>>

\* revalidate_members that rejects at target x: the good targets listed before
\* x have been committed and stay so, and no set-wide generation moves.
RevalidateRejected(tok, before, x) ==
    /\ check_authority(tok, TRUE)
    /\ BadTarget(tok, x)
    /\ before # {}
    /\ \A m \in before : ~BadTarget(tok, m) /\ members[m].reval
    /\ members' = Revalidated(before)
    /\ UNCHANGED <<authorityVars, gens>>

\* fence_publisher: the records the boot owns are flagged and move one
\* generation (a record at its last generation is flagged all the same).
FenceOwner(e, b) ==
    /\ FencePublisher(e, b)
    /\ members' = [m \in Members |-> IF m \in OwnedBy(b)
                                     THEN [Bumped(members[m]) EXCEPT !.reval = TRUE]
                                     ELSE members[m]]
    /\ gens' = GensAfterMembership

\* declare_rack with redeclare: every record is bound to the old incarnation.
RedeclareRack(tok, inc) ==
    /\ Redeclare(tok, inc)
    /\ members' = [m \in Members |-> IF m \in Known
                                     THEN [members[m] EXCEPT !.reval = TRUE]
                                     ELSE members[m]]
    /\ UNCHANGED gens

\* Mutated form of RetireWholeRack: the records are flagged but stay present.
RetireWholeRackFlagged(tok) ==
    /\ RetireRack(tok)
    /\ members' = [m \in Members |->
            IF members[m].lifecycle = "Present" THEN [members[m] EXCEPT !.reval = TRUE]
                                                ELSE members[m]]
    /\ UNCHANGED gens

\* retire_rack: nothing is present in a retired rack.
RetireWholeRack(tok) ==
    /\ RetireRack(tok)
    /\ members' = [m \in Members |->
            IF members[m].lifecycle = "Present"
            THEN [members[m] EXCEPT !.lifecycle = "Unavailable", !.reval = TRUE]
            ELSE members[m]]
    /\ UNCHANGED gens

\* The record half of a publish_member request.
RequestRecord ==
    [lifecycle : Lifecycle \ {"Absent"}, gen : {0}, owner : Boots \cup {None}, reval : BOOLEAN]

\* Sequencing is checked in Authority: a sequenced request that passes has the
\* effect of an unsequenced one.
RequestToken == {tok \in AuthorityToken : tok.gen = None}

\* A request of process or operator tok to change member records.
MutateBy(tok) ==
    \/ \E m \in Members :
         \/ /\ MayPublish(tok, m)
            /\ \E rec \in RequestRecord, v \in VersionRequest : PublishMember(tok, m, rec, v)
         \/ \E expected \in Generation \cup {None} : PublishHealth(tok, m, expected)
         \/ PublishCapability(tok, m)
         \/ WithdrawScoped(tok, m)
         \/ WithdrawAll(tok, m)
         \/ MarkUnavailable(tok, m)
         \/ RetireMember(tok, m)
    \/ \E targets \in SUBSET Members : RevalidateMembers(tok, targets)
    \/ \E before \in SUBSET Members, x \in Members : RevalidateRejected(tok, before, x)

MembersNext ==
    \/ \E e \in Epochs, r \in Racks, w \in Workers, b \in Boots :
          RegisterNew(e, r, w, b) /\ UNCHANGED memberVars
    \/ \E tok \in RequestToken :
          \/ \E inc \in RackEpochs :
                \/ DeclareFirst(tok, inc) /\ UNCHANGED memberVars
                \/ RedeclareRack(tok, inc)
          \/ RetireWholeRack(tok)
          \/ MutateBy(tok)
    \/ \E e \in Epochs, b \in Boots : FenceOwner(e, b)

MembersSpec == MembersInit /\ [][MembersNext]_rackVars

-----------------------------------------------------------------------------
(* Properties *)

\* The member records and the set-wide counters keep their shape; a key without
\* a record carries nothing.
MembersTypeOK ==
    /\ members \in [Members -> MemberRecord]
    /\ gens \in GenerationSet
    /\ \A m \in Members : members[m].lifecycle = "Absent" => members[m] = NoMember
    /\ Cardinality(Known) <= MaxMembers

\* What check_invariants demands of a retired rack: no member is present, in
\* whatever order retirement, fencing and late publications arrive.
RetiredRackHasNoPresentMember ==
    rack.retired => \A m \in Members : members[m].lifecycle # "Present"

\* The member records are well formed, within their limits, and none is present in a
\* retired rack.
MembersInv ==
    /\ MembersTypeOK
    /\ RetiredRackHasNoPresentMember

\* When process b publishes, the records another process owns stay as they are,
\* or are retired; none is edited, flagged, cleared or taken over, even when the
\* owner has been fenced meanwhile.
OwnershipRespected ==
    [][\A b \in Boots, m \in Members :
          /\ publishers'[b].gen # publishers[b].gen
          /\ rack' = rack
          /\ members[m].owner \notin {b, None}
          => \/ members'[m] = members[m]
             \/ /\ members[m].lifecycle # "Retired"
                /\ members'[m] = [Bumped(members[m]) EXCEPT !.lifecycle = "Retired",
                                                            !.reval = FALSE]]_rackVars

\* A record's generation identifies its lifecycle and its owner, which is what a
\* reader that publishes with expected_generation relies on: the generation never
\* goes back, no record disappears, and whatever changes the lifecycle or the
\* owner moves it.  Retiring the whole rack is the exception.
GenerationIdentifiesRecord ==
    [][\A m \in Known :
          /\ members'[m].gen >= members[m].gen
          /\ members'[m].lifecycle # "Absent"
          /\ members'[m].gen = members[m].gen /\ rack'.retired = rack.retired
             => /\ members'[m].lifecycle = members[m].lifecycle
                /\ members'[m].owner = members[m].owner]_rackVars

\* The member handlers add no authority: seen without the records, each of them
\* is a step that Authority allows.
MembersUnderAuthority == AuthoritySpec

\* A retired identity comes back in one way only: withdrawing all its evidence makes
\* it a declared member again, never a present one.
RetiredReturnsAsDeclared ==
    [][\A m \in Members :
          members[m].lifecycle = "Retired" =>
             members'[m].lifecycle \in {"Retired", "Declared"}]_rackVars
=============================================================================
