------------------------------ MODULE Authority ------------------------------
(***************************************************************************)
(* Who may change the rack.  The part of RackState that decides whether a  *)
(* mutation is accepted: the coordinator epoch, the rack record, the       *)
(* publisher records with their leases, and the fenced boot identities.    *)
(*                                                                         *)
(* Every handler of RackFabric runs under one exclusive lock, so a handler *)
(* is one action.  The exception is expire_publishers, which drops the     *)
(* lock between collecting the expired leases and fencing each of them.    *)
(*                                                                         *)
(* A request that is rejected, or accepted as "no change", leaves this     *)
(* state alone and is a stuttering step.  Abstracted: labels, diagnostic   *)
(* counters and timestamps that no handler reads back; last_seen_at is     *)
(* kept as its age, the only thing any handler computes from it.           *)
(***************************************************************************)
EXTENDS Integers, FiniteSets

CONSTANTS
    Boots,              \* boot identities of agent processes
    Workers,            \* worker identities
    Racks,              \* rack identities a request may name
    RackEpochs,         \* rack incarnation identities
    Epochs,             \* coordinator epochs a request may carry
    None,               \* an absent optional field
    MaxGen,             \* largest value of a generation counter
    MaxConnections,     \* limits.max_connections
    Lease               \* limits.publisher_lease_millis, 0 when disabled

ASSUME GenAssumption == MaxGen \in Nat \ {0}
ASSUME EpochAssumption == Epochs \subseteq Nat /\ 1 \in Epochs
ASSUME LeaseAssumption == Lease \in Nat
ASSUME LimitAssumption == MaxConnections \in Nat
ASSUME NoneAssumption ==
    None \notin Boots /\ None \notin Racks /\ None \notin RackEpochs /\ None \notin Int

VARIABLES
    epoch,          \* generations.coordinator_epoch
    rack,           \* the rack record; id = None when nothing is declared
    publishers,     \* publishers[b]; state "Absent" when b has no record
    fencedBoots,    \* the keys of fenced_boots
    operatorGen,    \* operator_publication_generation
    expiring        \* boots collected by expire_publishers, not yet fenced

authorityVars == <<epoch, rack, publishers, fencedBoots, operatorGen, expiring>>

Generation == 0..MaxGen

\* Ages past the lease are indistinguishable.
Age == 0..(Lease + 1)

PublisherState == {"Absent", "Active", "Lost", "Fenced"}

PublisherRecord ==
    [state : PublisherState,
     worker : Workers \cup {None},
     epoch : Epochs \cup {0},
     gen : Generation,
     age : Age]

RackRecord ==
    [id : Racks \cup {None},
     incarnation : RackEpochs \cup {None},
     gen : Generation,
     retired : BOOLEAN]

\* The authority attached to one mutation.  boot = None is the in-process
\* operator; gen = None leaves the publication unsequenced.
AuthorityToken ==
    [epoch : Epochs, rack : Racks \cup {None},
     boot : Boots \cup {None}, gen : Generation \cup {None}]

NoPublisher == [state |-> "Absent", worker |-> None, epoch |-> 0, gen |-> 0, age |-> 0]
NoRack == [id |-> None, incarnation |-> None, gen |-> 0, retired |-> FALSE]

AuthorityInit ==
    /\ epoch = 1
    /\ rack = NoRack
    /\ publishers = [b \in Boots |-> NoPublisher]
    /\ fencedBoots = {}
    /\ operatorGen = 0
    /\ expiring = {}

-----------------------------------------------------------------------------
(* Helpers *)

\* Mutated form of NextGen: the limit check of Generation::next is missing.
NextGenUnchecked(g) == g + 1

\* Generation::next, where a caller keeps the old value when there is none.
NextGen(g) == IF g < MaxGen THEN g + 1 ELSE g

RegisteredBoots == {b \in Boots : publishers[b].state # "Absent"}

\* Mutated form of HasStanding: a registered boot is enough.
HasStandingIfRegistered(b) == publishers[b].state # "Absent"

\* The publisher part of check_authority: not fenced, registered, neither lost
\* nor fenced, and registered under the current coordinator epoch.
HasStanding(b) ==
    /\ b \notin fencedBoots
    /\ publishers[b].state = "Active"
    /\ publishers[b].epoch = epoch

\* Mutated form of RackAccepts: the retired flag is not read, and the operator,
\* who has no boot identity to be fenced, keeps publishing.
RackAcceptsRetired(tok, rackScoped) ==
    rackScoped => rack.id # None /\ tok.rack = rack.id

\* The rack part of check_authority.
RackAccepts(tok, rackScoped) ==
    /\ rackScoped => rack.id # None /\ tok.rack = rack.id
    /\ ~rack.retired

check_authority(tok, rackScoped) ==
    /\ tok.epoch = epoch
    /\ RackAccepts(tok, rackScoped)
    /\ tok.boot # None =>
         /\ HasStanding(tok.boot)
         /\ tok.gen # None => tok.gen = publishers[tok.boot].gen

\* The caller's publication counter after an accepted mutation.
Advanced(pubs, b) ==
    [pubs EXCEPT ![b].gen = NextGen(@), ![b].state = "Active"]

advance_publication(tok) ==
    IF tok.boot # None
    THEN /\ publishers' = Advanced(publishers, tok.boot)
         /\ UNCHANGED operatorGen
    ELSE /\ operatorGen' = NextGen(operatorGen)
         /\ UNCHANGED publishers

\* Records owned by another process incarnation are out of the token's reach.
owner_conflict(owner, tok) ==
    tok.boot # None /\ owner # None /\ owner # tok.boot

-----------------------------------------------------------------------------
(* Handlers *)

\* register_publisher: the checks every registration passes.
RegistrationAllowed(e, r, b) ==
    /\ e = epoch
    /\ rack.id # None /\ r = rack.id /\ ~rack.retired
    /\ b \notin fencedBoots

\* register_publisher for a boot identity that has no record yet.
RegisterNew(e, r, w, b) ==
    /\ RegistrationAllowed(e, r, b)
    /\ publishers[b].state = "Absent"
    /\ Cardinality(RegisteredBoots) < MaxConnections
    /\ publishers' = [publishers EXCEPT ![b] =
            [state |-> "Active", worker |-> w, epoch |-> epoch, gen |-> 1, age |-> 0]]
    /\ UNCHANGED <<epoch, rack, fencedBoots, operatorGen, expiring>>

\* register_publisher for a boot identity that is already registered: reported
\* as no change, yet it renews the lease.
RegisterAgain(e, r, w, b) ==
    /\ RegistrationAllowed(e, r, b)
    /\ publishers[b].state = "Active"
    /\ publishers[b].worker = w
    /\ publishers' = [publishers EXCEPT ![b].age = 0]
    /\ UNCHANGED <<epoch, rack, fencedBoots, operatorGen, expiring>>

\* declare_rack on an instance that describes no rack yet.
DeclareFirst(tok, inc) ==
    /\ tok.rack # None
    /\ check_authority(tok, FALSE)
    /\ rack.id = None
    /\ rack' = [id |-> tok.rack, incarnation |-> inc, gen |-> 1, retired |-> FALSE]
    /\ UNCHANGED <<epoch, publishers, fencedBoots, operatorGen, expiring>>

\* declare_rack with redeclare set: the rack gets a new incarnation.  It does
\* not advance the caller's publication generation.
Redeclare(tok, inc) ==
    /\ check_authority(tok, FALSE)
    /\ rack.id # None /\ tok.rack = rack.id /\ ~rack.retired
    /\ rack.incarnation # inc
    /\ rack.gen < MaxGen
    /\ rack' = [rack EXCEPT !.incarnation = inc, !.gen = @ + 1]
    /\ UNCHANGED <<epoch, publishers, fencedBoots, operatorGen, expiring>>

\* Mutated form of RetireRack: publishers are marked lost but not fenced.
RetireRackWithoutFencing(tok) ==
    /\ check_authority(tok, TRUE)
    /\ rack.gen < MaxGen
    /\ rack' = [rack EXCEPT !.retired = TRUE, !.gen = @ + 1]
    /\ LET lost == [b \in Boots |-> IF b \in RegisteredBoots
                                    THEN [publishers[b] EXCEPT !.state = "Lost"]
                                    ELSE publishers[b]]
       IN  IF tok.boot # None
           THEN publishers' = Advanced(lost, tok.boot) /\ UNCHANGED operatorGen
           ELSE publishers' = lost /\ operatorGen' = NextGen(operatorGen)
    /\ UNCHANGED <<epoch, fencedBoots, expiring>>

\* retire_rack: every publisher is marked lost and its boot fenced; the trailing
\* advance_publication then puts the caller's own record back to "Active".
RetireRack(tok) ==
    /\ check_authority(tok, TRUE)
    /\ rack.gen < MaxGen
    /\ rack' = [rack EXCEPT !.retired = TRUE, !.gen = @ + 1]
    /\ fencedBoots' = fencedBoots \cup RegisteredBoots
    /\ LET lost == [b \in Boots |-> IF b \in RegisteredBoots
                                    THEN [publishers[b] EXCEPT !.state = "Lost"]
                                    ELSE publishers[b]]
       IN  IF tok.boot # None
           THEN publishers' = Advanced(lost, tok.boot) /\ UNCHANGED operatorGen
           ELSE publishers' = lost /\ operatorGen' = NextGen(operatorGen)
    /\ UNCHANGED <<epoch, expiring>>

\* heartbeat renews the lease and leaves the publication generation alone.
Heartbeat(tok) ==
    /\ check_authority(tok, FALSE)
    /\ tok.boot # None
    /\ publishers' = [publishers EXCEPT ![tok.boot].age = 0]
    /\ UNCHANGED <<epoch, rack, fencedBoots, operatorGen, expiring>>

\* The authority half of every publishing handler: the check on entry and the
\* advance_publication on the way out.
AcceptMutation(tok) ==
    /\ check_authority(tok, TRUE)
    /\ advance_publication(tok)
    /\ UNCHANGED <<epoch, rack, fencedBoots, expiring>>

\* Mutated form of MarkFenced: only the publisher record is marked.
MarkFencedInRecord(b) ==
    /\ publishers' = [publishers EXCEPT ![b].state = "Fenced"]
    /\ UNCHANGED fencedBoots

\* What fence_publisher does to a registered boot that is not "Fenced" yet.
MarkFenced(b) ==
    /\ publishers' = [publishers EXCEPT ![b].state = "Fenced"]
    /\ fencedBoots' = fencedBoots \cup {b}

CanFence(b) == publishers[b].state \in {"Active", "Lost"}

FencePublisher(e, b) ==
    /\ e = epoch
    /\ CanFence(b)
    /\ MarkFenced(b)
    /\ UNCHANGED <<epoch, rack, operatorGen, expiring>>

LeaseExpired(b) ==
    /\ publishers[b].state = "Active"
    /\ Lease > 0
    /\ publishers[b].age > Lease

\* expire_publishers, under the lock: collect the expired publishers.
ExpireCollect ==
    /\ expiring = {}
    /\ expiring' = {b \in Boots : LeaseExpired(b)}
    /\ expiring' # {}
    /\ UNCHANGED <<epoch, rack, publishers, fencedBoots, operatorGen>>

\* expire_publishers, after the unlock: one call of fence_publisher, with the
\* epoch read at that moment, for a boot collected earlier.
ExpireFence(b) ==
    /\ b \in expiring
    /\ expiring' = expiring \ {b}
    /\ IF CanFence(b) THEN MarkFenced(b) ELSE UNCHANGED <<publishers, fencedBoots>>
    /\ UNCHANGED <<epoch, rack, operatorGen>>

\* Time passes for every publisher alike.
Tick ==
    /\ \E b \in Boots : publishers[b].state = "Active" /\ publishers[b].age <= Lease
    /\ publishers' = [b \in Boots |->
            IF publishers[b].state = "Active" /\ publishers[b].age <= Lease
            THEN [publishers[b] EXCEPT !.age = @ + 1]
            ELSE publishers[b]]
    /\ UNCHANGED <<epoch, rack, fencedBoots, operatorGen, expiring>>

AuthorityNext ==
    \/ \E e \in Epochs, r \in Racks, w \in Workers, b \in Boots :
          RegisterNew(e, r, w, b) \/ RegisterAgain(e, r, w, b)
    \/ \E tok \in AuthorityToken :
          \/ \E inc \in RackEpochs : DeclareFirst(tok, inc) \/ Redeclare(tok, inc)
          \/ RetireRack(tok)
          \/ Heartbeat(tok)
          \/ AcceptMutation(tok)
    \/ \E e \in Epochs, b \in Boots : FencePublisher(e, b)
    \/ ExpireCollect
    \/ \E b \in Boots : ExpireFence(b)
    \/ Tick

AuthoritySpec == AuthorityInit /\ [][AuthorityNext]_authorityVars

-----------------------------------------------------------------------------
(* Properties *)

\* The authority state has the shape the handlers expect; in particular no
\* generation counter ever leaves the range Generation::next guards.
AuthorityTypeOK ==
    /\ epoch \in Epochs
    /\ rack \in RackRecord
    /\ publishers \in [Boots -> PublisherRecord]
    /\ fencedBoots \subseteq Boots
    /\ operatorGen \in Generation
    /\ expiring \subseteq Boots

\* The two records of a revocation agree: a publisher marked lost or fenced is
\* in fenced_boots, every fenced boot has a publisher record, and a fenced boot
\* whose record still reads "Active" (the caller of retire_rack) belongs to a
\* retired rack, where check_authority lets nobody through.
RevocationConsistent ==
    \A b \in Boots :
       /\ publishers[b].state \in {"Lost", "Fenced"} => b \in fencedBoots
       /\ b \in fencedBoots => publishers[b].state # "Absent"
       /\ b \in fencedBoots /\ publishers[b].state = "Active" => rack.retired

\* Fencing is permanent within an epoch: no sequence of registrations,
\* heartbeats and publications, by the fenced process or by others, gives a
\* fenced boot a new publication, a renewed lease or a way out of fenced_boots.
FencingIsPermanent ==
    [][\A b \in fencedBoots :
          /\ b \in fencedBoots'
          /\ publishers'[b].gen = publishers[b].gen
          /\ publishers'[b].age >= publishers[b].age
          /\ publishers'[b].worker = publishers[b].worker]_authorityVars

\* A retired rack is closed: after retire_rack nothing is registered, renewed,
\* published or redeclared, by a publisher or by the operator.  Publisher
\* records only move further towards "Fenced".
RetiredRackIsClosed ==
    [][rack.retired =>
          /\ rack' = rack
          /\ operatorGen' = operatorGen
          /\ \A b \in Boots :
                /\ publishers'[b].gen = publishers[b].gen
                /\ publishers'[b].age >= publishers[b].age
                /\ publishers'[b].state \in {publishers[b].state, "Fenced"}]_authorityVars

\* The phase of a boot identity's life, and its publication generation.
BootPhase ==
    [b \in Boots |-> IF b \in fencedBoots \/ publishers[b].state \in {"Lost", "Fenced"}
                     THEN "dead"
                     ELSE IF publishers[b].state = "Active" THEN "live" ELSE "unknown"]
BootGen == [b \in Boots |-> publishers[b].gen]

\* The abstract life of a boot identity that Authority implements.
Contract == INSTANCE BootAuthority WITH phase <- BootPhase, published <- BootGen

\* The handlers implement the contract of BootAuthority: a boot identity is
\* admitted once, publishes only while live, and never comes back.
BootContract == Contract!BootSpec
=============================================================================
