------------------------------ MODULE Snapshots ------------------------------
(***************************************************************************)
(* Snapshots: a copy of the rack's records bound to the generations they   *)
(* had, handed to a consumer that later asks whether it still describes    *)
(* the rack.  The answer compares generations, never records, so it is     *)
(* right exactly as far as every handler moves a generation with what it   *)
(* changes, through exhausted counters, crashes and reloaded files.        *)
(*                                                                         *)
(* Records are abstracted to the version of each part of the rack; every   *)
(* change makes a version never used before.  Each handler is what it      *)
(* changes and what it moves.  Its own guards are in Authority, Members,   *)
(* Topology, FailureDomains and Envelopes.                                 *)
(***************************************************************************)
EXTENDS Naturals, FiniteSetsExt

CONSTANTS
    RackEpochs,     \* rack incarnation identities an operator may declare
    MaxRetained,    \* limits.max_retained_snapshots
    MaxGen,         \* the largest value of a generation counter of the rack
    MaxSnapshotGen, \* the largest value of the snapshots' own counter
    MaxChanges,     \* bound: changes over all runs
    MaxIssued,      \* bound: snapshots published over all runs
    MaxRuns,        \* bound: coordinator processes, one after another
    None            \* no rack, no file

ASSUME SnapshotsAssumption ==
    /\ None \notin RackEpochs
    /\ MaxRetained \in Nat \ {0}
    /\ MaxGen \in Nat \ {0} /\ MaxSnapshotGen \in Nat \ {0}
    /\ MaxChanges \in Nat /\ MaxIssued \in Nat /\ MaxRuns \in Nat \ {0}

Parts == {"members", "relationships", "failure_domains", "power", "cooling"}

\* GenerationSet.
Counters == {"rack", "membership", "topology", "failure_domains", "constraints", "power",
             "cooling", "health", "capabilities", "coordinator_epoch"}

Generations == [Counters -> 0..MaxGen]
Content == [Parts -> 0..MaxChanges]

\* A snapshot; runOf is history, the rest is what build_snapshot copies.
RackSnapshot ==
    [generation : 1..MaxSnapshotGen, rack_epoch : RackEpochs, bound : Generations,
     content : Content, runOf : 1..MaxRuns]

RackState ==
    [rack_epoch : RackEpochs \cup {None}, retired : BOOLEAN, content : Content,
     generations : Generations, snapshot_generation : 0..MaxSnapshotGen,
     snapshots : SUBSET RackSnapshot]

\* That there is no file is told from every file.
ASSUME FileAssumption == None \notin RackState

VARIABLES
    state,      \* the RackState: rack epoch, retired, content, generations, snapshots
    file,       \* the state in the file, or None
    running,    \* the coordinator process is up
    run,        \* history: which process that is
    changes,    \* history: number of changes made, the source of versions
    issued,     \* history: the snapshots consumers hold
    saved,      \* history: those of a process that wrote its file afterwards
    silent      \* history: versions made by a step that moved no generation

snapshotVars == <<state, file, running, run, changes, issued, saved, silent>>

\* A new RackFabric.
NewState ==
    [rack_epoch |-> None, retired |-> FALSE, content |-> [p \in Parts |-> 0],
     generations |-> [c \in Counters |-> IF c = "coordinator_epoch" THEN 1 ELSE 0],
     snapshot_generation |-> 0, snapshots |-> {}]

SnapshotsInit ==
    /\ state = NewState
    /\ file = None
    /\ running = TRUE
    /\ run = 1
    /\ changes = 0
    /\ issued = {}
    /\ saved = {}
    /\ silent = {}

-----------------------------------------------------------------------------
(* Changes *)

\* An exhausted counter stays where it is.
Moved(generations, cs) ==
    [c \in Counters |-> IF c \in cs THEN Min({generations[c] + 1, MaxGen}) ELSE generations[c]]

Current == running /\ state.rack_epoch # None /\ ~state.retired

\* Records of the parts ps change and the counters cs move, in a state s.
Changed(s, ps, cs) ==
    [s EXCEPT !.content = [p \in Parts |-> IF p \in ps THEN changes + 1 ELSE @[p]],
              !.generations = Moved(@, cs)]

\* The counter can move.
Unexhausted(c) == state.generations[c] < MaxGen

\* A handler that changes ps and moves cs; silent if all of these are exhausted.
Change(ps, cs) ==
    /\ Current
    /\ changes < MaxChanges
    /\ changes' = changes + 1
    /\ state' = Changed(state, ps, cs)
    /\ silent' = IF cs # {} /\ \A c \in cs : ~Unexhausted(c) THEN silent \cup {changes + 1}
                                                              ELSE silent
    /\ UNCHANGED <<file, running, run, issued, saved>>

-----------------------------------------------------------------------------
(* Handlers *)

DeclareRack(e) ==
    /\ running
    /\ state.rack_epoch = None
    /\ state' = [state EXCEPT !.rack_epoch = e, !.generations["rack"] = 1]
    /\ UNCHANGED <<file, running, run, changes, issued, saved, silent>>

\* declare_rack with redeclare: also under an incarnation used before.
Redeclare(e) ==
    /\ Current
    /\ state.rack_epoch # e
    /\ Unexhausted("rack")
    /\ changes < MaxChanges
    /\ changes' = changes + 1
    /\ state' = [Changed(state, {"members", "relationships", "failure_domains"}, {"rack"})
                 EXCEPT !.rack_epoch = e]
    /\ UNCHANGED <<file, running, run, issued, saved, silent>>

\* retire_rack; a consumer may still ask about its snapshots.
RetireRack ==
    /\ Current
    /\ Unexhausted("rack")
    /\ changes < MaxChanges
    /\ changes' = changes + 1
    /\ state' = [Changed(state, {"members"}, {"rack"}) EXCEPT !.retired = TRUE]
    /\ UNCHANGED <<file, running, run, issued, saved, silent>>

\* The first member also gives health and capabilities their first generation.
PublishMember ==
    Change({"members"},
           {"membership"} \cup {c \in {"health", "capabilities"} : state.generations[c] = 0})

PublishHealth == Change({"members"}, {"health"})

PublishCapability == Change({"members"}, {"capabilities"})

WithdrawEvidence == Change({"members"}, {"membership"})

MarkUnavailable == Change({"members"}, {"membership"})

\* Mutated form of RetireMember: only the relationships that go are counted.
RetireMemberUncounted(linked) ==
    IF linked THEN Change({"members", "relationships"}, {"topology"}) ELSE Change({"members"}, {})

\* linked: relationships went with the member.
RetireMember(linked) ==
    IF linked THEN Change({"members", "relationships"}, {"membership", "topology"})
              ELSE Change({"members"}, {"membership"})

RevalidateMembers == Change({"members"}, {"membership"})

\* revalidate_members that meets an unknown or a foreign member after it has
\* revalidated another: the request is rejected, what was done stays.
RevalidateRejected ==
    /\ Current
    /\ changes < MaxChanges
    /\ changes' = changes + 1
    /\ state' = Changed(state, {"members"}, {})
    /\ silent' = silent \cup {changes + 1}
    /\ UNCHANGED <<file, running, run, issued, saved>>

PublishRelationship == Unexhausted("topology") /\ Change({"relationships"}, {"topology"})

WithdrawRelationship == Change({"relationships"}, {"topology"})

PublishFailureDomain ==
    Unexhausted("failure_domains") /\ Change({"failure_domains"}, {"failure_domains"})

PublishPowerEnvelope == Unexhausted("power") /\ Change({"power"}, {"power", "constraints"})

PublishCoolingEnvelope == Unexhausted("cooling") /\ Change({"cooling"}, {"cooling", "constraints"})

\* fence_publisher: whatever the process owned is flagged, one counter moves.
Fence == Change(Parts, {"membership"})

-----------------------------------------------------------------------------
(* Snapshots *)

\* Room for one more: at the limit the oldest goes.
Retained(snaps) ==
    IF Cardinality(snaps) >= MaxRetained
    THEN {s \in snaps : \E t \in snaps : t.generation < s.generation}
    ELSE snaps

\* The identity of a snapshot is made of the rack's and its generation.
build_snapshot(generation) ==
    [generation |-> generation, rack_epoch |-> state.rack_epoch, bound |-> state.generations,
     content |-> state.content, runOf |-> run]

PublishSnapshot ==
    LET s == build_snapshot(state.snapshot_generation + 1) IN
    /\ Current
    /\ state.snapshot_generation < MaxSnapshotGen
    /\ Cardinality(issued) < MaxIssued
    /\ state' = [state EXCEPT !.snapshot_generation = @ + 1,
                              !.snapshots = Retained(@) \cup {s}]
    /\ issued' = issued \cup {s}
    /\ UNCHANGED <<file, running, run, changes, saved, silent>>

\* Mutated form of validate_snapshot: the coordinator's epoch is not compared.
validate_by_records(s) ==
    CASE state.rack_epoch = None -> "UnknownRack"
      [] OTHER -> IF /\ \A c \in Counters \ {"coordinator_epoch"} :
                           s.bound[c] = state.generations[c]
                     /\ s.rack_epoch = state.rack_epoch
                  THEN "Current" ELSE "Stale"

\* Of a snapshot that was not tampered with, whose digest is therefore right.
validate_snapshot(s) ==
    CASE state.rack_epoch = None -> "UnknownRack"
      [] OTHER -> IF s.bound = state.generations /\ s.rack_epoch = state.rack_epoch
                  THEN "Current" ELSE "Stale"

-----------------------------------------------------------------------------
(* Processes and the file *)

Save ==
    /\ running
    /\ file' = state
    /\ saved' = saved \cup {s \in issued : s.runOf = run}
    /\ UNCHANGED <<state, running, run, changes, issued, silent>>

Crash ==
    /\ running /\ run < MaxRuns
    /\ running' = FALSE
    /\ UNCHANGED <<state, file, run, changes, issued, saved, silent>>

\* A new process without a file.
StartFresh ==
    /\ ~running /\ file = None
    /\ running' = TRUE
    /\ run' = run + 1
    /\ state' = NewState
    /\ UNCHANGED <<file, changes, issued, saved, silent>>

\* Mutated form of LoadState: the generations start again, under the next epoch.
LoadStateAnew ==
    /\ ~running /\ file # None
    /\ changes < MaxChanges
    /\ file.generations["coordinator_epoch"] < MaxGen
    /\ running' = TRUE
    /\ run' = run + 1
    /\ changes' = changes + 1
    /\ state' = [Changed(file, Parts, {"coordinator_epoch"}) EXCEPT !.generations =
            [c \in Counters |-> IF c = "coordinator_epoch" THEN @[c] ELSE 0]]
    /\ UNCHANGED <<file, issued, saved, silent>>

\* load_state: the recovery policy flags records, and the epoch after the file's.
\* The retained snapshots and their counter come from the file.
LoadState ==
    /\ ~running /\ file # None
    /\ changes < MaxChanges
    /\ file.generations["coordinator_epoch"] < MaxGen
    /\ running' = TRUE
    /\ run' = run + 1
    /\ changes' = changes + 1
    /\ state' = Changed(file, Parts, {"coordinator_epoch"})
    /\ UNCHANGED <<file, issued, saved, silent>>

-----------------------------------------------------------------------------
(* Specification *)

Handler ==
    \/ PublishMember \/ PublishHealth \/ PublishCapability
    \/ WithdrawEvidence \/ MarkUnavailable \/ RevalidateMembers \/ RevalidateRejected
    \/ \E linked \in BOOLEAN : RetireMember(linked)
    \/ PublishRelationship \/ WithdrawRelationship \/ PublishFailureDomain
    \/ PublishPowerEnvelope \/ PublishCoolingEnvelope
    \/ Fence

SnapshotsNext ==
    \/ \E e \in RackEpochs : DeclareRack(e) \/ Redeclare(e)
    \/ RetireRack
    \/ Handler
    \/ PublishSnapshot
    \/ Save
    \/ Crash
    \/ StartFresh
    \/ LoadState

SnapshotsSpec == SnapshotsInit /\ [][SnapshotsNext]_snapshotVars

-----------------------------------------------------------------------------
(* Properties *)

\* Counters and versions stay within their range; the state is shaped like the file.
SnapshotsTypeOK ==
    /\ state \in RackState /\ state.snapshots \subseteq issued
    /\ file # None => file \in RackState /\ file.snapshots \subseteq issued
    /\ issued \subseteq RackSnapshot
    /\ running \in BOOLEAN /\ run \in 1..MaxRuns /\ changes \in 0..MaxChanges
    /\ saved \subseteq issued /\ silent \subseteq 1..MaxChanges

\* A snapshot that validates as Current shows the records as they are.  What may
\* differ was changed by a step that moved no generation at all, an exhausted
\* counter or a rejected revalidation; or the snapshot is of an earlier process
\* that never saved it, and whose epoch this one was given again.
CurrentShowsTheRack ==
    running => \A s \in issued :
        validate_snapshot(s) = "Current" =>
            \/ s.runOf # run /\ s \notin saved
            \/ \A p \in Parts : s.content[p] = state.content[p] \/ state.content[p] \in silent

\* A snapshot that reached a file is never Current to a later process, whatever was
\* saved or lost in between: what is recovered is told from what is live.
RecoveredSnapshotsAreStale ==
    running => \A s \in saved : s.runOf # run => validate_snapshot(s) # "Current"

\* The retained snapshots are the newest ones, consecutively numbered up to the
\* counter, over any number of publications, crashes and reloads.
RetainedAreTheNewest ==
    {s.generation : s \in state.snapshots} =
        (state.snapshot_generation - Min({state.snapshot_generation, MaxRetained}) + 1)
            ..state.snapshot_generation

\* An identity names one snapshot of a process, and never one that is retained
\* together with another; only a process that lost its state gives it again.
IdentityNamesOneSnapshot ==
    /\ \A s, t \in issued : s.generation = t.generation /\ s.runOf = t.runOf => s = t
    /\ \A s, t \in state.snapshots : s.generation = t.generation => s = t

\* What check_invariants asks of retained snapshots before a file is accepted: none
\* binds a rack or membership generation ahead of the rack's own.
RetainedBindThePast ==
    \A s \in state.snapshots :
        /\ s.bound["rack"] <= state.generations["rack"]
        /\ s.bound["membership"] <= state.generations["membership"]

\* The retained snapshots are the newest, have identities of their own and bind no
\* generation that the rack has not reached.
SnapshotsInv ==
    /\ SnapshotsTypeOK
    /\ RetainedAreTheNewest
    /\ IdentityNamesOneSnapshot
    /\ RetainedBindThePast
=============================================================================
