------------------------------- MODULE Recovery -------------------------------
(***************************************************************************)
(* The coordinator process across crashes and restarts: its state in       *)
(* memory, the state file, the session threads that write the file after   *)
(* a mutation, and the start-up and shutdown of the main thread.           *)
(*                                                                         *)
(* save_state copies the state under the lock and writes the file after    *)
(* releasing it; load_state reads the file and takes the lock only to      *)
(* install the result.  Both are therefore several steps, interleaved with *)
(* each other and with the sessions, which are served from the moment      *)
(* CoordinatorServer::start returns, before the file has been read.        *)
(*                                                                         *)
(* Of the rack state only what recovery treats differently is kept: the    *)
(* coordinator epoch, the publisher records, the fenced boots, and for     *)
(* each record its owner and its revalidation flag.  All records are       *)
(* published by agents.  The file format is abstract: a file               *)
(* is absent, corrupt, or holds a state.                                   *)
(***************************************************************************)
EXTENDS Integers, FiniteSets

CONSTANTS
    Boots,                  \* boot identities of agent processes
    Records,                \* keys of the records they publish
    Threads,                \* session threads
    None,
    Corrupt,                \* the content of a damaged state file
    PersistModes,           \* values of persist_after_mutation an operator may choose
    DiskFaults,             \* whether writes may fail and files may be damaged
    MaxEpoch,               \* largest coordinator epoch
    MaxStarts               \* bound on the number of process starts

ASSUME SwitchAssumption == PersistModes \subseteq BOOLEAN /\ DiskFaults \in BOOLEAN
ASSUME BoundAssumption == MaxEpoch \in Nat \ {0} /\ MaxStarts \in Nat
ASSUME DistinctAssumption ==
    None \notin Boots \cup Records /\ Corrupt # None

VARIABLES
    phase,      \* where the main thread of the coordinator is
    persist,    \* CoordinatorOptions::persist_after_mutation of this process
    live,       \* the RackState in memory
    disk,       \* the state file: None, Corrupt or a state
    candidate,  \* what load_state has read and not yet installed
    session,    \* session[t]: the mutation thread t is finishing
    (* History *)
    starts,     \* processes started so far
    earned,     \* records published since the last load
    admitted    \* boots registered since the last load

codeVars == <<phase, persist, live, disk, candidate, session>>
historyVars == <<starts, earned, admitted>>
recoveryVars == <<codeVars, historyVars>>

Phases == {"down", "started", "loading", "serving", "finalSave", "stopping"}

Record == [known : BOOLEAN, owner : Boots \cup {None}, reval : BOOLEAN]

State ==
    [epoch : 1..MaxEpoch,
     publishers : [Boots -> {"Absent", "Active", "Lost", "Fenced"}],
     fenced : SUBSET Boots,
     records : [Records -> Record]]

\* The absent and the damaged file are told apart from a file that holds a state.
ASSUME FileAssumption == None \notin State /\ Corrupt \notin State

NoRecord == [known |-> FALSE, owner |-> None, reval |-> FALSE]

\* A fabric that has just been constructed, with the rack declared by start.
Fresh ==
    [epoch |-> 1,
     publishers |-> [b \in Boots |-> "Absent"],
     fenced |-> {},
     records |-> [k \in Records |-> NoRecord]]

Idle == [stage |-> "idle", copy |-> None]

RecoveryInit ==
    /\ phase = "down"
    /\ persist = FALSE
    /\ live = None
    /\ disk = None
    /\ candidate = None
    /\ session = [t \in Threads |-> Idle]
    /\ starts = 0
    /\ earned = {} /\ admitted = {}

Up == phase # "down"

\* Sessions are read until stop() raises its flag.
Serving == phase \in {"started", "loading", "serving", "finalSave"}

-----------------------------------------------------------------------------
(* Start-up *)

\* CoordinatorServer::start, as main calls it: on a fabric that has recovered
\* nothing yet, so the rack is declared and compared with nothing.
Start(mode) ==
    /\ phase = "down" /\ starts < MaxStarts
    /\ phase' = "started"
    /\ persist' = mode
    /\ live' = Fresh
    /\ starts' = starts + 1
    /\ earned' = {} /\ admitted' = {}
    /\ UNCHANGED <<disk, candidate, session>>

\* main: there is no state file, nothing to recover.
SkipLoad ==
    /\ phase = "started" /\ disk = None
    /\ phase' = "serving"
    /\ UNCHANGED <<persist, live, disk, candidate, session, historyVars>>

\* load_state: read, decode and validate the file, without the lock.
LoadRead ==
    /\ phase = "started" /\ disk \notin {None, Corrupt}
    /\ disk.epoch < MaxEpoch
    /\ candidate' = disk
    /\ phase' = "loading"
    /\ UNCHANGED <<persist, live, disk, session, historyVars>>

\* Mutated form of Recovered: the owner is cleared before it is looked at.
RecoveredUnflagged(s) ==
    [s EXCEPT !.epoch = @ + 1,
              !.publishers = [b \in Boots |-> IF @[b] = "Absent" THEN "Absent" ELSE "Lost"],
              !.records = [k \in Records |-> [@[k] EXCEPT !.owner = None]]]

\* Mutated form of Recovered: publishers resume where the file left them.
RecoveredWithPublishers(s) ==
    [s EXCEPT !.epoch = @ + 1,
              !.records = [k \in Records |->
                    [@[k] EXCEPT !.reval = s.records[k].reval \/ s.records[k].owner # None,
                                 !.owner = None]]]

\* apply_recovery_policy: publishers are lost, owned records are flagged, then
\* lose their owner; the epoch moves past the one in the file.
Recovered(s) ==
    [s EXCEPT !.epoch = @ + 1,
              !.publishers = [b \in Boots |-> IF @[b] = "Absent" THEN "Absent" ELSE "Lost"],
              !.records = [k \in Records |->
                    [@[k] EXCEPT !.reval = s.records[k].reval \/ s.records[k].owner # None,
                                 !.owner = None]]]

\* load_state: install the recovered state, whatever sessions did meanwhile.
LoadCommit ==
    /\ phase = "loading"
    /\ live' = Recovered(candidate)
    /\ candidate' = None
    /\ phase' = "serving"
    /\ earned' = {} /\ admitted' = {}
    /\ UNCHANGED <<persist, disk, session, starts>>

\* The process is gone: everything in memory with it.
Gone ==
    /\ phase' = "down"
    /\ live' = None /\ persist' = FALSE /\ candidate' = None
    /\ session' = [t \in Threads |-> Idle]
    /\ UNCHANGED <<disk, starts, earned, admitted>>

\* main: the file is refused (damaged, or its epoch cannot be advanced), and the
\* process exits once its sessions have finished.
LoadRefused ==
    /\ phase = "started" /\ disk # None
    /\ disk # Corrupt => disk.epoch = MaxEpoch
    /\ \A t \in Threads : session[t] = Idle
    /\ Gone

-----------------------------------------------------------------------------
(* Sessions *)

\* handle_register.  A registration is not persisted.
Register(b) ==
    /\ Serving
    /\ live.publishers[b] = "Absent" /\ b \notin live.fenced
    /\ live' = [live EXCEPT !.publishers[b] = "Active"]
    /\ admitted' = admitted \cup {b}
    /\ UNCHANGED <<phase, persist, disk, candidate, session, starts, earned>>

\* handle_mutation for a publication of record k by boot b, up to the commit in
\* memory.  Without persist_after_mutation it is acknowledged right away.
Mutate(t, b, k) ==
    /\ Serving
    /\ session[t] = Idle
    /\ live.publishers[b] = "Active"
    /\ live.records[k].owner \in {None, b}
    /\ live' = [live EXCEPT !.records[k] = [known |-> TRUE, owner |-> b, reval |-> FALSE]]
    /\ earned' = earned \cup {k}
    /\ IF persist
       THEN session' = [session EXCEPT ![t] = [stage |-> "accepted", copy |-> None]]
       ELSE UNCHANGED session
    /\ UNCHANGED <<phase, persist, disk, candidate, starts, admitted>>

\* persist_if_configured, save_state: copy the state under the shared lock.
SaveCopy(t) ==
    /\ session[t].stage = "accepted"
    /\ session' = [session EXCEPT ![t] = [stage |-> "copied", copy |-> live]]
    /\ UNCHANGED <<phase, persist, live, disk, candidate, historyVars>>

\* save_state, after the unlock: replace the file with the copy, then reply.
SaveReplace(t) ==
    /\ session[t].stage = "copied"
    /\ disk' = session[t].copy
    /\ session' = [session EXCEPT ![t] = Idle]
    /\ UNCHANGED <<phase, persist, live, candidate, starts, earned, admitted>>

\* The write fails: the old file stays, the failure is recorded as an event,
\* and the mutation is acknowledged all the same.
SaveFails(t) ==
    /\ DiskFaults
    /\ session[t].stage = "copied"
    /\ session' = [session EXCEPT ![t] = Idle]
    /\ UNCHANGED <<phase, persist, live, disk, candidate, starts, earned, admitted>>

\* accept_loop, expire_publishers: a publisher is fenced, its records flagged.
\* Nothing is persisted.
Expire(b) ==
    /\ Serving
    /\ live.publishers[b] = "Active"
    /\ live' = [live EXCEPT
            !.publishers[b] = "Fenced",
            !.fenced = @ \cup {b},
            !.records = [k \in Records |-> IF @[k].owner = b THEN [@[k] EXCEPT !.reval = TRUE]
                                                             ELSE @[k]]]
    /\ UNCHANGED <<phase, persist, disk, candidate, session, historyVars>>

-----------------------------------------------------------------------------
(* Shutdown and failure *)

\* main leaves its loop: the final save_state, while sessions still run.
FinalCopy ==
    /\ phase = "serving"
    /\ phase' = "finalSave"
    /\ candidate' = live
    /\ UNCHANGED <<persist, live, disk, session, historyVars>>

\* The final save ends, with the file replaced or not, and stop() is called.
FinalReplace ==
    /\ phase = "finalSave"
    /\ phase' = "stopping"
    /\ disk' = candidate \/ (DiskFaults /\ UNCHANGED disk)
    /\ candidate' = None
    /\ UNCHANGED <<persist, live, session, historyVars>>

\* stop() has joined the session threads.
Shutdown ==
    /\ phase = "stopping"
    /\ \A t \in Threads : session[t] = Idle
    /\ Gone

\* The process dies.  A write in progress was to a temporary file.
Crash == Up /\ Gone

\* The file is damaged while no process runs.
Damage ==
    /\ DiskFaults /\ ~Up
    /\ disk \notin {None, Corrupt}
    /\ disk' = Corrupt
    /\ UNCHANGED <<phase, persist, live, candidate, session, historyVars>>

RecoveryNext ==
    \/ \E mode \in PersistModes : Start(mode)
    \/ SkipLoad \/ LoadRead \/ LoadCommit \/ LoadRefused
    \/ \E b \in Boots : Register(b) \/ Expire(b)
    \/ \E t \in Threads :
         \/ \E b \in Boots, k \in Records : Mutate(t, b, k)
         \/ SaveCopy(t) \/ SaveReplace(t) \/ SaveFails(t)
    \/ FinalCopy \/ FinalReplace \/ Shutdown
    \/ Crash
    \/ Damage

RecoverySpec == RecoveryInit /\ [][RecoveryNext]_recoveryVars

-----------------------------------------------------------------------------
(* Properties *)

\* Every variable has its shape; what is in memory is there exactly while the
\* process runs.
RecoveryTypeOK ==
    /\ phase \in Phases
    /\ persist \in BOOLEAN
    /\ IF Up THEN live \in State ELSE live = None
    /\ disk \in {None, Corrupt} \/ disk \in State
    /\ candidate = None \/ candidate \in State
    /\ \A t \in Threads :
          /\ session[t].stage \in {"idle", "accepted", "copied"}
          /\ session[t].stage = "copied" <=> session[t].copy # None

\* Ownership does not outlive the process incarnation it is about: an owner in
\* memory is a publisher this coordinator process admitted, so that a new agent
\* is never locked out by an agent that died before the restart.
OwnersBelongToThisProcess ==
    Up => \A k \in Records :
             live.records[k].owner # None =>
                live.publishers[live.records[k].owner] \in {"Active", "Fenced"}

\* Recovered evidence is not current evidence: whatever was saved, and whatever
\* sessions did while the file was being read, a record needs no revalidation
\* only if an agent published it since the load.
CurrentEvidenceIsEarned ==
    Up => \A k \in Records :
             live.records[k].known /\ ~live.records[k].reval => k \in earned

\* No authority crosses a load: sessions are served before the file is read, yet
\* a publisher has standing only if it registered since the load, and what was
\* saved as active is not.
StandingIsEarned ==
    Up => \A b \in Boots :
             live.publishers[b] = "Active" => b \in admitted /\ b \notin live.fenced

\* Whatever copy reached the file and whenever a process crashed: records are owned by
\* processes this coordinator has registered, and nobody has standing without that.
RecoveryInv ==
    /\ RecoveryTypeOK
    /\ OwnersBelongToThisProcess
    /\ StandingIsEarned
=============================================================================
