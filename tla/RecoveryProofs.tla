--------------------------- MODULE RecoveryProofs ---------------------------
(***************************************************************************)
(* Theorems about Recovery, for every set of agents, records and session   *)
(* threads, every number of restarts and every choice of faults.           *)
(*                                                                         *)
(* The properties are about the state in memory, but a load puts there     *)
(* whatever some session, of this process or of an earlier one, copied and *)
(* wrote.  The inductive invariant therefore holds every copy (in memory,  *)
(* in the file, read and not yet installed, taken by a session) to the     *)
(* fact that the recovery policy relies on: a record that needs no         *)
(* revalidation has an owner, by whom the policy recognises it.            *)
(***************************************************************************)
EXTENDS Recovery, TLAPS

\* A state that recovery may start from.
Sane(s) ==
    /\ s \in State
    /\ \A k \in Records :
          s.records[k].known /\ ~s.records[k].reval => s.records[k].owner # None

\* Every copy of the state, wherever it is, is sane.
CopiesAreSane ==
    /\ Up => Sane(live)
    /\ ~Up => live = None
    /\ disk \in {None, Corrupt} \/ Sane(disk)
    /\ candidate = None \/ Sane(candidate)
    /\ phase \in {"loading", "finalSave"} => Sane(candidate)
    /\ phase = "loading" => candidate.epoch < MaxEpoch

\* The sessions' shape; there are none while no process runs.
SessionsAreSane ==
    /\ session \in [Threads -> [stage : {"idle", "accepted", "copied"}, copy : State \cup {None}]]
    /\ \A t \in Threads : /\ session[t].stage = "copied" => Sane(session[t].copy)
                          /\ session[t].stage # "copied" => session[t].copy = None
                          /\ ~Up => session[t] = Idle

\* The inductive invariant.
RecoveryIndInv ==
    /\ phase \in Phases
    /\ persist \in BOOLEAN
    /\ CopiesAreSane
    /\ SessionsAreSane
    /\ OwnersBelongToThisProcess
    /\ StandingIsEarned
    /\ CurrentEvidenceIsEarned

\* A freshly constructed fabric: no records, no publishers.
LEMMA FreshState ==
    /\ Sane(Fresh)
    /\ \A k \in Records : Fresh.records[k] = NoRecord
    /\ \A b \in Boots : Fresh.publishers[b] = "Absent"
<1>1. Fresh \in State
  BY BoundAssumption DEF Fresh, NoRecord, State, Record
<1> QED
  BY <1>1 DEF Fresh, NoRecord, Sane

\* apply_recovery_policy, field by field.
LEMMA RecoveredState ==
    ASSUME NEW s, Sane(s), s.epoch < MaxEpoch
    PROVE  /\ Recovered(s) \in State
           /\ \A b \in Boots : Recovered(s).publishers[b] # "Active"
           /\ \A k \in Records : /\ Recovered(s).records[k].owner = None
                                 /\ Recovered(s).records[k].known => Recovered(s).records[k].reval
<1>0. /\ s \in State
      /\ s.epoch \in 1..MaxEpoch
      /\ s.publishers \in [Boots -> {"Absent", "Active", "Lost", "Fenced"}]
      /\ s.fenced \in SUBSET Boots
      /\ s.records \in [Records -> Record]
  BY DEF Sane, State
<1> DEFINE pubs == [b \in Boots |-> IF s.publishers[b] = "Absent" THEN "Absent" ELSE "Lost"]
           recs == [k \in Records |-> [s.records[k] EXCEPT
                        !.reval = s.records[k].reval \/ s.records[k].owner # None,
                        !.owner = None]]
<1>1. Recovered(s) = [s EXCEPT !.epoch = s.epoch + 1, !.publishers = pubs, !.records = recs]
  BY <1>0 DEF Recovered, State
<1>2. pubs \in [Boots -> {"Absent", "Active", "Lost", "Fenced"}]
  OBVIOUS
<1>3. \A b \in Boots : pubs[b] # "Active"
  OBVIOUS
<1>4. \A k \in Records : /\ recs[k] \in Record
                         /\ recs[k].owner = None
                         /\ recs[k].known = s.records[k].known
                         /\ recs[k].reval = (s.records[k].reval \/ s.records[k].owner # None)
  BY <1>0 DEF Record
<1>5. recs \in [Records -> Record]
  BY <1>4
<1>6. s.epoch + 1 \in 1..MaxEpoch
  BY <1>0, BoundAssumption
<1> HIDE DEF pubs, recs
<1>7. /\ Recovered(s) \in State
      /\ Recovered(s).publishers = pubs
      /\ Recovered(s).records = recs
  BY <1>0, <1>1, <1>2, <1>5, <1>6 DEF State
<1> QED
  BY <1>0, <1>3, <1>4, <1>7 DEF Sane

\* An idle session is in shape.
LEMMA IdleSession ==
    /\ Idle \in [stage : {"idle", "accepted", "copied"}, copy : State \cup {None}]
    /\ Idle.stage = "idle" /\ Idle.copy = None
  BY DEF Idle

\* The coordinator before its first start.
THEOREM RecoveryInitInv == RecoveryInit => RecoveryIndInv
<1> SUFFICES ASSUME RecoveryInit
             PROVE  RecoveryIndInv
  OBVIOUS
<1>1. phase \in Phases /\ ~Up
  BY DEF RecoveryInit, Phases, Up
<1>2. persist \in BOOLEAN
  BY DEF RecoveryInit
<1>3. CopiesAreSane
  BY <1>1 DEF RecoveryInit, CopiesAreSane
<1>4. SessionsAreSane
  BY <1>1, IdleSession DEF RecoveryInit, SessionsAreSane
<1> QED
  BY <1>1, <1>2, <1>3, <1>4
  DEF RecoveryIndInv, OwnersBelongToThisProcess, StandingIsEarned, CurrentEvidenceIsEarned

\* A step that leaves the state in memory alone keeps what is said about it.
LEMMA MemoryKept ==
    ASSUME RecoveryIndInv, UNCHANGED <<live, earned, admitted>>, Up' => Up
    PROVE  OwnersBelongToThisProcess' /\ StandingIsEarned' /\ CurrentEvidenceIsEarned'
  BY DEF RecoveryIndInv, OwnersBelongToThisProcess, StandingIsEarned, CurrentEvidenceIsEarned

\* Sessions that did not move stay sane, unless there were none to keep.
LEMMA SessionsKept ==
    ASSUME RecoveryIndInv, UNCHANGED session, Up' \/ ~Up
    PROVE  SessionsAreSane'
  BY DEF RecoveryIndInv, SessionsAreSane, Sane

\* Start, the load, the final save and the end of the process.
LEMMA MainThreadInv ==
    ASSUME RecoveryIndInv,
           \/ \E mode \in PersistModes : Start(mode)
           \/ SkipLoad \/ LoadRead \/ LoadCommit \/ LoadRefused
           \/ FinalCopy \/ FinalReplace \/ Shutdown \/ Crash \/ Damage
    PROVE  RecoveryIndInv'
<1>0. phase \in Phases /\ persist \in BOOLEAN /\ CopiesAreSane /\ SessionsAreSane
  BY DEF RecoveryIndInv
<1>1. ASSUME NEW mode \in PersistModes, Start(mode)
      PROVE  RecoveryIndInv'
  <2>1. /\ ~Up /\ Up' /\ phase' = "started" /\ persist' = mode /\ live' = Fresh
        /\ UNCHANGED <<disk, candidate, session>>
    BY <1>1 DEF Start, Up
  <2>2. phase' \in Phases /\ persist' \in BOOLEAN
    BY <2>1, SwitchAssumption DEF Phases
  <2>3. CopiesAreSane'
    BY <1>0, <2>1, FreshState DEF CopiesAreSane, Sane
  <2>4. SessionsAreSane'
    BY <2>1, SessionsKept
  <2>5. OwnersBelongToThisProcess' /\ StandingIsEarned' /\ CurrentEvidenceIsEarned'
    BY <2>1, FreshState
    DEF OwnersBelongToThisProcess, StandingIsEarned, CurrentEvidenceIsEarned, NoRecord
  <2> QED BY <2>2, <2>3, <2>4, <2>5 DEF RecoveryIndInv
<1>2. ASSUME SkipLoad
      PROVE  RecoveryIndInv'
  <2>1. /\ Up /\ Up' /\ phase' = "serving"
        /\ UNCHANGED <<persist, live, disk, candidate, session, earned, admitted>>
    BY <1>2 DEF SkipLoad, Up, historyVars
  <2>2. CopiesAreSane'
    BY <1>0, <2>1 DEF CopiesAreSane, Sane
  <2> QED BY <1>0, <2>1, <2>2, MemoryKept, SessionsKept DEF RecoveryIndInv, Phases
<1>3. ASSUME LoadRead
      PROVE  RecoveryIndInv'
  <2>1. /\ Up /\ Up' /\ phase' = "loading"
        /\ disk \notin {None, Corrupt} /\ disk.epoch < MaxEpoch /\ candidate' = disk
        /\ UNCHANGED <<persist, live, disk, session, earned, admitted>>
    BY <1>3 DEF LoadRead, Up, historyVars
  <2>2. CopiesAreSane'
    BY <1>0, <2>1 DEF CopiesAreSane, Sane
  <2> QED BY <1>0, <2>1, <2>2, MemoryKept, SessionsKept DEF RecoveryIndInv, Phases
<1>4. ASSUME LoadCommit
      PROVE  RecoveryIndInv'
  <2>1. /\ Up /\ Up' /\ phase = "loading" /\ phase' = "serving"
        /\ live' = Recovered(candidate) /\ candidate' = None
        /\ UNCHANGED <<persist, disk, session>>
    BY <1>4 DEF LoadCommit, Up
  <2>2. Sane(candidate) /\ candidate.epoch < MaxEpoch
    BY <1>0, <2>1 DEF CopiesAreSane
  <2>3. /\ live' \in State
        /\ \A b \in Boots : live'.publishers[b] # "Active"
        /\ \A k \in Records : /\ live'.records[k].owner = None
                              /\ live'.records[k].known => live'.records[k].reval
    BY <2>1, <2>2, RecoveredState
  <2>4. CopiesAreSane'
    BY <1>0, <2>1, <2>3 DEF CopiesAreSane, Sane
  <2>5. OwnersBelongToThisProcess' /\ StandingIsEarned' /\ CurrentEvidenceIsEarned'
    <3>1. OwnersBelongToThisProcess' /\ StandingIsEarned'
      BY <2>3 DEF OwnersBelongToThisProcess, StandingIsEarned
    <3>2. \A k \in Records : ~(live'.records[k].known /\ ~live'.records[k].reval)
      BY <2>3, Zenon
    <3>3. CurrentEvidenceIsEarned'
      BY <3>2, Zenon DEF CurrentEvidenceIsEarned
    <3> QED BY <3>1, <3>3
  <2> QED BY <1>0, <2>1, <2>4, <2>5, SessionsKept DEF RecoveryIndInv, Phases
<1>5. ASSUME Gone
      PROVE  RecoveryIndInv'
  <2>1. /\ ~Up' /\ phase' = "down" /\ live' = None /\ persist' = FALSE /\ candidate' = None
        /\ disk' = disk /\ session' = [t \in Threads |-> Idle]
    BY <1>5 DEF Gone, Up
  <2>2. persist' \in BOOLEAN
    BY <2>1
  <2>3. CopiesAreSane'
    BY <1>0, <2>1 DEF CopiesAreSane, Sane
  <2>4. SessionsAreSane'
    BY <2>1, IdleSession DEF SessionsAreSane
  <2>5. OwnersBelongToThisProcess' /\ StandingIsEarned' /\ CurrentEvidenceIsEarned'
    BY <2>1 DEF OwnersBelongToThisProcess, StandingIsEarned, CurrentEvidenceIsEarned
  <2> QED BY <2>1, <2>2, <2>3, <2>4, <2>5 DEF RecoveryIndInv, Phases
<1>6. ASSUME FinalCopy
      PROVE  RecoveryIndInv'
  <2>1. /\ Up /\ Up' /\ phase' = "finalSave" /\ candidate' = live
        /\ UNCHANGED <<persist, live, disk, session, earned, admitted>>
    BY <1>6 DEF FinalCopy, Up, historyVars
  <2>2. CopiesAreSane'
    BY <1>0, <2>1 DEF CopiesAreSane, Sane
  <2> QED BY <1>0, <2>1, <2>2, MemoryKept, SessionsKept DEF RecoveryIndInv, Phases
<1>7. ASSUME FinalReplace
      PROVE  RecoveryIndInv'
  <2>1. /\ Up /\ Up' /\ phase = "finalSave" /\ phase' = "stopping" /\ candidate' = None
        /\ disk' = candidate \/ disk' = disk
        /\ UNCHANGED <<persist, live, session, earned, admitted>>
    BY <1>7 DEF FinalReplace, Up, historyVars
  <2>2. CopiesAreSane'
    BY <1>0, <2>1 DEF CopiesAreSane, Sane
  <2> QED BY <1>0, <2>1, <2>2, MemoryKept, SessionsKept DEF RecoveryIndInv, Phases
<1>8. ASSUME Damage
      PROVE  RecoveryIndInv'
  <2>1. /\ ~Up /\ ~Up' /\ disk' = Corrupt
        /\ UNCHANGED <<phase, persist, live, candidate, session, earned, admitted>>
    BY <1>8 DEF Damage, Up, historyVars
  <2>2. CopiesAreSane'
    BY <1>0, <2>1 DEF CopiesAreSane, Sane
  <2> QED BY <1>0, <2>1, <2>2, MemoryKept, SessionsKept DEF RecoveryIndInv
<1> QED
  BY <1>1, <1>2, <1>3, <1>4, <1>5, <1>6, <1>7, <1>8 DEF LoadRefused, Shutdown, Crash

\* A registration, a publication and an expiry, as far as memory goes: live' is
\* sane and says what the invariant says.
LEMMA SessionChangesInv ==
    ASSUME RecoveryIndInv, Serving, UNCHANGED <<phase, persist, disk, candidate>>,
           Sane(live'), SessionsAreSane',
           OwnersBelongToThisProcess', StandingIsEarned', CurrentEvidenceIsEarned'
    PROVE  RecoveryIndInv'
  BY DEF RecoveryIndInv, CopiesAreSane, Sane, Up, Serving

\* handle_register.
LEMMA RegisterInv ==
    ASSUME RecoveryIndInv, NEW b \in Boots, Register(b)
    PROVE  RecoveryIndInv'
<1>1. /\ Serving /\ Up /\ Up'
      /\ live.publishers[b] = "Absent" /\ b \notin live.fenced
      /\ live' = [live EXCEPT !.publishers[b] = "Active"]
      /\ admitted' = admitted \cup {b}
      /\ UNCHANGED <<phase, persist, disk, candidate, session, earned>>
  BY DEF Register, Serving, Up
<1>2. Sane(live)
  BY <1>1 DEF RecoveryIndInv, CopiesAreSane
<1>3. /\ live' \in State
      /\ live'.records = live.records /\ live'.fenced = live.fenced
      /\ live'.publishers = [live.publishers EXCEPT ![b] = "Active"]
      /\ live.publishers \in [Boots -> {"Absent", "Active", "Lost", "Fenced"}]
      /\ live.records \in [Records -> Record]
  BY <1>1, <1>2 DEF Sane, State
<1>4. Sane(live')
  BY <1>2, <1>3 DEF Sane
<1>5. OwnersBelongToThisProcess'
  BY <1>1, <1>3 DEF RecoveryIndInv, OwnersBelongToThisProcess, Record
<1>6. StandingIsEarned'
  BY <1>1, <1>3 DEF RecoveryIndInv, StandingIsEarned
<1>7. CurrentEvidenceIsEarned'
  BY <1>1, <1>3 DEF RecoveryIndInv, CurrentEvidenceIsEarned
<1> QED
  BY <1>1, <1>4, <1>5, <1>6, <1>7, SessionsKept, SessionChangesInv

\* handle_mutation: the record is the caller's and current.
LEMMA MutateInv ==
    ASSUME RecoveryIndInv, NEW t \in Threads, NEW b \in Boots, NEW k \in Records, Mutate(t, b, k)
    PROVE  RecoveryIndInv'
<1> DEFINE rec == [known |-> TRUE, owner |-> b, reval |-> FALSE]
<1>1. /\ Serving /\ Up /\ Up'
      /\ session[t] = Idle
      /\ live.publishers[b] = "Active"
      /\ live' = [live EXCEPT !.records[k] = rec]
      /\ earned' = earned \cup {k}
      /\ UNCHANGED <<phase, persist, disk, candidate, admitted>>
      /\ session' = session \/ session' = [session EXCEPT ![t] = [stage |-> "accepted", copy |-> None]]
  BY DEF Mutate, Serving, Up
<1>2. Sane(live)
  BY <1>1 DEF RecoveryIndInv, CopiesAreSane
<1>3. rec \in Record /\ rec.owner = b /\ b # None
  BY DistinctAssumption DEF Record
<1> HIDE DEF rec
<1>4. /\ live' \in State
      /\ live'.publishers = live.publishers /\ live'.fenced = live.fenced
      /\ live'.records = [live.records EXCEPT ![k] = rec]
      /\ live.publishers \in [Boots -> {"Absent", "Active", "Lost", "Fenced"}]
      /\ live.records \in [Records -> Record]
  BY <1>1, <1>2, <1>3 DEF Sane, State
<1>5. Sane(live')
  BY <1>2, <1>3, <1>4 DEF Sane
<1>6. OwnersBelongToThisProcess'
  BY <1>1, <1>3, <1>4 DEF RecoveryIndInv, OwnersBelongToThisProcess
<1>7. StandingIsEarned'
  BY <1>1, <1>4 DEF RecoveryIndInv, StandingIsEarned
<1>8. CurrentEvidenceIsEarned'
  BY <1>1, <1>4 DEF RecoveryIndInv, CurrentEvidenceIsEarned
<1>9. SessionsAreSane'
  <2>1. CASE session' = session
    BY <1>1, <2>1, SessionsKept
  <2>2. CASE session' = [session EXCEPT ![t] = [stage |-> "accepted", copy |-> None]]
    BY <1>1, <2>2 DEF RecoveryIndInv, SessionsAreSane, Sane
  <2> QED BY <1>1, <2>1, <2>2
<1> QED
  BY <1>1, <1>5, <1>6, <1>7, <1>8, <1>9, SessionChangesInv

\* expire_publishers: the publisher is fenced, its records flagged.
LEMMA ExpireInv ==
    ASSUME RecoveryIndInv, NEW b \in Boots, Expire(b)
    PROVE  RecoveryIndInv'
<1> DEFINE recs == [k \in Records |-> IF live.records[k].owner = b
                                      THEN [live.records[k] EXCEPT !.reval = TRUE]
                                      ELSE live.records[k]]
<1>1. /\ Serving /\ Up /\ Up'
      /\ live.publishers[b] = "Active"
      /\ UNCHANGED <<phase, persist, disk, candidate, session, earned, admitted>>
  BY DEF Expire, Serving, Up, historyVars
<1>2. Sane(live)
  BY <1>1 DEF RecoveryIndInv, CopiesAreSane
<1>3. /\ live.publishers \in [Boots -> {"Absent", "Active", "Lost", "Fenced"}]
      /\ live.records \in [Records -> Record]
      /\ live \in State
  BY <1>2 DEF Sane, State
<1>4. \A k \in Records : /\ recs[k] \in Record
                         /\ recs[k].owner = live.records[k].owner
                         /\ recs[k].known = live.records[k].known
                         /\ ~recs[k].reval => ~live.records[k].reval
  BY <1>3 DEF Record
<1>5. recs \in [Records -> Record]
  BY <1>4
<1>6. live' = [live EXCEPT !.publishers = [live.publishers EXCEPT ![b] = "Fenced"],
                           !.fenced = live.fenced \cup {b}, !.records = recs]
  BY <1>3 DEF Expire, State
<1> HIDE DEF recs
<1>7. /\ live' \in State
      /\ live'.publishers = [live.publishers EXCEPT ![b] = "Fenced"]
      /\ live'.fenced = live.fenced \cup {b}
      /\ live'.records = recs
  BY <1>3, <1>5, <1>6 DEF State
<1>8. Sane(live')
  BY <1>2, <1>4, <1>7 DEF Sane
<1>9. OwnersBelongToThisProcess'
  BY <1>1, <1>3, <1>4, <1>7 DEF RecoveryIndInv, OwnersBelongToThisProcess, Record
<1>10. StandingIsEarned'
  BY <1>1, <1>3, <1>7 DEF RecoveryIndInv, StandingIsEarned
<1>11. CurrentEvidenceIsEarned'
  BY <1>1, <1>4, <1>7 DEF RecoveryIndInv, CurrentEvidenceIsEarned
<1> QED
  BY <1>1, <1>8, <1>9, <1>10, <1>11, SessionsKept, SessionChangesInv

\* save_state of a session: the copy, the replacement of the file, its failure.
LEMMA SaveInv ==
    ASSUME RecoveryIndInv, NEW t \in Threads, SaveCopy(t) \/ SaveReplace(t) \/ SaveFails(t)
    PROVE  RecoveryIndInv'
<1>0. phase \in Phases /\ persist \in BOOLEAN /\ CopiesAreSane /\ SessionsAreSane
  BY DEF RecoveryIndInv
<1>1. /\ Up /\ Up'
      /\ UNCHANGED <<phase, persist, live, candidate, earned, admitted>>
  <2>1. session[t].stage # "idle" /\ UNCHANGED <<phase, persist, live, candidate, earned, admitted>>
    BY DEF SaveCopy, SaveReplace, SaveFails, historyVars
  <2> QED BY <1>0, <2>1, IdleSession DEF SessionsAreSane, Up
<1>2. Sane(live)
  BY <1>0, <1>1 DEF CopiesAreSane
<1>3. CASE SaveCopy(t)
  <2>1. session' = [session EXCEPT ![t] = [stage |-> "copied", copy |-> live]] /\ disk' = disk
    BY <1>3 DEF SaveCopy
  <2>2. SessionsAreSane'
    BY <1>0, <1>1, <1>2, <2>1 DEF SessionsAreSane, Sane
  <2>3. CopiesAreSane'
    BY <1>0, <1>1, <2>1 DEF CopiesAreSane, Sane
  <2> QED BY <1>0, <1>1, <2>2, <2>3, MemoryKept DEF RecoveryIndInv
<1>4. CASE SaveReplace(t) \/ SaveFails(t)
  <2>1. /\ session' = [session EXCEPT ![t] = Idle] /\ session[t].stage = "copied"
        /\ disk' = disk \/ disk' = session[t].copy
    BY <1>4 DEF SaveReplace, SaveFails
  <2>2. SessionsAreSane'
    BY <1>0, <1>1, <2>1, IdleSession DEF SessionsAreSane, Sane
  <2>3. CopiesAreSane'
    BY <1>0, <1>1, <2>1 DEF CopiesAreSane, SessionsAreSane, Sane
  <2> QED BY <1>0, <1>1, <2>2, <2>3, MemoryKept DEF RecoveryIndInv
<1> QED
  BY <1>3, <1>4

\* Every step keeps the invariant.
THEOREM RecoveryStepInv == RecoveryIndInv /\ [RecoveryNext]_recoveryVars => RecoveryIndInv'
<1> SUFFICES ASSUME RecoveryIndInv, [RecoveryNext]_recoveryVars
             PROVE  RecoveryIndInv'
  OBVIOUS
<1>1. ASSUME UNCHANGED recoveryVars
      PROVE  RecoveryIndInv'
  BY <1>1
  DEF recoveryVars, codeVars, historyVars, RecoveryIndInv, CopiesAreSane, SessionsAreSane, Sane, Up,
      OwnersBelongToThisProcess, StandingIsEarned, CurrentEvidenceIsEarned
<1> QED
  BY <1>1, MainThreadInv, RegisterInv, MutateInv, ExpireInv, SaveInv DEF RecoveryNext

\* Whatever copy reached the file and whenever a process crashed: every variable
\* has its shape, records are owned by processes this coordinator registered,
\* and nobody has standing without that.
THEOREM RecoveryCorrect == RecoverySpec => []RecoveryInv
<1>1. RecoveryIndInv => RecoveryTypeOK
  <2> SUFFICES ASSUME RecoveryIndInv
               PROVE  RecoveryTypeOK
    OBVIOUS
  <2>1. \A t \in Threads : /\ session[t].stage \in {"idle", "accepted", "copied"}
                           /\ session[t].stage = "copied" <=> session[t].copy # None
    BY FileAssumption DEF RecoveryIndInv, SessionsAreSane, Sane
  <2>2. phase \in Phases /\ persist \in BOOLEAN
    BY DEF RecoveryIndInv
  <2>3. /\ IF Up THEN live \in State ELSE live = None
        /\ disk \in {None, Corrupt} \/ disk \in State
        /\ candidate = None \/ candidate \in State
    BY DEF RecoveryIndInv, CopiesAreSane, Sane
  <2> QED BY <2>1, <2>2, <2>3 DEF RecoveryTypeOK
<1>2. RecoveryIndInv => RecoveryInv
  BY <1>1 DEF RecoveryIndInv, RecoveryInv
<1> QED
  BY <1>2, RecoveryInitInv, RecoveryStepInv, PTL DEF RecoverySpec

\* Recovered evidence is never current evidence.
THEOREM EvidenceEarned == RecoverySpec => []CurrentEvidenceIsEarned
<1>1. RecoveryIndInv => CurrentEvidenceIsEarned
  BY DEF RecoveryIndInv
<1> QED
  BY <1>1, RecoveryInitInv, RecoveryStepInv, PTL DEF RecoverySpec
=============================================================================
