---------------------------- MODULE MembersProofs ----------------------------
(***************************************************************************)
(* Theorems about Authority and about Members, which extends it, for every *)
(* set of processes and member keys, every limit and every lease.          *)
(*                                                                         *)
(* Authority.  The inductive invariant is the type invariant together with *)
(* RevocationConsistent: neither the permanence of fencing nor the         *)
(* contract of BootAuthority is inductive without knowing that every       *)
(* revoked publisher record has its boot in fenced_boots.                  *)
(*                                                                         *)
(* Members.  Every handler on one existing record is first shown to be an  *)
(* Edit: the authority half of a publishing handler and one record         *)
(* replaced by a record one generation further on.  The invariant and the  *)
(* three action properties are then proved once for Edit instead of once   *)
(* per handler.  MembersInv is inductive together with the finiteness of   *)
(* the set of records, which the limit check (a cardinality) needs, and    *)
(* with the inductive invariant of Authority.                              *)
(***************************************************************************)
EXTENDS Members, FiniteSetTheorems, TLAPS

-----------------------------------------------------------------------------
(* Authority *)

\* The inductive invariant of the authority state.
AuthorityInv == AuthorityTypeOK /\ RevocationConsistent

\* A counter advanced by Generation::next stays in range, and moves up.
LEMMA NextGenRange ==
    ASSUME NEW g \in Generation
    PROVE  NextGen(g) \in Generation /\ NextGen(g) >= g
  BY GenAssumption DEF NextGen, Generation

\* Advancing the caller's publication counter keeps every record well formed
\* and touches no other record.
LEMMA AdvancedRecords ==
    ASSUME NEW pubs \in [Boots -> PublisherRecord], NEW b \in Boots
    PROVE  /\ Advanced(pubs, b) \in [Boots -> PublisherRecord]
           /\ Advanced(pubs, b)[b].state = "Active"
           /\ Advanced(pubs, b)[b].gen = NextGen(pubs[b].gen)
           /\ Advanced(pubs, b)[b].age = pubs[b].age
           /\ Advanced(pubs, b)[b].worker = pubs[b].worker
           /\ \A x \in Boots \ {b} : Advanced(pubs, b)[x] = pubs[x]
<1>1. pubs[b] \in PublisherRecord
  OBVIOUS
<1>2. NextGen(pubs[b].gen) \in Generation
  BY <1>1, NextGenRange DEF PublisherRecord
<1>3. [pubs[b] EXCEPT !.gen = NextGen(pubs[b].gen), !.state = "Active"] \in PublisherRecord
  BY <1>1, <1>2 DEF PublisherRecord, PublisherState
<1>4. Advanced(pubs, b) =
        [pubs EXCEPT ![b] = [pubs[b] EXCEPT !.gen = NextGen(pubs[b].gen), !.state = "Active"]]
  BY <1>1 DEF Advanced, PublisherRecord
<1> QED
  BY <1>1, <1>3, <1>4 DEF PublisherRecord

\* The records after retire_rack has marked every publisher lost.
LEMMA LostRecords ==
    ASSUME AuthorityTypeOK
    PROVE  [b \in Boots |-> IF b \in RegisteredBoots
                            THEN [publishers[b] EXCEPT !.state = "Lost"]
                            ELSE publishers[b]] \in [Boots -> PublisherRecord]
  BY DEF AuthorityTypeOK, PublisherRecord, PublisherState

\* A coordinator that has just been constructed satisfies the invariant.
THEOREM AuthorityInitInv == AuthorityInit => AuthorityInv
  BY GenAssumption, EpochAssumption, LeaseAssumption
  DEF AuthorityInit, AuthorityInv, AuthorityTypeOK, RevocationConsistent, NoRack, NoPublisher,
      RackRecord, PublisherRecord, PublisherState, Generation, Age

\* The records after the whole of retire_rack: every registered boot is fenced,
\* and the only record left "Active" is the caller's.
LEMMA RetireRackInv ==
    ASSUME AuthorityInv, NEW tok \in AuthorityToken, RetireRack(tok)
    PROVE  AuthorityInv'
<1> DEFINE lost == [b \in Boots |-> IF b \in RegisteredBoots
                                    THEN [publishers[b] EXCEPT !.state = "Lost"]
                                    ELSE publishers[b]]
<1>1. lost \in [Boots -> PublisherRecord]
  BY LostRecords DEF AuthorityInv
<1>2. rack' \in RackRecord /\ rack'.retired
  <2>1. rack \in RackRecord /\ rack.gen < MaxGen
    BY DEF RetireRack, AuthorityInv, AuthorityTypeOK
  <2>2. rack' = [rack EXCEPT !.retired = TRUE, !.gen = rack.gen + 1]
    BY DEF RetireRack
  <2>3. rack.gen + 1 \in Generation
    BY <2>1, GenAssumption DEF RackRecord, Generation
  <2> QED
    BY <2>1, <2>2, <2>3 DEF RackRecord
<1>3. fencedBoots' = fencedBoots \cup RegisteredBoots /\ fencedBoots' \subseteq Boots
  BY DEF RetireRack, AuthorityInv, AuthorityTypeOK, RegisteredBoots
<1>4. \A b \in Boots : /\ lost[b].state = "Lost" => b \in RegisteredBoots
                       /\ lost[b].state # "Lost" => lost[b].state = "Absent" /\ b \notin RegisteredBoots
  BY DEF AuthorityInv, AuthorityTypeOK, PublisherRecord, RegisteredBoots
<1>5. RegisteredBoots \subseteq Boots /\ fencedBoots \subseteq RegisteredBoots
  BY DEF AuthorityInv, AuthorityTypeOK, RevocationConsistent, RegisteredBoots
<1> HIDE DEF lost
<1>6. CASE tok.boot # None
  <2>1. tok.boot \in Boots /\ tok.boot \in RegisteredBoots
    BY <1>6 DEF RetireRack, check_authority, HasStanding, AuthorityToken, RegisteredBoots
  <2>2. publishers' = Advanced(lost, tok.boot) /\ operatorGen' = operatorGen
    BY <1>6 DEF RetireRack, lost
  <2>3. /\ publishers' \in [Boots -> PublisherRecord]
        /\ publishers'[tok.boot].state = "Active"
        /\ \A x \in Boots \ {tok.boot} : publishers'[x] = lost[x]
    BY <1>1, <2>1, <2>2, AdvancedRecords
  <2>4. AuthorityTypeOK'
    BY <1>2, <1>3, <2>2, <2>3 DEF RetireRack, AuthorityInv, AuthorityTypeOK
  <2>5. RevocationConsistent'
    <3> SUFFICES ASSUME NEW b \in Boots
                 PROVE  /\ publishers'[b].state \in {"Lost", "Fenced"} => b \in fencedBoots'
                        /\ b \in fencedBoots' => publishers'[b].state # "Absent"
      BY <1>2 DEF RevocationConsistent
    <3>1. CASE b = tok.boot
      BY <1>3, <2>1, <2>3, <3>1
    <3>2. CASE b # tok.boot
      BY <1>3, <1>4, <1>5, <2>3, <3>2
    <3> QED BY <3>1, <3>2
  <2> QED BY <2>4, <2>5 DEF AuthorityInv
<1>7. CASE tok.boot = None
  <2>1. publishers' = lost /\ operatorGen' = NextGen(operatorGen)
    BY <1>7 DEF RetireRack, lost
  <2>2. AuthorityTypeOK'
    BY <1>1, <1>2, <1>3, <2>1, NextGenRange DEF RetireRack, AuthorityInv, AuthorityTypeOK
  <2>3. RevocationConsistent'
    BY <1>2, <1>3, <1>4, <1>5, <2>1 DEF RevocationConsistent
  <2> QED BY <2>2, <2>3 DEF AuthorityInv
<1> QED BY <1>6, <1>7

\* What fence_publisher does to the invariant, for the operator and for
\* expire_publishers alike.
LEMMA MarkFencedInv ==
    ASSUME AuthorityInv, NEW b \in Boots, CanFence(b), MarkFenced(b),
           rack' = rack
    PROVE  /\ publishers' \in [Boots -> PublisherRecord]
           /\ fencedBoots' \subseteq Boots
           /\ RevocationConsistent'
<1>1. publishers[b] \in PublisherRecord
  BY DEF AuthorityInv, AuthorityTypeOK
<1>2. publishers' \in [Boots -> PublisherRecord]
  BY <1>1 DEF MarkFenced, AuthorityInv, AuthorityTypeOK, PublisherRecord, PublisherState
<1>3. /\ publishers'[b].state = "Fenced"
      /\ \A x \in Boots \ {b} : publishers'[x] = publishers[x]
  BY <1>1 DEF MarkFenced, AuthorityInv, AuthorityTypeOK, PublisherRecord
<1>4. fencedBoots' = fencedBoots \cup {b}
  BY DEF MarkFenced
<1> QED
  BY <1>2, <1>3, <1>4 DEF AuthorityInv, AuthorityTypeOK, RevocationConsistent

\* Accepting one mutation preserves the invariant.
LEMMA AcceptMutationInv ==
    ASSUME AuthorityInv, NEW tok \in AuthorityToken, AcceptMutation(tok)
    PROVE  AuthorityInv'
<1>1. CASE tok.boot # None
  <2>1. tok.boot \in Boots /\ tok.boot \notin fencedBoots
    BY <1>1 DEF AcceptMutation, check_authority, HasStanding, AuthorityToken
  <2>2. /\ publishers' = Advanced(publishers, tok.boot)
        /\ UNCHANGED <<epoch, rack, fencedBoots, operatorGen, expiring>>
    BY <1>1 DEF AcceptMutation, advance_publication
  <2>3. /\ publishers' \in [Boots -> PublisherRecord]
        /\ publishers'[tok.boot].state = "Active"
        /\ \A x \in Boots \ {tok.boot} : publishers'[x] = publishers[x]
    BY <2>1, <2>2, AdvancedRecords DEF AuthorityInv, AuthorityTypeOK
  <2> QED
    BY <2>1, <2>2, <2>3 DEF AuthorityInv, AuthorityTypeOK, RevocationConsistent
<1>2. CASE tok.boot = None
  BY <1>2, NextGenRange
  DEF AcceptMutation, advance_publication, AuthorityInv, AuthorityTypeOK, RevocationConsistent
<1> QED BY <1>1, <1>2

\* Every step of every handler preserves the invariant.
THEOREM AuthorityStepInv == AuthorityInv /\ [AuthorityNext]_authorityVars => AuthorityInv'
<1> SUFFICES ASSUME AuthorityInv, [AuthorityNext]_authorityVars
             PROVE  AuthorityInv'
  OBVIOUS
<1> USE DEF AuthorityInv
<1>0. /\ publishers \in [Boots -> PublisherRecord]
      /\ 0 \in Age
  BY LeaseAssumption DEF AuthorityTypeOK, Age
<1>1. ASSUME NEW e \in Epochs, NEW r \in Racks, NEW w \in Workers, NEW b \in Boots,
             RegisterNew(e, r, w, b)
      PROVE  AuthorityInv'
  <2>1. b \notin fencedBoots
    BY <1>1 DEF RegisterNew, RegistrationAllowed
  <2>2. [state |-> "Active", worker |-> w, epoch |-> epoch, gen |-> 1, age |-> 0] \in PublisherRecord
    BY <1>0, GenAssumption DEF AuthorityTypeOK, PublisherRecord, PublisherState, Generation
  <2> QED
    BY <1>1, <2>1, <2>2 DEF RegisterNew, AuthorityTypeOK, RevocationConsistent
<1>2. ASSUME NEW e \in Epochs, NEW r \in Racks, NEW w \in Workers, NEW b \in Boots,
             RegisterAgain(e, r, w, b)
      PROVE  AuthorityInv'
  <2>1. /\ publishers' \in [Boots -> PublisherRecord]
        /\ \A x \in Boots : publishers'[x].state = publishers[x].state
    BY <1>0, <1>2 DEF RegisterAgain, PublisherRecord
  <2> QED
    BY <1>2, <2>1 DEF RegisterAgain, AuthorityTypeOK, RevocationConsistent
<1>3. ASSUME NEW tok \in AuthorityToken, NEW inc \in RackEpochs, DeclareFirst(tok, inc)
      PROVE  AuthorityInv'
  <2>1. rack' \in RackRecord
    BY <1>3, GenAssumption DEF DeclareFirst, AuthorityToken, RackRecord, Generation
  <2>2. ~rack.retired
    BY <1>3 DEF DeclareFirst, check_authority, RackAccepts
  <2> QED
    BY <1>3, <2>1, <2>2 DEF DeclareFirst, AuthorityTypeOK, RevocationConsistent
<1>4. ASSUME NEW tok \in AuthorityToken, NEW inc \in RackEpochs, Redeclare(tok, inc)
      PROVE  AuthorityInv'
  <2>1. rack.gen + 1 \in Generation
    BY <1>4, GenAssumption DEF Redeclare, AuthorityTypeOK, RackRecord, Generation
  <2>2. rack' \in RackRecord
    BY <1>4, <2>1 DEF Redeclare, AuthorityTypeOK, RackRecord
  <2>3. ~rack.retired
    BY <1>4 DEF Redeclare, check_authority, RackAccepts
  <2> QED
    BY <1>4, <2>2, <2>3 DEF Redeclare, AuthorityTypeOK, RevocationConsistent
<1>5. ASSUME NEW tok \in AuthorityToken, RetireRack(tok)
      PROVE  AuthorityInv'
  BY <1>5, RetireRackInv
<1>6. ASSUME NEW tok \in AuthorityToken, Heartbeat(tok)
      PROVE  AuthorityInv'
  <2>1. /\ publishers' \in [Boots -> PublisherRecord]
        /\ \A x \in Boots : publishers'[x].state = publishers[x].state
    BY <1>0, <1>6 DEF Heartbeat, PublisherRecord
  <2> QED
    BY <1>6, <2>1 DEF Heartbeat, AuthorityTypeOK, RevocationConsistent
<1>7. ASSUME NEW tok \in AuthorityToken, AcceptMutation(tok)
      PROVE  AuthorityInv'
  BY <1>7, AcceptMutationInv
<1>8. ASSUME NEW e \in Epochs, NEW b \in Boots, FencePublisher(e, b)
      PROVE  AuthorityInv'
  BY <1>8, MarkFencedInv DEF FencePublisher, AuthorityTypeOK
<1>9. ASSUME ExpireCollect
      PROVE  AuthorityInv'
  BY <1>9 DEF ExpireCollect, AuthorityTypeOK, RevocationConsistent
<1>10. ASSUME NEW b \in Boots, ExpireFence(b)
       PROVE  AuthorityInv'
  <2>1. CASE CanFence(b)
    BY <1>10, <2>1, MarkFencedInv DEF ExpireFence, AuthorityTypeOK
  <2>2. CASE ~CanFence(b)
    BY <1>10, <2>2 DEF ExpireFence, AuthorityTypeOK, RevocationConsistent
  <2> QED BY <2>1, <2>2
<1>11. ASSUME Tick
       PROVE  AuthorityInv'
  <2>1. \A b \in Boots : publishers[b].age <= Lease => publishers[b].age + 1 \in Age
    BY <1>0, LeaseAssumption DEF PublisherRecord, Age
  <2>2. /\ publishers' \in [Boots -> PublisherRecord]
        /\ \A x \in Boots : publishers'[x].state = publishers[x].state
    BY <1>0, <1>11, <2>1 DEF Tick, PublisherRecord
  <2> QED
    BY <1>11, <2>2 DEF Tick, AuthorityTypeOK, RevocationConsistent
<1>12. ASSUME UNCHANGED authorityVars
       PROVE  AuthorityInv'
  BY <1>12 DEF authorityVars, AuthorityTypeOK, RevocationConsistent
<1> QED
  BY <1>1, <1>2, <1>3, <1>4, <1>5, <1>6, <1>7, <1>8, <1>9, <1>10, <1>11, <1>12
  DEF AuthorityNext

\* Type correctness of the authority state.
THEOREM AuthorityTypeCorrect == AuthoritySpec => []AuthorityTypeOK
<1>1. AuthoritySpec => []AuthorityInv
  BY AuthorityInitInv, AuthorityStepInv, PTL DEF AuthoritySpec
<1> QED
  BY <1>1, PTL DEF AuthorityInv

\* The publisher records and fenced_boots always tell the same story about a
\* revocation, for any number of processes and any interleaving of handlers.
THEOREM RevocationsAgree == AuthoritySpec => []RevocationConsistent
<1>1. AuthoritySpec => []AuthorityInv
  BY AuthorityInitInv, AuthorityStepInv, PTL DEF AuthoritySpec
<1> QED
  BY <1>1, PTL DEF AuthorityInv

\* A registered boot without standing gains nothing from any step: it does not
\* publish, its lease is not renewed, and nothing is removed from fenced_boots.
LEMMA OutsidersGainNothing ==
    ASSUME AuthorityInv, AuthorityNext, NEW b \in Boots,
           ~HasStanding(b), publishers[b].state # "Absent", b \in fencedBoots
    PROVE  /\ b \in fencedBoots'
           /\ publishers'[b].gen = publishers[b].gen
           /\ publishers'[b].age >= publishers[b].age
           /\ publishers'[b].worker = publishers[b].worker
<1> DEFINE Kept == /\ b \in fencedBoots'
                   /\ publishers'[b].gen = publishers[b].gen
                   /\ publishers'[b].age >= publishers[b].age
                   /\ publishers'[b].worker = publishers[b].worker
<1> SUFFICES Kept
  OBVIOUS
<1>0. publishers \in [Boots -> PublisherRecord] /\ publishers[b].age \in Int
  BY LeaseAssumption DEF AuthorityInv, AuthorityTypeOK, PublisherRecord, Age
<1>1. ASSUME b \in fencedBoots', publishers'[b] = publishers[b]
      PROVE  Kept
  BY <1>0, <1>1
<1>2. ASSUME NEW e \in Epochs, NEW r \in Racks, NEW w \in Workers, NEW x \in Boots,
             RegisterNew(e, r, w, x) \/ RegisterAgain(e, r, w, x)
      PROVE  Kept
  BY <1>0, <1>1, <1>2 DEF RegisterNew, RegisterAgain, RegistrationAllowed
<1>3. ASSUME NEW tok \in AuthorityToken, NEW inc \in RackEpochs,
             DeclareFirst(tok, inc) \/ Redeclare(tok, inc)
      PROVE  Kept
  BY <1>1, <1>3 DEF DeclareFirst, Redeclare
<1>4. ASSUME NEW tok \in AuthorityToken, RetireRack(tok)
      PROVE  Kept
  <2> DEFINE lost == [x \in Boots |-> IF x \in RegisteredBoots
                                      THEN [publishers[x] EXCEPT !.state = "Lost"]
                                      ELSE publishers[x]]
  <2>1. /\ lost[b].gen = publishers[b].gen
        /\ lost[b].age = publishers[b].age
        /\ lost[b].worker = publishers[b].worker
    BY <1>0 DEF PublisherRecord
  <2>2. lost \in [Boots -> PublisherRecord]
    BY LostRecords DEF AuthorityInv
  <2>3. publishers' = lost \/ (tok.boot # None /\ publishers' = Advanced(lost, tok.boot))
    BY <1>4 DEF RetireRack
  <2> HIDE DEF lost
  <2>4. tok.boot # None => tok.boot \in Boots /\ tok.boot # b
    BY <1>4 DEF RetireRack, check_authority, AuthorityToken
  <2>5. publishers'[b] = lost[b]
    BY <2>2, <2>3, <2>4, AdvancedRecords
  <2>6. b \in fencedBoots'
    BY <1>4 DEF RetireRack
  <2> QED BY <1>0, <2>1, <2>5, <2>6
<1>5. ASSUME NEW tok \in AuthorityToken, Heartbeat(tok)
      PROVE  Kept
  BY <1>0, <1>1, <1>5 DEF Heartbeat, check_authority
<1>6. ASSUME NEW tok \in AuthorityToken, AcceptMutation(tok)
      PROVE  Kept
  <2>1. tok.boot # None => tok.boot \in Boots /\ tok.boot # b
    BY <1>6 DEF AcceptMutation, check_authority, AuthorityToken
  <2>2. publishers' = publishers \/ (tok.boot # None /\ publishers' = Advanced(publishers, tok.boot))
    BY <1>6 DEF AcceptMutation, advance_publication
  <2>3. publishers'[b] = publishers[b]
    BY <1>0, <2>1, <2>2, AdvancedRecords
  <2> QED BY <1>1, <1>6, <2>3 DEF AcceptMutation
<1>7. ASSUME NEW x \in Boots, MarkFenced(x)
      PROVE  Kept
  BY <1>0, <1>7 DEF MarkFenced, PublisherRecord
<1>8. ASSUME NEW x \in Boots, ExpireFence(x)
      PROVE  Kept
  BY <1>1, <1>7, <1>8 DEF ExpireFence
<1>9. ASSUME NEW e \in Epochs, NEW x \in Boots, FencePublisher(e, x)
      PROVE  Kept
  BY <1>7, <1>9 DEF FencePublisher
<1>10. ASSUME ExpireCollect
       PROVE  Kept
  BY <1>1, <1>10 DEF ExpireCollect
<1>11. ASSUME Tick
       PROVE  Kept
  BY <1>0, <1>11 DEF Tick, PublisherRecord
<1> QED
  BY <1>2, <1>3, <1>4, <1>5, <1>6, <1>8, <1>9, <1>10, <1>11 DEF AuthorityNext

\* Fencing is permanent within an epoch, whatever the processes do.
THEOREM FencingPermanent == AuthoritySpec => FencingIsPermanent
<1>1. AuthoritySpec => []AuthorityInv
  BY AuthorityInitInv, AuthorityStepInv, PTL DEF AuthoritySpec
<1>2. AuthorityInv /\ [AuthorityNext]_authorityVars =>
        [\A b \in fencedBoots :
            /\ b \in fencedBoots'
            /\ publishers'[b].gen = publishers[b].gen
            /\ publishers'[b].age >= publishers[b].age
            /\ publishers'[b].worker = publishers[b].worker]_authorityVars
  <2> SUFFICES ASSUME AuthorityInv, AuthorityNext, NEW b \in fencedBoots
               PROVE  /\ b \in fencedBoots'
                      /\ publishers'[b].gen = publishers[b].gen
                      /\ publishers'[b].age >= publishers[b].age
                      /\ publishers'[b].worker = publishers[b].worker
    OBVIOUS
  <2>1. b \in Boots /\ publishers[b].state # "Absent" /\ ~HasStanding(b)
    BY DEF AuthorityInv, AuthorityTypeOK, RevocationConsistent, HasStanding
  <2> QED BY <2>1, OutsidersGainNothing
<1> QED
  BY <1>1, <1>2, PTL DEF AuthoritySpec, FencingIsPermanent

\* A retired rack stays closed to publishers and operator alike.
THEOREM RetiredRackClosed == AuthoritySpec => RetiredRackIsClosed
<1>1. AuthoritySpec => []AuthorityInv
  BY AuthorityInitInv, AuthorityStepInv, PTL DEF AuthoritySpec
<1> DEFINE Closed == /\ rack' = rack
                     /\ operatorGen' = operatorGen
                     /\ \A b \in Boots :
                           /\ publishers'[b].gen = publishers[b].gen
                           /\ publishers'[b].age >= publishers[b].age
                           /\ publishers'[b].state \in {publishers[b].state, "Fenced"}
<1>2. AuthorityInv /\ [AuthorityNext]_authorityVars => [rack.retired => Closed]_authorityVars
  <2> SUFFICES ASSUME AuthorityInv, AuthorityNext, rack.retired
               PROVE  Closed
    OBVIOUS
  <2>0. /\ publishers \in [Boots -> PublisherRecord]
        /\ \A b \in Boots : publishers[b].age \in Int
    BY LeaseAssumption DEF AuthorityInv, AuthorityTypeOK, PublisherRecord, Age
  <2>1. \A tok \in AuthorityToken, scoped \in BOOLEAN : ~check_authority(tok, scoped)
    BY DEF check_authority, RackAccepts
  <2>2. \/ \E e \in Epochs, b \in Boots : FencePublisher(e, b)
        \/ ExpireCollect
        \/ \E b \in Boots : ExpireFence(b)
        \/ Tick
    BY <2>1 DEF AuthorityNext, RegisterNew, RegisterAgain, RegistrationAllowed,
                DeclareFirst, Redeclare, RetireRack, Heartbeat, AcceptMutation
  <2>3. ASSUME NEW b \in Boots, MarkFenced(b), rack' = rack, operatorGen' = operatorGen
        PROVE  Closed
    BY <2>0, <2>3 DEF MarkFenced, PublisherRecord
  <2>4. ASSUME publishers' = publishers, rack' = rack, operatorGen' = operatorGen
        PROVE  Closed
    BY <2>0, <2>4
  <2>5. ASSUME Tick
        PROVE  Closed
    BY <2>0, <2>5 DEF Tick, PublisherRecord
  <2> QED
    BY <2>2, <2>3, <2>4, <2>5 DEF FencePublisher, ExpireCollect, ExpireFence
<1> QED
  BY <1>1, <1>2, PTL DEF AuthoritySpec, RetiredRackIsClosed

\* Values of the refinement mapping at one boot identity.
LEMMA PhaseValues ==
    ASSUME AuthorityInv, NEW b \in Boots
    PROVE  /\ BootPhase[b] = "live" <=> b \notin fencedBoots /\ publishers[b].state = "Active"
           /\ BootPhase[b] = "unknown" <=> publishers[b].state = "Absent"
           /\ BootPhase[b] = "dead" <=> b \in fencedBoots
           /\ BootPhase[b] \in {"unknown", "live", "dead"}
           /\ BootGen[b] = publishers[b].gen
  BY DEF AuthorityInv, AuthorityTypeOK, RevocationConsistent, PublisherRecord, PublisherState,
         BootPhase, BootGen

\* A step that leaves a boot's record state, counter and fencing alone leaves
\* its abstract image alone.
LEMMA SameImage ==
    ASSUME fencedBoots' = fencedBoots,
           \A b \in Boots : /\ publishers'[b].state = publishers[b].state
                            /\ publishers'[b].gen = publishers[b].gen
    PROVE  UNCHANGED <<BootPhase, BootGen>>
  BY DEF BootPhase, BootGen

\* The handlers implement the contract of a boot identity's life.
THEOREM ImplementsBootContract == AuthoritySpec => BootContract
<1>1. AuthoritySpec => []AuthorityInv
  BY AuthorityInitInv, AuthorityStepInv, PTL DEF AuthoritySpec
<1>2. AuthorityInit => Contract!BootInit
  BY DEF AuthorityInit, NoPublisher, Contract!BootInit, BootPhase, BootGen
<1>3. AuthorityInv /\ AuthorityInv' /\ [AuthorityNext]_authorityVars =>
        [Contract!BootNext]_(Contract!bootVars)
  <2> SUFFICES ASSUME AuthorityInv, AuthorityInv', [AuthorityNext]_authorityVars
               PROVE  Contract!BootNext \/ UNCHANGED <<BootPhase, BootGen>>
    BY DEF Contract!bootVars
  <2> DEFINE Simulated == Contract!BootNext \/ UNCHANGED <<BootPhase, BootGen>>
  <2>0. /\ publishers \in [Boots -> PublisherRecord]
        /\ publishers' \in [Boots -> PublisherRecord]
        /\ fencedBoots \subseteq Boots
    BY DEF AuthorityInv, AuthorityTypeOK
  <2>1. ASSUME NEW e \in Epochs, NEW r \in Racks, NEW w \in Workers, NEW b \in Boots,
               RegisterNew(e, r, w, b)
        PROVE  Simulated
    <3>1. /\ publishers[b].state = "Absent"
          /\ fencedBoots' = fencedBoots
          /\ publishers'[b].state = "Active" /\ publishers'[b].gen = 1
          /\ \A x \in Boots \ {b} : publishers'[x] = publishers[x]
          /\ b \notin fencedBoots
      BY <2>0, <2>1 DEF RegisterNew, RegistrationAllowed
    <3>2. BootPhase[b] = "unknown"
      BY <3>1, PhaseValues
    <3>3. BootPhase' = [BootPhase EXCEPT ![b] = "live"]
      BY <3>1 DEF BootPhase
    <3>4. BootGen' = [BootGen EXCEPT ![b] = 1]
      BY <3>1 DEF BootGen
    <3>5. Contract!Admit(b)
      BY <3>2, <3>3, <3>4 DEF Contract!Admit
    <3> QED BY <3>5 DEF Contract!BootNext
  <2>2. ASSUME NEW e \in Epochs, NEW r \in Racks, NEW w \in Workers, NEW b \in Boots,
               RegisterAgain(e, r, w, b)
        PROVE  Simulated
    BY <2>0, <2>2, SameImage DEF RegisterAgain, PublisherRecord
  <2>3. ASSUME NEW tok \in AuthorityToken, NEW inc \in RackEpochs,
               DeclareFirst(tok, inc) \/ Redeclare(tok, inc)
        PROVE  Simulated
    BY <2>3, SameImage DEF DeclareFirst, Redeclare
  <2>4. ASSUME NEW tok \in AuthorityToken, RetireRack(tok)
        PROVE  Simulated
    <3> DEFINE lost == [x \in Boots |-> IF x \in RegisteredBoots
                                        THEN [publishers[x] EXCEPT !.state = "Lost"]
                                        ELSE publishers[x]]
    <3>1. lost \in [Boots -> PublisherRecord] /\ \A x \in Boots : lost[x].gen = publishers[x].gen
      BY <2>0, LostRecords DEF AuthorityInv, PublisherRecord
    <3>2. \/ tok.boot = None /\ publishers' = lost
          \/ tok.boot # None /\ publishers' = Advanced(lost, tok.boot)
      BY <2>4 DEF RetireRack
    <3> HIDE DEF lost
    <3>3. fencedBoots' = RegisteredBoots
      BY <2>4 DEF RetireRack, RegisteredBoots, AuthorityInv, AuthorityTypeOK, RevocationConsistent
    <3>4. BootPhase' = [b \in Boots |-> IF BootPhase[b] = "live" THEN "dead" ELSE BootPhase[b]]
      <4>1. \A b \in Boots : /\ BootPhase'[b] = "dead" <=> b \in RegisteredBoots
                             /\ BootPhase'[b] \in {"unknown", "live", "dead"}
                             /\ BootPhase'[b] = "live" => b \in RegisteredBoots
        <5> SUFFICES ASSUME NEW b \in Boots
                     PROVE  /\ BootPhase'[b] = "dead" <=> b \in RegisteredBoots
                            /\ BootPhase'[b] \in {"unknown", "live", "dead"}
                            /\ BootPhase'[b] = "live" => b \in RegisteredBoots
          OBVIOUS
        <5>1. CASE b \in RegisteredBoots
          BY <3>3, <5>1 DEF BootPhase
        <5>2. CASE b \notin RegisteredBoots
          <6>1. publishers[b].state = "Absent" /\ lost[b] = publishers[b]
            BY <5>2 DEF RegisteredBoots, lost
          <6>2. tok.boot # None => tok.boot \in Boots /\ tok.boot # b
            BY <2>4, <6>1 DEF RetireRack, check_authority, HasStanding, AuthorityToken
          <6>3. publishers'[b] = publishers[b]
            BY <3>1, <3>2, <6>1, <6>2, AdvancedRecords
          <6> QED BY <3>3, <5>2, <6>1, <6>3 DEF BootPhase
        <5> QED BY <5>1, <5>2
      <4>2. \A b \in Boots : /\ BootPhase[b] = "unknown" <=> b \notin RegisteredBoots
                             /\ BootPhase[b] \in {"unknown", "live", "dead"}
        BY PhaseValues DEF RegisteredBoots
      <4>3. \A b \in Boots : BootPhase'[b] =
              IF BootPhase[b] = "live" THEN "dead" ELSE BootPhase[b]
        BY <4>1, <4>2
      <4>4. BootPhase' = [b \in Boots |-> BootPhase'[b]]
        BY DEF BootPhase
      <4> QED BY <4>3, <4>4
    <3>5. \/ UNCHANGED BootGen
          \/ \E b \in Boots : /\ BootPhase[b] = "live"
                               /\ BootGen' = [BootGen EXCEPT ![b] = IF @ < MaxGen THEN @ + 1 ELSE @]
      <4>1. CASE tok.boot = None
        BY <3>1, <3>2, <4>1 DEF BootGen
      <4>2. CASE tok.boot # None
        <5>1. tok.boot \in Boots /\ BootPhase[tok.boot] = "live"
          BY <2>4, <4>2, PhaseValues DEF RetireRack, check_authority, HasStanding, AuthorityToken
        <5>2. /\ publishers'[tok.boot].gen = NextGen(publishers[tok.boot].gen)
              /\ \A x \in Boots \ {tok.boot} : publishers'[x].gen = publishers[x].gen
          BY <3>1, <3>2, <4>2, <5>1, AdvancedRecords
        <5>3. BootGen' = [BootGen EXCEPT ![tok.boot] = IF @ < MaxGen THEN @ + 1 ELSE @]
          BY <5>1, <5>2 DEF BootGen, NextGen
        <5> QED BY <5>1, <5>3
      <4> QED BY <4>1, <4>2
    <3>6. Contract!Close
      BY <3>4, <3>5 DEF Contract!Close
    <3> QED BY <3>6 DEF Contract!BootNext
  <2>5. ASSUME NEW tok \in AuthorityToken, Heartbeat(tok)
        PROVE  Simulated
    BY <2>0, <2>5, SameImage DEF Heartbeat, PublisherRecord
  <2>6. ASSUME NEW tok \in AuthorityToken, AcceptMutation(tok)
        PROVE  Simulated
    <3>1. CASE tok.boot = None
      BY <2>6, <3>1, SameImage DEF AcceptMutation, advance_publication
    <3>2. CASE tok.boot # None
      <4>1. /\ tok.boot \in Boots
            /\ publishers[tok.boot].state = "Active" /\ BootPhase[tok.boot] = "live"
            /\ fencedBoots' = fencedBoots
        BY <2>6, <3>2, PhaseValues
        DEF AcceptMutation, check_authority, HasStanding, AuthorityToken
      <4>2. /\ publishers'[tok.boot].state = "Active"
            /\ publishers'[tok.boot].gen = NextGen(publishers[tok.boot].gen)
            /\ \A x \in Boots \ {tok.boot} : publishers'[x] = publishers[x]
        BY <2>0, <2>6, <3>2, <4>1, AdvancedRecords DEF AcceptMutation, advance_publication
      <4>3. UNCHANGED BootPhase
        BY <4>1, <4>2 DEF BootPhase
      <4>4. BootGen' = [BootGen EXCEPT ![tok.boot] = IF @ < MaxGen THEN @ + 1 ELSE @]
        BY <4>1, <4>2 DEF BootGen, NextGen
      <4>5. Contract!Publish(tok.boot)
        BY <4>1, <4>3, <4>4 DEF Contract!Publish
      <4> QED BY <4>1, <4>5 DEF Contract!BootNext
    <3> QED BY <3>1, <3>2
  <2>7. ASSUME NEW b \in Boots, CanFence(b), MarkFenced(b)
        PROVE  Simulated
    <3>1. /\ publishers'[b].state = "Fenced"
          /\ \A x \in Boots : publishers'[x].gen = publishers[x].gen
          /\ \A x \in Boots \ {b} : publishers'[x].state = publishers[x].state
          /\ fencedBoots' = fencedBoots \cup {b}
      BY <2>0, <2>7 DEF MarkFenced, PublisherRecord
    <3>2. UNCHANGED BootGen
      BY <3>1 DEF BootGen
    <3>3. CASE b \in fencedBoots
      BY <3>1, <3>2, <3>3 DEF BootPhase
    <3>4. CASE b \notin fencedBoots
      <4>1. BootPhase[b] = "live"
        BY <2>7, <3>4, PhaseValues DEF CanFence, AuthorityInv, RevocationConsistent
      <4>2. BootPhase' = [BootPhase EXCEPT ![b] = "dead"]
        BY <3>1 DEF BootPhase
      <4>3. Contract!Revoke(b)
        BY <3>2, <4>1, <4>2 DEF Contract!Revoke
      <4> QED BY <4>3 DEF Contract!BootNext
    <3> QED BY <3>3, <3>4
  <2>8. ASSUME NEW e \in Epochs, NEW b \in Boots, FencePublisher(e, b)
        PROVE  Simulated
    BY <2>7, <2>8 DEF FencePublisher
  <2>9. ASSUME ExpireCollect
        PROVE  Simulated
    BY <2>9, SameImage DEF ExpireCollect
  <2>10. ASSUME NEW b \in Boots, ExpireFence(b)
         PROVE  Simulated
    BY <2>7, <2>10, SameImage DEF ExpireFence
  <2>11. ASSUME Tick
         PROVE  Simulated
    BY <2>0, <2>11, SameImage DEF Tick, PublisherRecord
  <2>12. ASSUME UNCHANGED authorityVars
         PROVE  Simulated
    BY <2>12, SameImage DEF authorityVars
  <2> QED
    BY <2>1, <2>2, <2>3, <2>4, <2>5, <2>6, <2>8, <2>9, <2>10, <2>11, <2>12 DEF AuthorityNext
<1> QED
  BY <1>1, <1>2, <1>3, PTL DEF AuthoritySpec, BootContract, Contract!BootSpec

-----------------------------------------------------------------------------
(* Members *)

\* The inductive invariant of the member records and their authority.
RackInv ==
    /\ AuthorityInv
    /\ MembersInv
    /\ IsFiniteSet(Known)

\* One existing record replaced by r on behalf of tok, by a handler that is
\* allowed to: what the six handlers on a single record have in common.
Edit(tok, m, r) ==
    /\ m \in Known
    /\ AcceptMutation(tok)
    /\ members' = [members EXCEPT ![m] = r]
    /\ r.gen = members[m].gen + 1
    /\ r.owner = members[m].owner
    /\ r.lifecycle # "Absent"
    /\ members[m].lifecycle = "Retired" => r.lifecycle \in {"Retired", "Declared"}
    /\ owner_conflict(members[m].owner, tok) =>
          /\ members[m].lifecycle # "Retired"
          /\ r = [Bumped(members[m]) EXCEPT !.lifecycle = "Retired", !.reval = FALSE]
    /\ gens' \in GenerationSet

\* The set-wide counters stay in range whichever of them a handler advances.
LEMMA GensRange ==
    ASSUME gens \in GenerationSet
    PROVE  /\ GensAfterMembership \in GenerationSet
           /\ GensAfterPublish \in GenerationSet
           /\ [gens EXCEPT !.health = NextGen(gens.health)] \in GenerationSet
           /\ [gens EXCEPT !.capabilities = NextGen(gens.capabilities)] \in GenerationSet
<1>1. /\ NextGen(gens.membership) \in Generation
      /\ NextGen(gens.health) \in Generation
      /\ NextGen(gens.capabilities) \in Generation
  BY NextGenRange DEF GenerationSet
<1>2. 1 \in Generation
  BY GenAssumption DEF Generation
<1> QED
  BY <1>1, <1>2 DEF GenerationSet, GensAfterMembership, GensAfterPublish

\* A record moved one generation on, with a new lifecycle or flag, is a record.
LEMMA BumpedRecord ==
    ASSUME NEW rec \in MemberRecord, NEW l \in Lifecycle, NEW f \in BOOLEAN
    PROVE  /\ Bumped(rec) \in MemberRecord
           /\ [Bumped(rec) EXCEPT !.reval = f] \in MemberRecord
           /\ [Bumped(rec) EXCEPT !.lifecycle = l, !.reval = f] \in MemberRecord
           /\ Bumped(rec).gen = NextGen(rec.gen)
           /\ Bumped(rec).owner = rec.owner
           /\ Bumped(rec).lifecycle = rec.lifecycle
           /\ [Bumped(rec) EXCEPT !.reval = f].gen = NextGen(rec.gen)
           /\ [Bumped(rec) EXCEPT !.reval = f].owner = rec.owner
           /\ [Bumped(rec) EXCEPT !.reval = f].lifecycle = rec.lifecycle
           /\ [Bumped(rec) EXCEPT !.lifecycle = l, !.reval = f].gen = NextGen(rec.gen)
           /\ [Bumped(rec) EXCEPT !.lifecycle = l, !.reval = f].owner = rec.owner
           /\ [Bumped(rec) EXCEPT !.lifecycle = l, !.reval = f].lifecycle = l
<1>1. NextGen(rec.gen) \in Generation
  BY NextGenRange DEF MemberRecord
<1> QED
  BY <1>1 DEF Bumped, MemberRecord

\* publish_health, publish_capability, withdraw_evidence, mark_unavailable and
\* retire_member each replace one record in place.
LEMMA HandlersEdit ==
    ASSUME RackInv, NEW tok \in RequestToken, NEW m \in Members,
           \/ \E expected \in Generation \cup {None} : PublishHealth(tok, m, expected)
           \/ PublishCapability(tok, m)
           \/ WithdrawScoped(tok, m)
           \/ WithdrawAll(tok, m)
           \/ MarkUnavailable(tok, m)
           \/ RetireMember(tok, m)
    PROVE  \E r \in MemberRecord : Edit(tok, m, r)
<1> DEFINE rec == members[m]
<1>1. rec \in MemberRecord /\ gens \in GenerationSet
  BY DEF RackInv, MembersInv, MembersTypeOK
<1>2. m \in Known => rec.lifecycle # "Absent"
  BY DEF Known
<1>3. rec.gen < MaxGen => NextGen(rec.gen) = rec.gen + 1
  BY DEF NextGen
<1>4. {"Declared", "Unavailable", "Retired"} \subseteq Lifecycle
  BY DEF Lifecycle
<1> DEFINE Moved(l, f) == [Bumped(rec) EXCEPT !.lifecycle = l, !.reval = f]
<1>5. /\ Bumped(rec) \in MemberRecord
      /\ Bumped(rec).gen = NextGen(rec.gen)
      /\ Bumped(rec).owner = rec.owner
      /\ Bumped(rec).lifecycle = rec.lifecycle
  BY <1>1, <1>4, BumpedRecord
<1>6. \A l \in {"Declared", "Unavailable", "Retired"}, f \in BOOLEAN :
        /\ Moved(l, f) \in MemberRecord
        /\ Moved(l, f).gen = NextGen(rec.gen)
        /\ Moved(l, f).owner = rec.owner
        /\ Moved(l, f).lifecycle = l
  <2> TAKE l \in {"Declared", "Unavailable", "Retired"}, f \in BOOLEAN
  <2>1. l \in Lifecycle
    BY <1>4
  <2> QED BY <1>1, <1>5, <2>1 DEF MemberRecord
<1>7. ASSUME MayChange(tok, m) \/ check_authority(tok, TRUE), advance_publication(tok),
             UNCHANGED <<epoch, rack, fencedBoots, expiring>>
      PROVE  AcceptMutation(tok)
  BY <1>7 DEF AcceptMutation, MayChange
<1>8. CASE \/ \E expected \in Generation \cup {None} : PublishHealth(tok, m, expected)
           \/ PublishCapability(tok, m)
           \/ WithdrawScoped(tok, m)
  <2>1. /\ MayChange(tok, m) /\ HasNextGen(m) /\ m \in Known
        /\ AcceptMutation(tok)
        /\ members' = [members EXCEPT ![m] = Bumped(rec)]
        /\ gens' \in GenerationSet
    BY <1>1, <1>7, <1>8, GensRange DEF PublishHealth, PublishCapability, WithdrawScoped, MayChange
  <2>2. Edit(tok, m, Bumped(rec))
    BY <2>1, <1>2, <1>3, <1>5 DEF Edit, MayChange, HasNextGen
  <2> QED BY <2>2, <1>5
<1>9. CASE WithdrawAll(tok, m)
  <2>1. /\ MayChange(tok, m) /\ HasNextGen(m) /\ m \in Known
        /\ AcceptMutation(tok)
        /\ members' = [members EXCEPT ![m] = Moved("Declared", FALSE)]
        /\ gens' \in GenerationSet
    BY <1>1, <1>7, <1>9, GensRange DEF WithdrawAll, MayChange
  <2> HIDE DEF Moved
  <2>2. Edit(tok, m, Moved("Declared", FALSE))
    BY <2>1, <1>3, <1>6 DEF Edit, MayChange, HasNextGen
  <2> QED BY <2>2, <1>6
<1>10. CASE MarkUnavailable(tok, m)
  <2>1. /\ MayChange(tok, m) /\ HasNextGen(m) /\ m \in Known
        /\ rec.lifecycle # "Retired"
        /\ AcceptMutation(tok)
        /\ members' = [members EXCEPT ![m] = Moved("Unavailable", TRUE)]
        /\ gens' \in GenerationSet
    BY <1>1, <1>7, <1>10, GensRange DEF MarkUnavailable, MayChange
  <2> HIDE DEF Moved
  <2>2. Edit(tok, m, Moved("Unavailable", TRUE))
    BY <2>1, <1>3, <1>6 DEF Edit, MayChange, HasNextGen
  <2> QED BY <2>2, <1>6
<1>11. CASE RetireMember(tok, m)
  <2>1. /\ HasNextGen(m) /\ m \in Known
        /\ rec.lifecycle # "Retired"
        /\ AcceptMutation(tok)
        /\ members' = [members EXCEPT ![m] = Moved("Retired", FALSE)]
        /\ gens' \in GenerationSet
    BY <1>1, <1>7, <1>11, GensRange DEF RetireMember
  <2>2. Moved("Retired", FALSE) = [Bumped(members[m]) EXCEPT !.lifecycle = "Retired",
                                                             !.reval = FALSE]
    OBVIOUS
  <2> HIDE DEF Moved
  <2>3. Edit(tok, m, Moved("Retired", FALSE))
    BY <2>1, <2>2, <1>3, <1>6 DEF Edit, HasNextGen
  <2> QED BY <2>3, <1>6
<1> QED
  BY <1>8, <1>9, <1>10, <1>11

\* publish_member: a record of the caller's own, or of nobody's, gets a higher
\* generation; a retired one stays retired.
LEMMA PublishReplaces ==
    ASSUME RackInv, NEW tok \in RequestToken, NEW m \in Members,
           NEW rec \in RequestRecord, NEW v \in VersionRequest,
           PublishMember(tok, m, rec, v)
    PROVE  \E r \in MemberRecord :
              /\ AcceptMutation(tok)
              /\ members' = [members EXCEPT ![m] = r]
              /\ gens' \in GenerationSet
              /\ r.gen > members[m].gen
              /\ r.lifecycle # "Absent"
              /\ members[m].lifecycle = "Retired" => r.lifecycle = "Retired"
              /\ m \in Known => ~owner_conflict(members[m].owner, tok)
              /\ m \notin Known => Cardinality(Known) < MaxMembers
<1> DEFINE target == TargetGen(members[m].gen, v)
           owner == IF tok.boot # None THEN tok.boot ELSE rec.owner
           r == [rec EXCEPT !.gen = target, !.owner = owner]
<1>1. members[m] \in MemberRecord /\ gens \in GenerationSet
  BY DEF RackInv, MembersInv, MembersTypeOK
<1>2. target \in Generation /\ target > members[m].gen
  <2>1. v.gen \in Generation /\ members[m].gen \in Generation
    BY <1>1 DEF MemberRecord, VersionRequest
  <2>2. v.gen > members[m].gen \/ members[m].gen < MaxGen
    BY DEF PublishMember, PublishAdmitted, HasNextGen
  <2> QED BY <2>1, <2>2, GenAssumption DEF TargetGen, Generation
<1>3. owner \in Boots \cup {None}
  BY DEF RequestToken, AuthorityToken, RequestRecord
<1>4. /\ PublishAdmitted(tok, m, rec, v)
      /\ members' = [members EXCEPT ![m] = r]
      /\ gens' = GensAfterPublish
      /\ AcceptMutation(tok)
  BY DEF PublishMember, PublishAdmitted, MayPublish, AcceptMutation
<1> HIDE DEF target, owner
<1>5. /\ r \in MemberRecord
      /\ r.gen = target
      /\ r.lifecycle = rec.lifecycle
  BY <1>2, <1>3 DEF RequestRecord, MemberRecord
<1>6. rec.lifecycle # "Absent"
  BY DEF RequestRecord
<1>7. members[m].lifecycle = "Retired" => m \in Known
  BY DEF Known
<1>8. /\ members[m].lifecycle = "Retired" => rec.lifecycle = "Retired"
      /\ m \in Known => ~owner_conflict(members[m].owner, tok)
      /\ m \notin Known => Cardinality(Known) < MaxMembers
  BY <1>4, <1>7 DEF PublishAdmitted, MayPublish
<1>9. gens' \in GenerationSet
  BY <1>1, <1>4, GensRange
<1> HIDE DEF r
<1> QED
  BY <1>2, <1>4, <1>5, <1>6, <1>8, <1>9

\* Seen without the records, a step of the member handlers is a step of
\* Authority.
LEMMA MembersStepIsAuthorityStep ==
    ASSUME RackInv, [MembersNext]_rackVars
    PROVE  [AuthorityNext]_authorityVars
<1>1. ASSUME NEW e \in Epochs, NEW r \in Racks, NEW w \in Workers, NEW b \in Boots,
             RegisterNew(e, r, w, b)
      PROVE  AuthorityNext
  BY <1>1 DEF AuthorityNext
<1>2. ASSUME NEW tok \in RequestToken
      PROVE  tok \in AuthorityToken
  BY DEF RequestToken
<1>3. ASSUME NEW tok \in RequestToken, NEW inc \in RackEpochs,
             DeclareFirst(tok, inc) \/ RedeclareRack(tok, inc)
      PROVE  AuthorityNext
  BY <1>2, <1>3 DEF AuthorityNext, RedeclareRack
<1>4. ASSUME NEW tok \in RequestToken, RetireWholeRack(tok)
      PROVE  AuthorityNext
  BY <1>2, <1>4 DEF AuthorityNext, RetireWholeRack
<1>5. ASSUME NEW tok \in RequestToken, MutateBy(tok)
      PROVE  AuthorityNext \/ UNCHANGED authorityVars
  <2>1. AcceptMutation(tok) \/ UNCHANGED authorityVars
    <3>1. ASSUME NEW m \in Members, NEW rec \in RequestRecord, NEW v \in VersionRequest,
                 PublishMember(tok, m, rec, v)
          PROVE  AcceptMutation(tok)
      BY <3>1, PublishReplaces
    <3>2. ASSUME NEW m \in Members,
                 \/ \E expected \in Generation \cup {None} : PublishHealth(tok, m, expected)
                 \/ PublishCapability(tok, m)
                 \/ WithdrawScoped(tok, m)
                 \/ WithdrawAll(tok, m)
                 \/ MarkUnavailable(tok, m)
                 \/ RetireMember(tok, m)
          PROVE  AcceptMutation(tok)
      BY <3>2, HandlersEdit DEF Edit
    <3>3. ASSUME NEW targets \in SUBSET Members, RevalidateMembers(tok, targets)
          PROVE  AcceptMutation(tok)
      BY <3>3 DEF RevalidateMembers, AcceptMutation
    <3>4. ASSUME NEW before \in SUBSET Members, NEW x \in Members,
                 RevalidateRejected(tok, before, x)
          PROVE  UNCHANGED authorityVars
      BY <3>4 DEF RevalidateRejected
    <3> QED BY <1>5, <3>1, <3>2, <3>3, <3>4 DEF MutateBy
  <2> QED BY <1>2, <2>1 DEF AuthorityNext
<1>6. ASSUME NEW e \in Epochs, NEW b \in Boots, FenceOwner(e, b)
      PROVE  AuthorityNext
  BY <1>6 DEF AuthorityNext, FenceOwner
<1> QED
  BY <1>1, <1>3, <1>4, <1>5, <1>6 DEF MembersNext, rackVars

\* What the invariant asks of a step: records stay records, and at most the
\* key new gains one, within the limit.
LEMMA RecordsKept ==
    ASSUME RackInv, gens' \in GenerationSet,
           members' \in [Members -> MemberRecord],
           NEW new,
           \A m \in Members : members[m].lifecycle # "Absent" => members'[m].lifecycle # "Absent",
           \A m \in Members \ {new} : members[m].lifecycle = "Absent" => members'[m] = members[m],
           new \in Members /\ new \notin Known =>
              members'[new].lifecycle # "Absent" /\ Cardinality(Known) < MaxMembers
    PROVE  MembersTypeOK' /\ IsFiniteSet(Known)'
<1>1. /\ members \in [Members -> MemberRecord]
      /\ \A m \in Members : members[m].lifecycle = "Absent" => members[m] = NoMember
      /\ Cardinality(Known) <= MaxMembers
      /\ IsFiniteSet(Known)
  BY DEF RackInv, MembersInv, MembersTypeOK
<1>2. \A m \in Members : members'[m].lifecycle = "Absent" => members'[m] = NoMember
  BY <1>1 DEF Known
<1>3. Known' = IF new \in Members THEN Known \cup {new} ELSE Known
  BY <1>1 DEF Known
<1>4. /\ IsFiniteSet(Known \cup {new})
      /\ Cardinality(Known \cup {new}) =
           IF new \in Known THEN Cardinality(Known) ELSE Cardinality(Known) + 1
      /\ Cardinality(Known) \in Nat
  BY <1>1, FS_AddElement, FS_CardinalityType
<1>5. IsFiniteSet(Known)' /\ Cardinality(Known)' <= MaxMembers
  BY <1>1, <1>3, <1>4, MemberLimitAssumption
<1> QED
  BY <1>2, <1>5 DEF MembersTypeOK

\* A step that changes no lifecycle to "Absent" or from it, on records that
\* stay records, keeps the type invariant.
LEMMA RecordsInPlace ==
    ASSUME RackInv, gens' \in GenerationSet,
           members' \in [Members -> MemberRecord],
           \A m \in Members :
              /\ members[m].lifecycle = "Absent" => members'[m] = members[m]
              /\ members[m].lifecycle # "Absent" => members'[m].lifecycle # "Absent"
    PROVE  MembersTypeOK' /\ IsFiniteSet(Known)'
<1>1. \E x : x \notin Members
  BY NoSetContainsEverything
<1>2. PICK new : new \notin Members
  BY <1>1
<1> QED
  BY <1>2, RecordsKept

\* A rack the handlers accept a request for is not retired.
LEMMA AcceptedRackIsOpen ==
    ASSUME NEW tok, check_authority(tok, TRUE) \/ check_authority(tok, FALSE)
    PROVE  ~rack.retired
  BY DEF check_authority, RackAccepts

\* The records of an empty instance satisfy the invariant.
THEOREM MembersInitInv == MembersInit => RackInv
<1> SUFFICES ASSUME MembersInit
             PROVE  RackInv
  OBVIOUS
<1>1. AuthorityInv
  BY AuthorityInitInv DEF MembersInit
<1>2. members \in [Members -> MemberRecord] /\ gens \in GenerationSet
  BY GenAssumption DEF MembersInit, NoMember, NoGenerations, MemberRecord, GenerationSet,
                       Lifecycle, Generation
<1>3. Known = {} /\ \A m \in Members : members[m] = NoMember
  BY DEF MembersInit, Known, NoMember
<1>4. Cardinality(Known) <= MaxMembers /\ IsFiniteSet(Known)
  BY <1>3, FS_EmptySet, MemberLimitAssumption
<1> QED
  BY <1>1, <1>2, <1>3, <1>4
  DEF RackInv, MembersInv, MembersTypeOK, RetiredRackHasNoPresentMember, NoMember

\* Every handler keeps the records well formed and within their limit, and
\* leaves none present in a retired rack.
THEOREM MembersStepInv == RackInv /\ [MembersNext]_rackVars => RackInv'
<1> SUFFICES ASSUME RackInv, [MembersNext]_rackVars
             PROVE  RackInv'
  OBVIOUS
<1>1. AuthorityInv'
  BY MembersStepIsAuthorityStep, AuthorityStepInv DEF RackInv
<1>2. /\ members \in [Members -> MemberRecord]
      /\ gens \in GenerationSet
      /\ rack \in RackRecord
      /\ RetiredRackHasNoPresentMember
  BY DEF RackInv, MembersInv, MembersTypeOK, AuthorityInv, AuthorityTypeOK
<1> DEFINE Kept == MembersTypeOK' /\ IsFiniteSet(Known)' /\ RetiredRackHasNoPresentMember'
<1>3. ASSUME UNCHANGED memberVars, rack'.retired => rack.retired
      PROVE  Kept
  <2>1. MembersTypeOK' /\ IsFiniteSet(Known)'
    BY <1>2, <1>3, RecordsInPlace DEF memberVars
  <2> QED BY <1>2, <1>3, <2>1 DEF memberVars, RetiredRackHasNoPresentMember
<1>4. ASSUME NEW e \in Epochs, NEW r \in Racks, NEW w \in Workers, NEW b \in Boots,
             RegisterNew(e, r, w, b), UNCHANGED memberVars
      PROVE  Kept
  BY <1>3, <1>4 DEF RegisterNew
<1>5. ASSUME NEW tok \in RequestToken, NEW inc \in RackEpochs,
             DeclareFirst(tok, inc), UNCHANGED memberVars
      PROVE  Kept
  BY <1>3, <1>5 DEF DeclareFirst
<1>6. ASSUME NEW tok \in RequestToken, NEW inc \in RackEpochs, RedeclareRack(tok, inc)
      PROVE  Kept
  <2>1. members' \in [Members -> MemberRecord]
    BY <1>2, <1>6 DEF RedeclareRack, MemberRecord
  <2>2. \A m \in Members : /\ members[m].lifecycle = "Absent" => members'[m] = members[m]
                           /\ members'[m].lifecycle = members[m].lifecycle
    BY <1>2, <1>6 DEF RedeclareRack, MemberRecord, Known
  <2>3. ~rack'.retired
    BY <1>2, <1>6 DEF RedeclareRack, Redeclare, RackRecord
  <2>4. gens' \in GenerationSet
    BY <1>2, <1>6 DEF RedeclareRack
  <2> QED BY <2>1, <2>2, <2>3, <2>4, RecordsInPlace DEF RetiredRackHasNoPresentMember
<1>7. ASSUME NEW tok \in RequestToken, RetireWholeRack(tok)
      PROVE  Kept
  <2>1. members' \in [Members -> MemberRecord]
    BY <1>2, <1>7 DEF RetireWholeRack, MemberRecord, Lifecycle
  <2>2. \A m \in Members : /\ members[m].lifecycle = "Absent" => members'[m] = members[m]
                           /\ members[m].lifecycle # "Absent" => members'[m].lifecycle # "Absent"
                           /\ members'[m].lifecycle # "Present"
    BY <1>2, <1>7 DEF RetireWholeRack, MemberRecord
  <2>3. gens' \in GenerationSet
    BY <1>2, <1>7 DEF RetireWholeRack
  <2> QED BY <2>1, <2>2, <2>3, RecordsInPlace DEF RetiredRackHasNoPresentMember
<1>8. ASSUME NEW tok \in RequestToken, AcceptMutation(tok)
      PROVE  ~rack'.retired
  BY <1>8, AcceptedRackIsOpen DEF AcceptMutation
<1>9. ASSUME NEW tok \in RequestToken, NEW m \in Members, NEW rec \in RequestRecord,
             NEW v \in VersionRequest, PublishMember(tok, m, rec, v)
      PROVE  Kept
  <2>1. PICK r \in MemberRecord :
              /\ AcceptMutation(tok)
              /\ members' = [members EXCEPT ![m] = r]
              /\ gens' \in GenerationSet
              /\ r.lifecycle # "Absent"
              /\ m \notin Known => Cardinality(Known) < MaxMembers
    BY <1>9, PublishReplaces
  <2>2. members' \in [Members -> MemberRecord]
    BY <1>2, <2>1
  <2>3. MembersTypeOK' /\ IsFiniteSet(Known)'
    BY <1>2, <2>1, <2>2, RecordsKept
  <2> QED BY <1>8, <2>1, <2>3 DEF RetiredRackHasNoPresentMember
<1>10. ASSUME NEW tok \in RequestToken, NEW m \in Members, NEW r \in MemberRecord,
              Edit(tok, m, r)
       PROVE  Kept
  <2>1. members' \in [Members -> MemberRecord]
    BY <1>2, <1>10 DEF Edit
  <2>2. \A x \in Members : /\ members[x].lifecycle = "Absent" => members'[x] = members[x]
                           /\ members[x].lifecycle # "Absent" => members'[x].lifecycle # "Absent"
    BY <1>2, <1>10 DEF Edit, Known
  <2>3. gens' \in GenerationSet /\ ~rack'.retired
    BY <1>8, <1>10 DEF Edit
  <2> QED BY <2>1, <2>2, <2>3, RecordsInPlace DEF RetiredRackHasNoPresentMember
<1>11. ASSUME NEW S \in SUBSET Known, NEW f \in BOOLEAN,
              members' = [m \in Members |-> IF m \in S THEN [Bumped(members[m]) EXCEPT !.reval = f]
                                                       ELSE members[m]],
              gens' \in GenerationSet, rack' = rack
       PROVE  Kept
  <2>1. \A m \in Members : /\ [Bumped(members[m]) EXCEPT !.reval = f] \in MemberRecord
                           /\ [Bumped(members[m]) EXCEPT !.reval = f].lifecycle = members[m].lifecycle
    <3> TAKE m \in Members
    <3>1. members[m] \in MemberRecord /\ "Declared" \in Lifecycle
      BY <1>2 DEF Lifecycle
    <3>2. Bumped(members[m]) \in MemberRecord
          /\ Bumped(members[m]).lifecycle = members[m].lifecycle
      BY <3>1, BumpedRecord
    <3> QED BY <3>2 DEF MemberRecord
  <2>2. members' \in [Members -> MemberRecord]
    BY <1>2, <1>11, <2>1
  <2>3. \A m \in Members : /\ members[m].lifecycle = "Absent" => members'[m] = members[m]
                           /\ members'[m].lifecycle = members[m].lifecycle
    BY <1>2, <1>11, <2>1 DEF Known
  <2> QED BY <1>2, <1>11, <2>2, <2>3, RecordsInPlace DEF RetiredRackHasNoPresentMember
<1>12. ASSUME NEW tok \in RequestToken, NEW targets \in SUBSET Members,
              RevalidateMembers(tok, targets)
       PROVE  Kept
  <2>1. {m \in targets : members[m].reval} \in SUBSET Known
    BY <1>12 DEF RevalidateMembers, BadTarget
  <2>2. gens' \in GenerationSet /\ rack' = rack
    BY <1>2, <1>12, GensRange DEF RevalidateMembers
  <2> QED BY <1>11, <1>12, <2>1, <2>2 DEF RevalidateMembers, Revalidated
<1>13. ASSUME NEW tok \in RequestToken, NEW before \in SUBSET Members, NEW x \in Members,
              RevalidateRejected(tok, before, x)
       PROVE  Kept
  <2>1. before \in SUBSET Known
    BY <1>13 DEF RevalidateRejected, BadTarget
  <2> QED BY <1>2, <1>11, <1>13, <2>1 DEF RevalidateRejected, Revalidated, authorityVars
<1>14. ASSUME NEW e \in Epochs, NEW b \in Boots, FenceOwner(e, b)
       PROVE  Kept
  <2>1. OwnedBy(b) \in SUBSET Known
    BY DEF OwnedBy
  <2>2. gens' \in GenerationSet /\ rack' = rack
    BY <1>2, <1>14, GensRange DEF FenceOwner, FencePublisher
  <2> QED BY <1>11, <1>14, <2>1, <2>2 DEF FenceOwner
<1>15. ASSUME NEW tok \in RequestToken, MutateBy(tok)
       PROVE  Kept
  <2>1. ASSUME NEW m \in Members,
               \/ \E expected \in Generation \cup {None} : PublishHealth(tok, m, expected)
               \/ PublishCapability(tok, m)
               \/ WithdrawScoped(tok, m)
               \/ WithdrawAll(tok, m)
               \/ MarkUnavailable(tok, m)
               \/ RetireMember(tok, m)
        PROVE  Kept
    BY <1>10, <2>1, HandlersEdit
  <2> QED BY <1>9, <1>12, <1>13, <1>15, <2>1 DEF MutateBy
<1>16. ASSUME UNCHANGED rackVars
       PROVE  Kept
  BY <1>3, <1>16 DEF rackVars, authorityVars
<1>17. Kept
  BY <1>4, <1>5, <1>6, <1>7, <1>14, <1>15, <1>16 DEF MembersNext
<1> QED
  BY <1>1, <1>17 DEF RackInv, MembersInv

\* The member records are well formed, within max_members, and none is present
\* in a retired rack, for every interleaving of the handlers.
THEOREM MembersCorrect == MembersSpec => []MembersInv
<1>1. MembersSpec => []RackInv
  BY MembersInitInv, MembersStepInv, PTL DEF MembersSpec
<1> QED
  BY <1>1, PTL DEF RackInv

\* The member handlers add no authority: with their records hidden, they
\* implement Authority.
THEOREM MembersImplementAuthority == MembersSpec => MembersUnderAuthority
<1>1. MembersSpec => []RackInv
  BY MembersInitInv, MembersStepInv, PTL DEF MembersSpec
<1>2. MembersInit => AuthorityInit
  BY DEF MembersInit
<1>3. RackInv /\ [MembersNext]_rackVars => [AuthorityNext]_authorityVars
  BY MembersStepIsAuthorityStep
<1> QED
  BY <1>1, <1>2, <1>3, PTL DEF MembersSpec, AuthoritySpec, MembersUnderAuthority

\* Which records a step of the member handlers may touch, and how.
LEMMA MembersStepShape ==
    ASSUME RackInv, MembersNext
    PROVE  \/ UNCHANGED members
           \/ \E tok \in RequestToken, m \in Members, r \in MemberRecord : Edit(tok, m, r)
           \/ \E tok \in RequestToken, m \in Members, rec \in RequestRecord, v \in VersionRequest :
                 PublishMember(tok, m, rec, v)
           \/ \E tok \in RequestToken, targets \in SUBSET Members : RevalidateMembers(tok, targets)
           \/ \E tok \in RequestToken, before \in SUBSET Members, x \in Members :
                 RevalidateRejected(tok, before, x)
           \/ \E tok \in RequestToken, inc \in RackEpochs : RedeclareRack(tok, inc)
           \/ \E tok \in RequestToken : RetireWholeRack(tok)
           \/ \E e \in Epochs, b \in Boots : FenceOwner(e, b)
<1>1. ASSUME NEW tok \in RequestToken, NEW m \in Members,
             \/ \E expected \in Generation \cup {None} : PublishHealth(tok, m, expected)
             \/ PublishCapability(tok, m)
             \/ WithdrawScoped(tok, m)
             \/ WithdrawAll(tok, m)
             \/ MarkUnavailable(tok, m)
             \/ RetireMember(tok, m)
      PROVE  \E r \in MemberRecord : Edit(tok, m, r)
  BY <1>1, HandlersEdit
<1> QED
  BY <1>1 DEF MembersNext, MutateBy, memberVars

\* A retired identity returns as a declared member or not at all.
THEOREM RetiredIdentityReturns == MembersSpec => RetiredReturnsAsDeclared
<1>1. MembersSpec => []RackInv
  BY MembersInitInv, MembersStepInv, PTL DEF MembersSpec
<1>2. RackInv /\ [MembersNext]_rackVars =>
        [\A m \in Members : members[m].lifecycle = "Retired" =>
            members'[m].lifecycle \in {"Retired", "Declared"}]_rackVars
  <2> SUFFICES ASSUME RackInv, MembersNext, NEW x \in Members, members[x].lifecycle = "Retired"
               PROVE  members'[x].lifecycle \in {"Retired", "Declared"}
    OBVIOUS
  <2> DEFINE Goal == members'[x].lifecycle \in {"Retired", "Declared"}
  <2>0. members \in [Members -> MemberRecord]
    BY DEF RackInv, MembersInv, MembersTypeOK
  <2>1. ASSUME NEW tok \in RequestToken, NEW m \in Members, NEW r \in MemberRecord,
               Edit(tok, m, r)
        PROVE  Goal
    BY <2>0, <2>1 DEF Edit
  <2>2. ASSUME NEW tok \in RequestToken, NEW m \in Members, NEW rec \in RequestRecord,
               NEW v \in VersionRequest, PublishMember(tok, m, rec, v)
        PROVE  Goal
    <3>1. PICK r \in MemberRecord :
             /\ members' = [members EXCEPT ![m] = r]
             /\ members[m].lifecycle = "Retired" => r.lifecycle = "Retired"
      BY <2>2, PublishReplaces
    <3> QED BY <2>0, <3>1
  <2>3. ASSUME NEW S \in SUBSET Members, NEW f \in BOOLEAN,
               members' = [m \in Members |-> IF m \in S
                                             THEN [Bumped(members[m]) EXCEPT !.reval = f]
                                             ELSE members[m]]
        PROVE  Goal
    BY <2>0, <2>3 DEF Bumped, MemberRecord
  <2>4. ASSUME NEW tok \in RequestToken, NEW targets \in SUBSET Members,
               RevalidateMembers(tok, targets)
        PROVE  Goal
    BY <2>3, <2>4 DEF RevalidateMembers, Revalidated
  <2>5. ASSUME NEW tok \in RequestToken, NEW before \in SUBSET Members, NEW y \in Members,
               RevalidateRejected(tok, before, y)
        PROVE  Goal
    BY <2>3, <2>5 DEF RevalidateRejected, Revalidated
  <2>6. ASSUME NEW e \in Epochs, NEW b \in Boots, FenceOwner(e, b)
        PROVE  Goal
    BY <2>3, <2>6 DEF FenceOwner, OwnedBy, Known
  <2>7. ASSUME NEW tok \in RequestToken, NEW inc \in RackEpochs, RedeclareRack(tok, inc)
        PROVE  Goal
    BY <2>0, <2>7 DEF RedeclareRack, MemberRecord
  <2>8. ASSUME NEW tok \in RequestToken, RetireWholeRack(tok)
        PROVE  Goal
    BY <2>0, <2>8 DEF RetireWholeRack
  <2> QED
    BY <2>1, <2>2, <2>4, <2>5, <2>6, <2>7, <2>8, MembersStepShape
<1> QED
  BY <1>1, <1>2, PTL DEF MembersSpec, RetiredReturnsAsDeclared

\* A record's generation identifies its lifecycle and its owner.
THEOREM GenerationIdentifies == MembersSpec => GenerationIdentifiesRecord
<1>1. MembersSpec => []RackInv
  BY MembersInitInv, MembersStepInv, PTL DEF MembersSpec
<1> DEFINE Identified(m) ==
              /\ members'[m].gen >= members[m].gen
              /\ members'[m].lifecycle # "Absent"
              /\ members'[m].gen = members[m].gen /\ rack'.retired = rack.retired
                 => /\ members'[m].lifecycle = members[m].lifecycle
                    /\ members'[m].owner = members[m].owner
<1>2. RackInv /\ [MembersNext]_rackVars => [\A m \in Known : Identified(m)]_rackVars
  <2> SUFFICES ASSUME RackInv, MembersNext, NEW x \in Known
               PROVE  Identified(x)
    OBVIOUS
  <2>0. /\ members \in [Members -> MemberRecord] /\ rack \in RackRecord
        /\ x \in Members /\ members[x].lifecycle # "Absent"
        /\ members[x].gen \in Int
    BY GenAssumption DEF RackInv, MembersInv, MembersTypeOK, AuthorityInv, AuthorityTypeOK, Known,
           MemberRecord, Generation
  <2>1. ASSUME NEW tok \in RequestToken, NEW m \in Members, NEW r \in MemberRecord,
               Edit(tok, m, r)
        PROVE  Identified(x)
    BY <2>0, <2>1 DEF Edit
  <2>2. ASSUME NEW tok \in RequestToken, NEW m \in Members, NEW rec \in RequestRecord,
               NEW v \in VersionRequest, PublishMember(tok, m, rec, v)
        PROVE  Identified(x)
    <3>1. PICK r \in MemberRecord :
             /\ members' = [members EXCEPT ![m] = r]
             /\ r.gen > members[m].gen
             /\ r.lifecycle # "Absent"
      BY <2>2, PublishReplaces
    <3>2. r.gen \in Int
      BY GenAssumption DEF MemberRecord, Generation
    <3> QED BY <2>0, <3>1, <3>2
  <2>3. ASSUME NEW S \in SUBSET Members, NEW f \in BOOLEAN,
               members' = [m \in Members |-> IF m \in S
                                             THEN [Bumped(members[m]) EXCEPT !.reval = f]
                                             ELSE members[m]]
        PROVE  Identified(x)
    <3>1. NextGen(members[x].gen) >= members[x].gen
      BY <2>0, NextGenRange DEF MemberRecord
    <3>2. /\ members'[x].gen \in {members[x].gen, NextGen(members[x].gen)}
          /\ members'[x].lifecycle = members[x].lifecycle
          /\ members'[x].owner = members[x].owner
      BY <2>0, <2>3 DEF Bumped, MemberRecord
    <3> QED BY <2>0, <3>1, <3>2
  <2>4. ASSUME NEW tok \in RequestToken, NEW targets \in SUBSET Members,
               RevalidateMembers(tok, targets)
        PROVE  Identified(x)
    BY <2>3, <2>4 DEF RevalidateMembers, Revalidated
  <2>5. ASSUME NEW tok \in RequestToken, NEW before \in SUBSET Members, NEW y \in Members,
               RevalidateRejected(tok, before, y)
        PROVE  Identified(x)
    BY <2>3, <2>5 DEF RevalidateRejected, Revalidated
  <2>6. ASSUME NEW e \in Epochs, NEW b \in Boots, FenceOwner(e, b)
        PROVE  Identified(x)
    BY <2>3, <2>6 DEF FenceOwner, OwnedBy, Known
  <2>7. ASSUME NEW tok \in RequestToken, NEW inc \in RackEpochs, RedeclareRack(tok, inc)
        PROVE  Identified(x)
    <3>1. members'[x] = [members[x] EXCEPT !.reval = TRUE]
      BY <2>0, <2>7 DEF RedeclareRack
    <3>2. /\ members'[x].gen = members[x].gen
          /\ members'[x].lifecycle = members[x].lifecycle
          /\ members'[x].owner = members[x].owner
      BY <2>0, <3>1 DEF MemberRecord
    <3> QED BY <2>0, <3>2
  <2>8. ASSUME NEW tok \in RequestToken, RetireWholeRack(tok)
        PROVE  Identified(x)
    <3>1. rack'.retired # rack.retired
      BY <2>0, <2>8, AcceptedRackIsOpen DEF RetireWholeRack, RetireRack, RackRecord
    <3>2. members'[x].gen = members[x].gen /\ members'[x].lifecycle # "Absent"
      BY <2>0, <2>8 DEF RetireWholeRack, MemberRecord
    <3> QED BY <2>0, <3>1, <3>2
  <2>9. ASSUME UNCHANGED members
        PROVE  Identified(x)
    BY <2>0, <2>9
  <2> QED
    BY <2>1, <2>2, <2>4, <2>5, <2>6, <2>7, <2>8, <2>9, MembersStepShape
<1> QED
  BY <1>1, <1>2, PTL DEF MembersSpec, GenerationIdentifiesRecord

\* A process whose publication counter moves in an accepted mutation is the one
\* that made it.
LEMMA PublisherIsCaller ==
    ASSUME AuthorityInv, NEW tok \in RequestToken, AcceptMutation(tok),
           NEW b \in Boots, publishers'[b].gen # publishers[b].gen
    PROVE  tok.boot = b
<1>1. publishers \in [Boots -> PublisherRecord]
  BY DEF AuthorityInv, AuthorityTypeOK
<1>2. tok.boot # None => tok.boot \in Boots
  BY DEF RequestToken, AuthorityToken
<1>3. CASE tok.boot = None
  BY <1>3 DEF AcceptMutation, advance_publication
<1>4. CASE tok.boot # None
  <2>1. publishers' = Advanced(publishers, tok.boot)
    BY <1>4 DEF AcceptMutation, advance_publication
  <2> QED BY <1>1, <1>2, <1>4, <2>1, AdvancedRecords
<1> QED
  BY <1>3, <1>4

\* A publishing process leaves the records of other processes as they are, or
\* retires them.
THEOREM OwnersKeepTheirRecords == MembersSpec => OwnershipRespected
<1>1. MembersSpec => []RackInv
  BY MembersInitInv, MembersStepInv, PTL DEF MembersSpec
<1> DEFINE Respected(b, m) ==
              /\ publishers'[b].gen # publishers[b].gen
              /\ rack' = rack
              /\ members[m].owner \notin {b, None}
              => \/ members'[m] = members[m]
                 \/ /\ members[m].lifecycle # "Retired"
                    /\ members'[m] = [Bumped(members[m]) EXCEPT !.lifecycle = "Retired",
                                                                !.reval = FALSE]
<1>2. RackInv /\ [MembersNext]_rackVars =>
        [\A b \in Boots, m \in Members : Respected(b, m)]_rackVars
  <2> SUFFICES ASSUME RackInv, MembersNext, NEW b \in Boots, NEW x \in Members,
                      publishers'[b].gen # publishers[b].gen,
                      rack' = rack,
                      members[x].owner \notin {b, None}
               PROVE  \/ members'[x] = members[x]
                      \/ /\ members[x].lifecycle # "Retired"
                         /\ members'[x] = [Bumped(members[x]) EXCEPT !.lifecycle = "Retired",
                                                                     !.reval = FALSE]
    OBVIOUS
  <2> DEFINE Goal == \/ members'[x] = members[x]
                     \/ /\ members[x].lifecycle # "Retired"
                        /\ members'[x] = [Bumped(members[x]) EXCEPT !.lifecycle = "Retired",
                                                                    !.reval = FALSE]
  <2>0. /\ members \in [Members -> MemberRecord] /\ rack \in RackRecord
        /\ publishers \in [Boots -> PublisherRecord]
        /\ AuthorityInv
    BY DEF RackInv, MembersInv, MembersTypeOK, AuthorityInv, AuthorityTypeOK
  <2>1. x \in Known
    BY DEF RackInv, MembersInv, MembersTypeOK, NoMember, Known
  <2>2. ASSUME NEW tok \in RequestToken, AcceptMutation(tok)
        PROVE  owner_conflict(members[x].owner, tok)
    <3>1. tok.boot = b
      BY <2>0, <2>2, PublisherIsCaller
    <3> QED BY <3>1, NoneAssumption DEF owner_conflict
  <2>3. ASSUME NEW tok \in RequestToken, NEW m \in Members, NEW r \in MemberRecord,
               Edit(tok, m, r)
        PROVE  Goal
    <3>1. CASE m = x
      BY <2>0, <2>2, <2>3, <3>1 DEF Edit
    <3>2. CASE m # x
      BY <2>0, <2>3, <3>2 DEF Edit
    <3> QED BY <3>1, <3>2
  <2>4. ASSUME NEW tok \in RequestToken, NEW m \in Members, NEW rec \in RequestRecord,
               NEW v \in VersionRequest, PublishMember(tok, m, rec, v)
        PROVE  Goal
    <3>1. PICK r \in MemberRecord :
             /\ AcceptMutation(tok)
             /\ members' = [members EXCEPT ![m] = r]
             /\ m \in Known => ~owner_conflict(members[m].owner, tok)
      BY <2>4, PublishReplaces
    <3>2. m # x
      BY <2>1, <2>2, <3>1
    <3> QED BY <2>0, <3>1, <3>2
  <2>5. ASSUME NEW tok \in RequestToken, NEW targets \in SUBSET Members,
               RevalidateMembers(tok, targets)
        PROVE  Goal
    <3>1. AcceptMutation(tok)
      BY <2>5 DEF RevalidateMembers, AcceptMutation
    <3>2. x \notin targets
      BY <2>2, <2>5, <3>1 DEF RevalidateMembers, BadTarget
    <3> QED BY <2>5, <3>2 DEF RevalidateMembers, Revalidated
  <2>6. ASSUME NEW tok \in RequestToken, NEW before \in SUBSET Members, NEW y \in Members,
               RevalidateRejected(tok, before, y)
        PROVE  Goal
    BY <2>6 DEF RevalidateRejected, authorityVars
  <2>7. ASSUME NEW tok \in RequestToken, NEW inc \in RackEpochs, RedeclareRack(tok, inc)
        PROVE  Goal
    BY <2>7 DEF RedeclareRack, Redeclare
  <2>8. ASSUME NEW tok \in RequestToken, RetireWholeRack(tok)
        PROVE  Goal
    BY <2>0, <2>8, AcceptedRackIsOpen DEF RetireWholeRack, RetireRack, RackRecord
  <2>9. ASSUME NEW e \in Epochs, NEW y \in Boots, FenceOwner(e, y)
        PROVE  Goal
    BY <2>0, <2>9 DEF FenceOwner, FencePublisher, MarkFenced, PublisherRecord
  <2>10. ASSUME UNCHANGED members
         PROVE  Goal
    BY <2>10
  <2> QED
    BY <2>3, <2>4, <2>5, <2>6, <2>7, <2>8, <2>9, <2>10, MembersStepShape
<1> QED
  BY <1>1, <1>2, PTL DEF MembersSpec, OwnershipRespected
=============================================================================
