--------------------------- MODULE ReadinessProofs ---------------------------
(***************************************************************************)
(* Theorems about Readiness, for every set of processes, members and       *)
(* contracts and every time-to-live.                                       *)
(*                                                                         *)
(* The properties speak of evidence that is current; what is preserved     *)
(* from step to step is about evidence that is there and not flagged,      *)
(* whatever its age: who stands behind it, and that a retired member and a *)
(* key without a record have none.  That health is always an ephemeral     *)
(* observation, never dated ahead, is what lets fencing reach all of it.   *)
(***************************************************************************)
EXTENDS Readiness, FiniteSetTheorems, TLAPS

LiveBoots == {b \in Boots : Live(b)}

\* A member record by itself.
RecordOK(rec) ==
    /\ rec \in MemberRecord
    /\ rec.lifecycle = "Absent" => rec = NoMember
    /\ rec.lifecycle = "Retired" => ~has_evidence(rec.ev)
    /\ has_evidence(rec.health.ev) => ~rec.health.ev.durable
    /\ rec.health.ev.age >= 0

\* What stands unflagged on a member record is backed by its owner, when it has
\* one: a live process, or one whose record the operator has vouched for.
Backed(rec, live, isVouched) ==
    rec.owner # None =>
        /\ has_evidence(rec.ev) /\ ~rec.ev.reval => rec.owner \in live \/ isVouched
        /\ has_evidence(rec.health.ev) /\ rec.health.by = rec.owner /\ ~rec.health.ev.reval
             => rec.owner \in live

\* The same for the other records, when they are ephemeral.
StructureBacked(rec, live) ==
    rec.owner # None /\ ~rec.durable /\ ~rec.reval => rec.owner \in live

EnvelopeBacked(rec, live) ==
    rec.owner # None /\ ~rec.ev.durable /\ ~rec.ev.reval => rec.owner \in live

\* The inductive invariant.
ReadinessIndInv ==
    /\ phase \in [Boots -> {"unknown", "registered", "active", "dead"}]
    /\ members \in [Members -> MemberRecord]
    /\ structure \in [Structures -> StructureRecord]
    /\ envelopes \in [Envelopes -> EnvelopeRecord]
    /\ vouched \subseteq Members
    /\ IsFiniteSet(Known)
    /\ \A m \in Members : RecordOK(members[m]) /\ Backed(members[m], LiveBoots, m \in vouched)
    /\ \A s \in Structures : StructureBacked(structure[s], LiveBoots)
    /\ \A e \in Envelopes : EnvelopeBacked(envelopes[e], LiveBoots)

-----------------------------------------------------------------------------
(* Evidence *)

\* What freshness_at makes of a value: current evidence is unflagged, there, and
\* without expiry or within its lifetime.
LEMMA CurrentMeans ==
    ASSUME NEW ev \in EvidenceValue
    PROVE  is_current(ev) <=>
             /\ ~ev.reval /\ has_evidence(ev)
             /\ \/ ev.durable /\ ev.ttl = 0
                \/ ev.ttl # 0 /\ ev.age \in 0..ev.ttl
  BY DEF is_current, freshness_at, EvidenceValue, has_evidence

\* The default value and the cleared one are evidence values that say nothing.
LEMMA ClearedSaysNothing ==
    /\ NoEvidence \in EvidenceValue /\ ~has_evidence(NoEvidence) /\ NoEvidence.age = 0
    /\ Aged(NoEvidence) = NoEvidence
    /\ \A ev \in EvidenceValue :
          Cleared(ev) \in EvidenceValue /\ ~has_evidence(Cleared(ev)) /\ Cleared(ev).age = 0
<1>1. NoEvidence \in EvidenceValue /\ ~has_evidence(NoEvidence) /\ NoEvidence.age = 0
  BY TtlAssumption DEF NoEvidence, EvidenceValue, Ages, Provenance, has_evidence
<1>2. Aged(NoEvidence) = NoEvidence
  BY <1>1 DEF Aged
<1>3. ASSUME NEW ev \in EvidenceValue
      PROVE  Cleared(ev) \in EvidenceValue /\ ~has_evidence(Cleared(ev)) /\ Cleared(ev).age = 0
  <2>1. ev.durable \in BOOLEAN
    BY DEF EvidenceValue
  <2>2. Cleared(ev) \in EvidenceValue
    BY <1>1, <2>1 DEF Cleared, EvidenceValue
  <2>3. Cleared(ev).prov = "Unknown" /\ Cleared(ev).age = 0
    BY DEF Cleared, NoEvidence
  <2> QED BY <2>2, <2>3 DEF has_evidence
<1> QED BY <1>1, <1>2, <1>3

\* A tick changes the age alone, and evidence not dated ahead is current after it
\* only if it was before.
LEMMA AgedIsOlder ==
    ASSUME NEW ev \in EvidenceValue
    PROVE  /\ Aged(ev) \in EvidenceValue
           /\ Aged(ev).prov = ev.prov /\ Aged(ev).durable = ev.durable
           /\ Aged(ev).reval = ev.reval /\ Aged(ev).ttl = ev.ttl
           /\ ev.age >= 0 => Aged(ev).age >= 0
           /\ ev.age >= 0 /\ is_current(Aged(ev)) => is_current(ev)
<1>1. /\ Aged(ev) \in EvidenceValue
      /\ Aged(ev).prov = ev.prov /\ Aged(ev).durable = ev.durable
      /\ Aged(ev).reval = ev.reval /\ Aged(ev).ttl = ev.ttl
      /\ Aged(ev).age \in {ev.age, ev.age + 1}
      /\ ev.age \in Int
  BY TtlAssumption DEF Aged, EvidenceValue, Ages, has_evidence
<1>2. ev.age >= 0 /\ is_current(Aged(ev)) => is_current(ev)
  BY <1>1, CurrentMeans, TtlAssumption DEF EvidenceValue, has_evidence
<1> QED BY <1>1, <1>2

-----------------------------------------------------------------------------
(* Records *)

\* The records of keys that have none.
LEMMA NothingRecorded ==
    /\ RecordOK(NoMember) /\ NoStructure \in StructureRecord /\ NoEnvelope \in EnvelopeRecord
    /\ NoHealth \in HealthEvidence /\ ~has_evidence(NoHealth.ev) /\ NoHealth.ev.age = 0
    /\ NoMember.owner = None /\ NoStructure.owner = None /\ NoEnvelope.owner = None
  BY ClearedSaysNothing
  DEF RecordOK, NoMember, NoStructure, NoEnvelope, NoHealth, HealthEvidence, MemberRecord,
      StructureRecord, EnvelopeRecord, Owner

\* The fields of a member record.
LEMMA RecordFields ==
    ASSUME NEW rec \in MemberRecord
    PROVE  /\ rec = [lifecycle |-> rec.lifecycle, owner |-> rec.owner, ev |-> rec.ev,
                     health |-> rec.health]
           /\ rec.owner \in Owner /\ rec.ev \in EvidenceValue
           /\ rec.health \in HealthEvidence /\ rec.health.ev \in EvidenceValue
           /\ rec.health.by \in Owner
           /\ rec.ev.reval \in BOOLEAN /\ rec.ev.durable \in BOOLEAN
           /\ rec.health.ev.reval \in BOOLEAN /\ rec.health.ev.durable \in BOOLEAN
  BY DEF MemberRecord, HealthEvidence, EvidenceValue

\* A flag changes nothing else of an evidence value.
LEMMA Flagged ==
    ASSUME NEW ev \in EvidenceValue, NEW flag \in BOOLEAN
    PROVE  LET new == [ev EXCEPT !.reval = flag] IN
           /\ new \in EvidenceValue /\ new.reval = flag
           /\ new.prov = ev.prov /\ new.age = ev.age /\ new.durable = ev.durable
  BY DEF EvidenceValue

\* Fencing the owner of a record flags all it says.
LEMMA FencedRecord ==
    ASSUME NEW rec, RecordOK(rec), rec.lifecycle # "Absent"
    PROVE  LET new == fence_member_evidence(rec) IN
           /\ RecordOK(new)
           /\ new.lifecycle = rec.lifecycle
           /\ \A live, isVouched : Backed(new, live, isVouched)
<1> DEFINE new == fence_member_evidence(rec)
           h == FenceHealth(rec.health)
<1>0. rec \in MemberRecord
  BY DEF RecordOK
<1>1. /\ h \in HealthEvidence /\ h.by = rec.health.by
      /\ h.ev.prov = rec.health.ev.prov /\ h.ev.age = rec.health.ev.age
      /\ h.ev.durable = rec.health.ev.durable
      /\ has_evidence(h.ev) => h.ev.reval
  <2>1. CASE has_evidence(rec.health.ev)
    <3> DEFINE ev == [rec.health.ev EXCEPT !.reval = TRUE]
    <3>1. h = [rec.health EXCEPT !.ev = ev]
      BY <1>0, <2>1, RecordFields DEF RecordOK, FenceHealth, HealthEvidence
    <3>2. /\ ev \in EvidenceValue /\ ev.reval = TRUE
          /\ ev.prov = rec.health.ev.prov /\ ev.age = rec.health.ev.age
          /\ ev.durable = rec.health.ev.durable
      BY <1>0, RecordFields, Flagged
    <3> HIDE DEF ev, h
    <3>3. h \in HealthEvidence /\ h.ev = ev /\ h.by = rec.health.by
      BY <1>0, <3>1, <3>2, RecordFields DEF HealthEvidence
    <3> QED BY <3>2, <3>3
  <2>2. CASE ~has_evidence(rec.health.ev)
    BY <1>0, <2>2, RecordFields DEF FenceHealth
  <2> QED BY <2>1, <2>2
<1>2. /\ new = [rec EXCEPT !.ev = [rec.ev EXCEPT !.reval = TRUE], !.health = h]
      /\ new.lifecycle = rec.lifecycle /\ new.owner = rec.owner
      /\ new.ev = [rec.ev EXCEPT !.reval = TRUE] /\ new.health = h
  BY <1>0 DEF fence_member_evidence, MemberRecord
<1> HIDE DEF new, h
<1>3. [rec.ev EXCEPT !.reval = TRUE] \in EvidenceValue
  BY <1>0, RecordFields, Flagged
<1>4. new \in MemberRecord
  BY <1>0, <1>1, <1>2, <1>3 DEF MemberRecord
<1>5. new.ev.reval = TRUE /\ new.ev.prov = rec.ev.prov
  BY <1>0, <1>2, RecordFields, Flagged
<1>6. RecordOK(new)
  BY <1>1, <1>2, <1>4, <1>5 DEF RecordOK, has_evidence
<1>7. \A live, isVouched : Backed(new, live, isVouched)
  BY <1>1, <1>2, <1>5 DEF Backed
<1> QED BY <1>2, <1>6, <1>7 DEF new

\* Recovery forgets the owner, and with him whatever had to be backed.
LEMMA RecoveredRecord ==
    ASSUME NEW rec, RecordOK(rec), rec.lifecycle # "Absent"
    PROVE  LET new == RecoveredMember(rec) IN
           /\ RecordOK(new)
           /\ new.lifecycle = rec.lifecycle
           /\ \A live, isVouched : Backed(new, live, isVouched)
<1> DEFINE new == RecoveredMember(rec)
           flag == rec.ev.reval \/ ~rec.ev.durable \/ rec.owner # None
           h == IF rec.health.ev.durable THEN rec.health ELSE NoHealth
<1>0. rec \in MemberRecord
  BY DEF RecordOK
<1>1. /\ new = [rec EXCEPT !.owner = None, !.ev = [rec.ev EXCEPT !.reval = flag], !.health = h]
      /\ new.lifecycle = rec.lifecycle /\ new.owner = None
      /\ new.ev = [rec.ev EXCEPT !.reval = flag] /\ new.health = h
  BY <1>0 DEF RecoveredMember, MemberRecord
<1>2. /\ h \in HealthEvidence /\ h.ev.age >= 0
      /\ has_evidence(h.ev) => ~h.ev.durable
  BY <1>0, RecordFields, NothingRecorded DEF RecordOK
<1>3. flag \in BOOLEAN
  OBVIOUS
<1> HIDE DEF new, h, flag
<1>4. /\ [rec.ev EXCEPT !.reval = flag] \in EvidenceValue
      /\ [rec.ev EXCEPT !.reval = flag].prov = rec.ev.prov
  BY <1>0, <1>3, RecordFields, Flagged
<1>5. new \in MemberRecord
  BY <1>0, <1>1, <1>2, <1>4 DEF MemberRecord, Owner
<1>6. RecordOK(new)
  BY <1>1, <1>2, <1>4, <1>5 DEF RecordOK, has_evidence
<1> QED BY <1>1, <1>6 DEF Backed, new

\* A tick leaves a record as it is but for the ages.
LEMMA OlderRecord ==
    ASSUME NEW rec, RecordOK(rec)
    PROVE  LET new == [rec EXCEPT !.ev = Aged(@), !.health.ev = Aged(@)] IN
           /\ RecordOK(new)
           /\ new.lifecycle = rec.lifecycle /\ new.owner = rec.owner
           /\ new.ev = Aged(rec.ev) /\ new.health.ev = Aged(rec.health.ev)
           /\ new.health.by = rec.health.by /\ new.health.positive = rec.health.positive
<1> DEFINE new == [rec EXCEPT !.ev = Aged(@), !.health.ev = Aged(@)]
           h == [rec.health EXCEPT !.ev = Aged(@)]
<1>0. rec \in MemberRecord
  BY DEF RecordOK
<1>1. /\ new = [rec EXCEPT !.ev = Aged(rec.ev), !.health = h]
      /\ new.lifecycle = rec.lifecycle /\ new.owner = rec.owner
      /\ new.ev = Aged(rec.ev) /\ new.health = h
  BY <1>0 DEF MemberRecord
<1>2. /\ h \in HealthEvidence /\ h.ev = Aged(rec.health.ev)
      /\ h.by = rec.health.by /\ h.positive = rec.health.positive
  BY <1>0, RecordFields, AgedIsOlder DEF HealthEvidence
<1> HIDE DEF new, h
<1>3. new \in MemberRecord
  BY <1>0, <1>1, <1>2, RecordFields, AgedIsOlder DEF MemberRecord
<1>4. rec.lifecycle = "Absent" => new = NoMember
  <2> SUFFICES ASSUME rec.lifecycle = "Absent"
               PROVE  new = NoMember
    OBVIOUS
  <2>1. rec = NoMember
    BY DEF RecordOK
  <2>2. h = NoHealth
    <3>1. /\ h.ev = NoEvidence /\ h.by = None /\ h.positive = FALSE
      BY <1>2, <2>1, ClearedSaysNothing DEF NoMember, NoHealth
    <3>2. h = [ev |-> h.ev, positive |-> h.positive, by |-> h.by]
      BY <1>2 DEF HealthEvidence
    <3> QED BY <3>1, <3>2 DEF NoHealth
  <2>3. new = [lifecycle |-> new.lifecycle, owner |-> new.owner, ev |-> new.ev,
               health |-> new.health]
    BY <1>3, RecordFields
  <2>4. new.lifecycle = "Absent" /\ new.owner = None /\ new.ev = NoEvidence
    BY <1>1, <2>1, ClearedSaysNothing DEF NoMember
  <2> QED BY <1>1, <2>2, <2>3, <2>4 DEF NoMember
<1>5. /\ Aged(rec.ev).prov = rec.ev.prov
      /\ Aged(rec.health.ev).prov = rec.health.ev.prov
      /\ Aged(rec.health.ev).durable = rec.health.ev.durable
      /\ rec.health.ev.age >= 0 => Aged(rec.health.ev).age >= 0
  BY <1>0, RecordFields, AgedIsOlder
<1>6. RecordOK(new)
  BY <1>1, <1>2, <1>3, <1>4, <1>5 DEF RecordOK, has_evidence
<1> QED BY <1>1, <1>2, <1>6 DEF new

-----------------------------------------------------------------------------
(* Steps *)

\* A mutation makes its process active, which changes nothing in who is live.
LEMMA TokenKeepsLive ==
    ASSUME ReadinessIndInv, NEW tok \in Token, advance_publication(tok)
    PROVE  /\ phase' \in [Boots -> {"unknown", "registered", "active", "dead"}]
           /\ LiveBoots' = LiveBoots
<1>1. phase' \in [Boots -> {"unknown", "registered", "active", "dead"}]
  BY DEF ReadinessIndInv, advance_publication
<1>2. \A b \in Boots : phase'[b] \in {"registered", "active"}
                        <=> phase[b] \in {"registered", "active"}
  BY ReadinessAssumption DEF advance_publication, Token, Live
<1> QED BY <1>1, <1>2 DEF LiveBoots, Live

\* The steps that change one member record.
LEMMA ChangedMember ==
    ASSUME ReadinessIndInv, NEW tok \in Token, NEW m \in Members, NEW rec,
           ChangeMember(tok, m, rec), RecordOK(rec),
           Backed(rec, LiveBoots, m \in vouched'),
           vouched' \subseteq Members,
           \A n \in Members : n # m /\ n \in vouched => n \in vouched'
    PROVE  ReadinessIndInv'
<1>1. /\ phase' \in [Boots -> {"unknown", "registered", "active", "dead"}]
      /\ LiveBoots' = LiveBoots
  BY TokenKeepsLive DEF ChangeMember
<1>2. members' = [members EXCEPT ![m] = rec] /\ structure' = structure /\ envelopes' = envelopes
  BY DEF ChangeMember
<1>3. members' \in [Members -> MemberRecord]
  BY <1>2 DEF ReadinessIndInv, RecordOK
<1>4. IsFiniteSet(Known')
  <2>1. IsFiniteSet(Known \cup {m})
    BY FS_AddElement DEF ReadinessIndInv
  <2>2. Known' \subseteq Known \cup {m}
    BY <1>2 DEF Known, ReadinessIndInv
  <2> QED BY <2>1, <2>2, FS_Subset
<1>5. ASSUME NEW n \in Members
      PROVE  RecordOK(members'[n]) /\ Backed(members'[n], LiveBoots', n \in vouched')
  <2>1. CASE n = m
    BY <1>1, <1>2, <2>1 DEF ReadinessIndInv
  <2>2. CASE n # m
    <3>1. members'[n] = members[n]
      BY <1>2, <2>2 DEF ReadinessIndInv
    <3>2. RecordOK(members[n]) /\ Backed(members[n], LiveBoots, n \in vouched)
      BY DEF ReadinessIndInv
    <3>3. n \in vouched => n \in vouched'
      BY <2>2
    <3>4. Backed(members[n], LiveBoots, n \in vouched')
      BY <3>2, <3>3 DEF Backed
    <3> QED BY <1>1, <3>1, <3>2, <3>4
  <2> QED BY <2>1, <2>2
<1>6. /\ structure' \in [Structures -> StructureRecord]
      /\ envelopes' \in [Envelopes -> EnvelopeRecord]
      /\ \A s \in Structures : StructureBacked(structure'[s], LiveBoots')
      /\ \A e \in Envelopes : EnvelopeBacked(envelopes'[e], LiveBoots')
  BY <1>1, <1>2 DEF ReadinessIndInv
<1> QED BY <1>1, <1>3, <1>4, <1>5, <1>6 DEF ReadinessIndInv

\* Evidence a request carries is well formed; of health it is an observation, and
\* an ephemeral one.
LEMMA RequestsAreEvidence ==
    /\ RequestEvidence \subseteq EvidenceValue
    /\ \A ev \in RequestObservation :
          ev \in EvidenceValue /\ has_evidence(ev) /\ ~ev.durable /\ ~ev.reval /\ ev.age = 0
<1>1. \A a \in {-1, 0} :
         [prov |-> "Physical", age |-> a, ttl |-> Ttl, durable |-> FALSE, reval |-> FALSE]
            \in EvidenceValue
  BY TtlAssumption DEF EvidenceValue, Ages, Provenance
<1>2. [prov |-> "Synthetic", age |-> 0, ttl |-> 0, durable |-> TRUE, reval |-> FALSE]
        \in EvidenceValue
  BY TtlAssumption DEF EvidenceValue, Ages, Provenance
<1>3. RequestEvidence \subseteq EvidenceValue
  BY <1>1, <1>2, ClearedSaysNothing DEF RequestEvidence
<1>4. ASSUME NEW ev \in RequestObservation
      PROVE  ev \in EvidenceValue /\ has_evidence(ev) /\ ~ev.durable /\ ~ev.reval /\ ev.age = 0
  <2>1. ev = [prov |-> "Physical", age |-> 0, ttl |-> Ttl, durable |-> FALSE, reval |-> FALSE]
    BY DEF RequestObservation
  <2>2. ev \in EvidenceValue
    BY <1>1, <2>1
  <2>3. ev.prov = "Physical" /\ ev.age = 0 /\ ev.durable = FALSE /\ ev.reval = FALSE
    BY <2>1
  <2> QED BY <2>2, <2>3 DEF has_evidence
<1> QED BY <1>3, <1>4

\* Whoever may change a record, when that is a process, is its owner or there is none.
LEMMA ChangerOwns ==
    ASSUME ReadinessIndInv, NEW tok \in Token, NEW owner, ~owner_conflict(owner, tok),
           owner # None, tok # None
    PROVE  owner = tok /\ owner \in LiveBoots
  BY DEF owner_conflict, Token, LiveBoots

\* The handlers on members preserve the invariant.
LEMMA MemberHandlers ==
    ASSUME ReadinessIndInv, NEW tok \in Token, NEW m \in Members,
           \/ \E lc \in {"Declared", "Present", "Retired"}, ev \in RequestEvidence :
                 PublishMember(tok, m, lc, ev)
           \/ \E ev \in RequestObservation, positive \in BOOLEAN :
                 PublishHealth(tok, m, ev, positive)
           \/ WithdrawAll(tok, m)
           \/ WithdrawHealth(tok, m)
           \/ MarkUnavailable(tok, m)
           \/ RetireMember(tok, m)
           \/ RevalidateMember(tok, m)
    PROVE  ReadinessIndInv'
<1> DEFINE old == members[m]
<1>0. /\ RecordOK(old) /\ old \in MemberRecord /\ vouched \subseteq Members
      /\ Backed(old, LiveBoots, m \in vouched)
      /\ tok \in Owner /\ (tok # None => tok \in LiveBoots)
      /\ m \in Known <=> old.lifecycle # "Absent"
  BY DEF ReadinessIndInv, RecordOK, Token, Owner, LiveBoots, Known
<1> HIDE DEF old
<1>1. ASSUME NEW lc \in {"Declared", "Present", "Retired"}, NEW ev \in RequestEvidence,
             PublishMember(tok, m, lc, ev)
      PROVE  ReadinessIndInv'
  <2> DEFINE new == [lifecycle |-> lc, owner |-> tok, health |-> NoHealth,
                     ev |-> IF lc = "Retired" THEN Cleared(ev) ELSE ev]
  <2>1. ChangeMember(tok, m, new) /\ vouched' = vouched \ {m}
    BY <1>1 DEF PublishMember
  <2>2. new.ev \in EvidenceValue /\ (lc = "Retired" => ~has_evidence(new.ev))
    BY RequestsAreEvidence, ClearedSaysNothing
  <2>3. new \in MemberRecord
    BY <1>0, <2>2, NothingRecorded DEF MemberRecord
  <2>4. RecordOK(new)
    BY <2>2, <2>3, NothingRecorded DEF RecordOK
  <2>5. Backed(new, LiveBoots, m \in vouched')
    BY <1>0, NothingRecorded DEF Backed
  <2> HIDE DEF new
  <2> QED BY <1>0, <2>1, <2>4, <2>5, ChangedMember
<1>2. ASSUME NEW ev \in RequestObservation, NEW positive \in BOOLEAN,
             PublishHealth(tok, m, ev, positive)
      PROVE  ReadinessIndInv'
  <2> DEFINE h == [ev |-> ev, positive |-> positive, by |-> tok]
             new == [old EXCEPT !.health = h]
  <2>1. /\ ev \in EvidenceValue /\ has_evidence(ev) /\ ~ev.durable /\ ev.age = 0
        /\ h \in HealthEvidence
    BY <1>0, RequestsAreEvidence DEF HealthEvidence
  <2>2. /\ ChangeMember(tok, m, new) /\ vouched' = vouched
        /\ old.lifecycle # "Absent" /\ ~owner_conflict(old.owner, tok)
    BY <1>0, <1>2, <2>1 DEF PublishHealth, MayChange, old
  <2>3. /\ new \in MemberRecord /\ new.lifecycle = old.lifecycle /\ new.owner = old.owner
        /\ new.ev = old.ev /\ new.health = h
    BY <1>0, <2>1 DEF MemberRecord
  <2>4. h.ev = ev /\ h.by = tok
    OBVIOUS
  <2> HIDE DEF new, h
  <2>5. RecordOK(new)
    BY <1>0, <2>1, <2>2, <2>3, <2>4 DEF RecordOK
  <2>6. Backed(new, LiveBoots, m \in vouched')
    BY <1>0, <2>2, <2>3, <2>4 DEF Backed
  <2> QED BY <1>0, <2>2, <2>5, <2>6, ChangedMember
<1>3. CASE WithdrawAll(tok, m)
  <2> DEFINE new == [old EXCEPT !.lifecycle = "Declared", !.health = NoHealth,
                                !.ev = Cleared(@)]
  <2>1. ChangeMember(tok, m, new) /\ vouched' = vouched
    BY <1>3 DEF WithdrawAll, old
  <2>2. Cleared(old.ev) \in EvidenceValue /\ ~has_evidence(Cleared(old.ev))
    BY <1>0, RecordFields, ClearedSaysNothing
  <2>3. /\ new \in MemberRecord /\ new.lifecycle = "Declared" /\ new.owner = old.owner
        /\ new.ev = Cleared(old.ev) /\ new.health = NoHealth
    BY <1>0, <2>2, NothingRecorded DEF MemberRecord
  <2> HIDE DEF new
  <2>4. RecordOK(new) /\ Backed(new, LiveBoots, m \in vouched')
    BY <2>2, <2>3, NothingRecorded DEF RecordOK, Backed
  <2> QED BY <1>0, <2>1, <2>4, ChangedMember
<1>4. CASE WithdrawHealth(tok, m)
  <2> DEFINE new == [old EXCEPT !.health = NoHealth]
  <2>1. ChangeMember(tok, m, new) /\ vouched' = vouched /\ old.lifecycle # "Absent"
    BY <1>0, <1>4 DEF WithdrawHealth, MayChange, old
  <2>2. /\ new \in MemberRecord /\ new.lifecycle = old.lifecycle /\ new.owner = old.owner
        /\ new.ev = old.ev /\ new.health = NoHealth
    BY <1>0, NothingRecorded DEF MemberRecord
  <2> HIDE DEF new
  <2>3. RecordOK(new) /\ Backed(new, LiveBoots, m \in vouched')
    BY <1>0, <2>1, <2>2, NothingRecorded DEF RecordOK, Backed
  <2> QED BY <1>0, <2>1, <2>3, ChangedMember
<1>5. CASE MarkUnavailable(tok, m)
  <2> DEFINE ev == [old.ev EXCEPT !.reval = TRUE]
             new == [old EXCEPT !.lifecycle = "Unavailable", !.ev.reval = TRUE]
  <2>1. ChangeMember(tok, m, new) /\ vouched' = vouched
    BY <1>5 DEF MarkUnavailable, old
  <2>2. ev \in EvidenceValue /\ ev.reval = TRUE
    BY <1>0, RecordFields, Flagged
  <2>3. /\ new = [old EXCEPT !.lifecycle = "Unavailable", !.ev = ev]
        /\ new.lifecycle = "Unavailable" /\ new.owner = old.owner
        /\ new.ev = ev /\ new.health = old.health
    BY <1>0 DEF MemberRecord
  <2> HIDE DEF new, ev
  <2>4. new \in MemberRecord
    BY <1>0, <2>2, <2>3 DEF MemberRecord
  <2>5. RecordOK(new) /\ Backed(new, LiveBoots, m \in vouched')
    BY <1>0, <2>1, <2>2, <2>3, <2>4 DEF RecordOK, Backed
  <2> QED BY <1>0, <2>1, <2>5, ChangedMember
<1>6. CASE RetireMember(tok, m)
  <2> DEFINE new == [old EXCEPT !.lifecycle = "Retired", !.health = NoHealth,
                                !.ev = Cleared(@)]
  <2>1. ChangeMember(tok, m, new) /\ vouched' = vouched
    BY <1>6 DEF RetireMember, old
  <2>2. Cleared(old.ev) \in EvidenceValue /\ ~has_evidence(Cleared(old.ev))
    BY <1>0, RecordFields, ClearedSaysNothing
  <2>3. /\ new \in MemberRecord /\ new.lifecycle = "Retired" /\ new.owner = old.owner
        /\ new.ev = Cleared(old.ev) /\ new.health = NoHealth
    BY <1>0, <2>2, NothingRecorded DEF MemberRecord
  <2> HIDE DEF new
  <2>4. RecordOK(new) /\ Backed(new, LiveBoots, m \in vouched')
    BY <2>2, <2>3, NothingRecorded DEF RecordOK, Backed
  <2> QED BY <1>0, <2>1, <2>4, ChangedMember
<1>7. CASE RevalidateMember(tok, m)
  <2> DEFINE ev == [old.ev EXCEPT !.reval = FALSE]
             new == [old EXCEPT !.ev.reval = FALSE]
  <2>1. /\ ChangeMember(tok, m, new) /\ old.lifecycle # "Absent"
        /\ ~owner_conflict(old.owner, tok)
        /\ vouched' = IF tok = None THEN vouched \cup {m} ELSE vouched
    BY <1>0, <1>7 DEF RevalidateMember, MayChange, old
  <2>2. ev \in EvidenceValue /\ ev.prov = old.ev.prov
    BY <1>0, RecordFields, Flagged
  <2>3. /\ new = [old EXCEPT !.ev = ev]
        /\ new.lifecycle = old.lifecycle /\ new.owner = old.owner
        /\ new.ev = ev /\ new.health = old.health
    BY <1>0 DEF MemberRecord
  <2> HIDE DEF new, ev
  <2>4. new \in MemberRecord
    BY <1>0, <2>2, <2>3 DEF MemberRecord
  <2>5. RecordOK(new)
    BY <1>0, <2>1, <2>2, <2>3, <2>4 DEF RecordOK, has_evidence
  <2>6. old.owner # None => old.owner \in LiveBoots \/ m \in vouched'
    BY <2>1, ChangerOwns
  <2>7. Backed(new, LiveBoots, m \in vouched')
    BY <1>0, <2>3, <2>6 DEF Backed
  <2> QED BY <1>0, <2>1, <2>5, <2>7, ChangedMember
<1> QED BY <1>1, <1>2, <1>3, <1>4, <1>5, <1>6, <1>7

\* The handlers on the other records preserve the invariant.
LEMMA OtherHandlers ==
    ASSUME ReadinessIndInv, NEW tok \in Token,
           \/ \E s \in Structures, durable \in BOOLEAN : PublishStructure(tok, s, durable)
           \/ WithdrawRelationship(tok)
           \/ \E e \in Envelopes, ev \in RequestObservation : PublishEnvelope(tok, e, ev)
    PROVE  ReadinessIndInv'
<1>0. tok \in Owner /\ (tok # None => tok \in LiveBoots)
  BY DEF Token, Owner, LiveBoots
<1>1. ASSUME NEW s \in Structures, NEW rec \in StructureRecord,
             StructureBacked(rec, LiveBoots),
             structure' = [structure EXCEPT ![s] = rec],
             advance_publication(tok), UNCHANGED <<members, envelopes, vouched>>
      PROVE  ReadinessIndInv'
  <2>1. /\ phase' \in [Boots -> {"unknown", "registered", "active", "dead"}]
        /\ LiveBoots' = LiveBoots
    BY <1>1, TokenKeepsLive
  <2>2. structure' \in [Structures -> StructureRecord]
    BY <1>1 DEF ReadinessIndInv
  <2>3. \A t \in Structures : StructureBacked(structure'[t], LiveBoots')
    BY <1>1, <2>1 DEF ReadinessIndInv
  <2>4. Known' = Known
    BY <1>1 DEF Known
  <2> QED BY <1>1, <2>1, <2>2, <2>3, <2>4 DEF ReadinessIndInv
<1>2. ASSUME NEW s \in Structures, NEW durable \in BOOLEAN, PublishStructure(tok, s, durable)
      PROVE  ReadinessIndInv'
  <2> DEFINE rec == [known |-> TRUE, owner |-> tok, durable |-> durable, reval |-> FALSE]
  <2>1. /\ structure' = [structure EXCEPT ![s] = rec]
        /\ advance_publication(tok) /\ UNCHANGED <<members, envelopes, vouched>>
    BY <1>2 DEF PublishStructure
  <2>2. rec \in StructureRecord /\ StructureBacked(rec, LiveBoots)
    BY <1>0 DEF StructureRecord, StructureBacked
  <2> HIDE DEF rec
  <2> QED BY <1>1, <2>1, <2>2
<1>3. CASE WithdrawRelationship(tok)
  <2>1. NoStructure \in StructureRecord /\ StructureBacked(NoStructure, LiveBoots)
    BY NothingRecorded DEF StructureBacked
  <2> QED BY <1>1, <1>3, <2>1 DEF WithdrawRelationship
<1>4. ASSUME NEW e \in Envelopes, NEW ev \in RequestObservation, PublishEnvelope(tok, e, ev)
      PROVE  ReadinessIndInv'
  <2> DEFINE rec == [known |-> TRUE, owner |-> tok, ev |-> ev]
  <2>1. /\ envelopes' = [envelopes EXCEPT ![e] = rec]
        /\ advance_publication(tok) /\ UNCHANGED <<members, structure, vouched>>
    BY <1>4 DEF PublishEnvelope
  <2>2. rec \in EnvelopeRecord /\ EnvelopeBacked(rec, LiveBoots)
    BY <1>0, RequestsAreEvidence DEF EnvelopeRecord, EnvelopeBacked
  <2> HIDE DEF rec
  <2>3. /\ phase' \in [Boots -> {"unknown", "registered", "active", "dead"}]
        /\ LiveBoots' = LiveBoots
    BY <2>1, TokenKeepsLive
  <2>4. envelopes' \in [Envelopes -> EnvelopeRecord]
    BY <2>1, <2>2 DEF ReadinessIndInv
  <2>5. \A f \in Envelopes : EnvelopeBacked(envelopes'[f], LiveBoots')
    BY <2>1, <2>2, <2>3 DEF ReadinessIndInv
  <2>6. Known' = Known
    BY <2>1 DEF Known
  <2> QED BY <2>1, <2>3, <2>4, <2>5, <2>6 DEF ReadinessIndInv
<1> QED BY <1>2, <1>3, <1>4

\* fence_publisher preserves the invariant: everything the process stood behind is
\* flagged with its fencing.
LEMMA FenceStep ==
    ASSUME ReadinessIndInv, NEW b \in Boots, Fence(b)
    PROVE  ReadinessIndInv'
<1>1. /\ phase' = [phase EXCEPT ![b] = "dead"]
      /\ structure' = FencedStructure(b) /\ envelopes' = FencedEnvelopes(b)
      /\ members' = [m \in Members |-> IF members[m].owner = b
                                        THEN fence_member_evidence(members[m]) ELSE members[m]]
      /\ \A m : m \in vouched' <=> m \in vouched /\ ~(m \in Members /\ members[m].owner = b)
  BY DEF Fence
<1>2. phase' \in [Boots -> {"unknown", "registered", "active", "dead"}]
  BY <1>1 DEF ReadinessIndInv
<1>3. \A c : c \in LiveBoots' <=> c \in LiveBoots /\ c # b
  BY <1>1 DEF LiveBoots, Live, ReadinessIndInv
<1>4. ASSUME NEW m \in Members
      PROVE  /\ RecordOK(members'[m]) /\ Backed(members'[m], LiveBoots', m \in vouched')
             /\ members'[m].lifecycle = members[m].lifecycle
  <2>0. RecordOK(members[m]) /\ Backed(members[m], LiveBoots, m \in vouched)
    BY DEF ReadinessIndInv
  <2>1. CASE members[m].owner = b
    <3>1. members[m].lifecycle # "Absent"
      BY <2>0, <2>1, ReadinessAssumption, NothingRecorded DEF RecordOK
    <3>2. members'[m] = fence_member_evidence(members[m])
      BY <1>1, <2>1
    <3> QED BY <2>0, <3>1, <3>2, FencedRecord
  <2>2. CASE members[m].owner # b
    <3>1. members'[m] = members[m] /\ (m \in vouched' <=> m \in vouched)
      BY <1>1, <2>2
    <3>2. Backed(members[m], LiveBoots', m \in vouched')
      BY <1>3, <2>0, <2>2, <3>1 DEF Backed
    <3> QED BY <2>0, <3>1, <3>2
  <2> QED BY <2>1, <2>2
<1>5. members' \in [Members -> MemberRecord]
  BY <1>1, <1>4 DEF RecordOK
<1>6. Known' = Known
  BY <1>4 DEF Known
<1>7. ASSUME NEW s \in Structures
      PROVE  structure'[s] \in StructureRecord /\ StructureBacked(structure'[s], LiveBoots')
  <2>0. structure[s] \in StructureRecord /\ StructureBacked(structure[s], LiveBoots)
    BY DEF ReadinessIndInv
  <2>1. CASE structure[s].owner = b /\ ~structure[s].durable
    <3>1. structure'[s] = [structure[s] EXCEPT !.reval = TRUE]
      BY <1>1, <2>1 DEF FencedStructure
    <3>2. structure'[s] \in StructureRecord /\ structure'[s].reval = TRUE
      BY <2>0, <3>1 DEF StructureRecord
    <3> QED BY <3>2 DEF StructureBacked
  <2>2. CASE ~(structure[s].owner = b /\ ~structure[s].durable)
    <3>1. structure'[s] = structure[s]
      BY <1>1, <2>2 DEF FencedStructure
    <3> QED BY <1>3, <2>0, <2>2, <3>1 DEF StructureBacked
  <2> QED BY <2>1, <2>2
<1>8. ASSUME NEW e \in Envelopes
      PROVE  envelopes'[e] \in EnvelopeRecord /\ EnvelopeBacked(envelopes'[e], LiveBoots')
  <2>0. envelopes[e] \in EnvelopeRecord /\ EnvelopeBacked(envelopes[e], LiveBoots)
    BY DEF ReadinessIndInv
  <2>1. CASE envelopes[e].owner = b /\ ~envelopes[e].ev.durable
    <3> DEFINE ev == [envelopes[e].ev EXCEPT !.reval = TRUE]
    <3>1. envelopes'[e] = [envelopes[e] EXCEPT !.ev = ev]
      BY <1>1, <2>0, <2>1 DEF FencedEnvelopes, EnvelopeRecord
    <3>2. ev \in EvidenceValue /\ ev.reval = TRUE
      BY <2>0, Flagged DEF EnvelopeRecord
    <3> HIDE DEF ev
    <3>3. envelopes'[e] \in EnvelopeRecord /\ envelopes'[e].ev = ev
      BY <2>0, <3>1, <3>2 DEF EnvelopeRecord
    <3> QED BY <3>2, <3>3 DEF EnvelopeBacked
  <2>2. CASE ~(envelopes[e].owner = b /\ ~envelopes[e].ev.durable)
    <3>1. envelopes'[e] = envelopes[e]
      BY <1>1, <2>2 DEF FencedEnvelopes
    <3> QED BY <1>3, <2>0, <2>2, <3>1 DEF EnvelopeBacked
  <2> QED BY <2>1, <2>2
<1>9. /\ structure' \in [Structures -> StructureRecord]
      /\ envelopes' \in [Envelopes -> EnvelopeRecord]
  BY <1>1, <1>7, <1>8 DEF FencedStructure, FencedEnvelopes
<1>10. vouched' \subseteq Members
  BY <1>1 DEF ReadinessIndInv
<1> QED BY <1>2, <1>4, <1>5, <1>6, <1>7, <1>8, <1>9, <1>10 DEF ReadinessIndInv

\* A restart preserves the invariant: without owners there is nothing to back.
LEMMA RestartStep ==
    ASSUME ReadinessIndInv, Restart
    PROVE  ReadinessIndInv'
<1>1. /\ phase' = [b \in Boots |-> IF phase[b] = "unknown" THEN "unknown" ELSE "dead"]
      /\ members' = [m \in Members |-> IF m \in Known THEN RecoveredMember(members[m])
                                                       ELSE members[m]]
      /\ structure' = [s \in Structures |-> RecoveredStructure(structure[s])]
      /\ envelopes' = [e \in Envelopes |-> RecoveredEnvelope(envelopes[e])]
      /\ vouched' = {}
  BY DEF Restart
<1>2. phase' \in [Boots -> {"unknown", "registered", "active", "dead"}]
  BY <1>1 DEF ReadinessIndInv
<1>3. ASSUME NEW m \in Members
      PROVE  /\ RecordOK(members'[m]) /\ Backed(members'[m], LiveBoots', m \in vouched')
             /\ members'[m].lifecycle = members[m].lifecycle
  <2>0. RecordOK(members[m])
    BY DEF ReadinessIndInv
  <2>1. CASE m \in Known
    <3>1. members'[m] = RecoveredMember(members[m]) /\ members[m].lifecycle # "Absent"
      BY <1>1, <2>1 DEF Known
    <3> QED BY <2>0, <3>1, RecoveredRecord
  <2>2. CASE m \notin Known
    <3>1. members'[m] = members[m] /\ members[m].lifecycle = "Absent"
      BY <1>1, <2>2 DEF Known
    <3> QED BY <2>0, <3>1, NothingRecorded DEF RecordOK, Backed
  <2> QED BY <2>1, <2>2
<1>4. members' \in [Members -> MemberRecord]
  BY <1>1, <1>3 DEF RecordOK
<1>5. Known' = Known
  BY <1>3 DEF Known
<1>6. ASSUME NEW s \in Structures
      PROVE  structure'[s] \in StructureRecord /\ StructureBacked(structure'[s], LiveBoots')
  <2> DEFINE rec == structure[s]
             flag == rec.reval \/ ~rec.durable \/ rec.owner # None
  <2>1. rec \in StructureRecord /\ flag \in BOOLEAN
    BY DEF ReadinessIndInv
  <2>2. structure'[s] = [rec EXCEPT !.owner = None, !.reval = flag]
    BY <1>1, <2>1 DEF RecoveredStructure, StructureRecord
  <2> HIDE DEF rec, flag
  <2>3. structure'[s] \in StructureRecord /\ structure'[s].owner = None
    BY <2>1, <2>2 DEF StructureRecord, Owner
  <2> QED BY <2>3 DEF StructureBacked
<1>7. ASSUME NEW e \in Envelopes
      PROVE  envelopes'[e] \in EnvelopeRecord /\ EnvelopeBacked(envelopes'[e], LiveBoots')
  <2> DEFINE rec == envelopes[e]
             flag == rec.ev.reval \/ ~rec.ev.durable \/ rec.owner # None
             ev == [rec.ev EXCEPT !.reval = flag]
  <2>1. rec \in EnvelopeRecord /\ flag \in BOOLEAN
    BY DEF ReadinessIndInv
  <2>2. envelopes'[e] = [rec EXCEPT !.owner = None, !.ev = ev]
    BY <1>1, <2>1 DEF RecoveredEnvelope, EnvelopeRecord
  <2> HIDE DEF flag
  <2>3. ev \in EvidenceValue
    BY <2>1, Flagged DEF EnvelopeRecord
  <2> HIDE DEF rec, ev
  <2>4. envelopes'[e] \in EnvelopeRecord /\ envelopes'[e].owner = None
    BY <2>1, <2>2, <2>3 DEF EnvelopeRecord, Owner
  <2> QED BY <2>4 DEF EnvelopeBacked
<1>8. /\ structure' \in [Structures -> StructureRecord]
      /\ envelopes' \in [Envelopes -> EnvelopeRecord]
  BY <1>1, <1>6, <1>7
<1> QED BY <1>1, <1>2, <1>3, <1>4, <1>5, <1>6, <1>7, <1>8 DEF ReadinessIndInv

\* What a tick does to the member and the envelope records.
LEMMA TickShape ==
    ASSUME ReadinessIndInv, Tick
    PROVE  /\ \A m \in Members :
                 /\ RecordOK(members'[m])
                 /\ members'[m].lifecycle = members[m].lifecycle
                 /\ members'[m].owner = members[m].owner
                 /\ members'[m].ev = Aged(members[m].ev)
                 /\ members'[m].health.ev = Aged(members[m].health.ev)
                 /\ members'[m].health.by = members[m].health.by
                 /\ members'[m].health.positive = members[m].health.positive
           /\ \A e \in Envelopes :
                 /\ envelopes'[e] \in EnvelopeRecord
                 /\ envelopes'[e].known = envelopes[e].known
                 /\ envelopes'[e].owner = envelopes[e].owner
                 /\ envelopes'[e].ev = Aged(envelopes[e].ev)
           /\ UNCHANGED <<phase, structure, vouched>>
<1>1. ASSUME NEW m \in Members
      PROVE  /\ RecordOK(members'[m])
             /\ members'[m].lifecycle = members[m].lifecycle
             /\ members'[m].owner = members[m].owner
             /\ members'[m].ev = Aged(members[m].ev)
             /\ members'[m].health.ev = Aged(members[m].health.ev)
             /\ members'[m].health.by = members[m].health.by
             /\ members'[m].health.positive = members[m].health.positive
  <2> DEFINE rec == members[m]
  <2>1. members'[m] = [rec EXCEPT !.ev = Aged(@), !.health.ev = Aged(@)]
    BY DEF Tick
  <2>2. RecordOK(rec)
    BY DEF ReadinessIndInv
  <2> HIDE DEF rec
  <2> QED BY <2>1, <2>2, OlderRecord DEF rec
<1>2. ASSUME NEW e \in Envelopes
      PROVE  /\ envelopes'[e] \in EnvelopeRecord
             /\ envelopes'[e].known = envelopes[e].known
             /\ envelopes'[e].owner = envelopes[e].owner
             /\ envelopes'[e].ev = Aged(envelopes[e].ev)
  <2> DEFINE rec == envelopes[e]
             ev == Aged(rec.ev)
  <2>1. envelopes'[e] = [rec EXCEPT !.ev = ev]
    BY DEF Tick
  <2>2. rec \in EnvelopeRecord /\ rec.ev \in EvidenceValue
    BY DEF ReadinessIndInv, EnvelopeRecord
  <2>3. ev \in EvidenceValue
    BY <2>2, AgedIsOlder
  <2> HIDE DEF rec, ev
  <2>4. /\ envelopes'[e] \in EnvelopeRecord /\ envelopes'[e].ev = ev
        /\ envelopes'[e].known = rec.known /\ envelopes'[e].owner = rec.owner
    BY <2>1, <2>2, <2>3 DEF EnvelopeRecord
  <2> QED BY <2>4 DEF rec, ev
<1> QED BY <1>1, <1>2 DEF Tick

\* A tick preserves the invariant.
LEMMA TickStep ==
    ASSUME ReadinessIndInv, Tick
    PROVE  ReadinessIndInv'
<1>1. phase' = phase /\ structure' = structure /\ vouched' = vouched /\ LiveBoots' = LiveBoots
  BY TickShape DEF LiveBoots, Live
<1>2. ASSUME NEW m \in Members
      PROVE  Backed(members'[m], LiveBoots', m \in vouched')
  <2>1. members[m] \in MemberRecord /\ Backed(members[m], LiveBoots, m \in vouched)
    BY DEF ReadinessIndInv
  <2>2. members[m].ev \in EvidenceValue /\ members[m].health.ev \in EvidenceValue
    BY <2>1, RecordFields
  <2>3. /\ members'[m].ev.prov = members[m].ev.prov
        /\ members'[m].ev.reval = members[m].ev.reval
        /\ members'[m].health.ev.prov = members[m].health.ev.prov
        /\ members'[m].health.ev.reval = members[m].health.ev.reval
    BY <2>2, TickShape, AgedIsOlder
  <2> QED BY <1>1, <2>1, <2>3, TickShape DEF Backed, has_evidence
<1>3. ASSUME NEW e \in Envelopes
      PROVE  EnvelopeBacked(envelopes'[e], LiveBoots')
  <2>1. envelopes[e].ev \in EvidenceValue /\ EnvelopeBacked(envelopes[e], LiveBoots)
    BY DEF ReadinessIndInv, EnvelopeRecord
  <2>2. /\ envelopes'[e].ev.durable = envelopes[e].ev.durable
        /\ envelopes'[e].ev.reval = envelopes[e].ev.reval
        /\ envelopes'[e].owner = envelopes[e].owner
    BY <2>1, TickShape, AgedIsOlder
  <2> QED BY <1>1, <2>1, <2>2 DEF EnvelopeBacked
<1>4. Known' = Known
  BY TickShape DEF Known
<1>5. /\ members' \in [Members -> MemberRecord]
      /\ envelopes' \in [Envelopes -> EnvelopeRecord]
  BY TickShape DEF Tick, RecordOK
<1> QED BY <1>1, <1>2, <1>3, <1>4, <1>5, TickShape DEF ReadinessIndInv

\* A rack without records or processes satisfies the invariant.
THEOREM ReadinessInitInv == ReadinessInit => ReadinessIndInv
<1> SUFFICES ASSUME ReadinessInit
             PROVE  ReadinessIndInv
  OBVIOUS
<1>1. /\ phase \in [Boots -> {"unknown", "registered", "active", "dead"}]
      /\ members = [m \in Members |-> NoMember]
      /\ structure \in [Structures -> StructureRecord]
      /\ envelopes \in [Envelopes -> EnvelopeRecord]
      /\ vouched \subseteq Members
  BY NothingRecorded DEF ReadinessInit
<1>2. Known = {}
  BY <1>1 DEF Known, NoMember
<1>3. IsFiniteSet(Known)
  BY <1>2, FS_EmptySet
<1>4. members \in [Members -> MemberRecord]
  BY <1>1, NothingRecorded DEF RecordOK
<1>5. \A m \in Members : RecordOK(members[m]) /\ Backed(members[m], LiveBoots, m \in vouched)
  BY <1>1, NothingRecorded DEF Backed
<1>6. /\ \A s \in Structures : StructureBacked(structure[s], LiveBoots)
      /\ \A e \in Envelopes : EnvelopeBacked(envelopes[e], LiveBoots)
  BY NothingRecorded DEF ReadinessInit, StructureBacked, EnvelopeBacked
<1> QED BY <1>1, <1>3, <1>4, <1>5, <1>6 DEF ReadinessIndInv

\* Every handler, fencing, restart and tick preserves the invariant.
THEOREM ReadinessStepInv == ReadinessIndInv /\ [ReadinessNext]_readinessVars => ReadinessIndInv'
<1> SUFFICES ASSUME ReadinessIndInv, [ReadinessNext]_readinessVars
             PROVE  ReadinessIndInv'
  OBVIOUS
<1>1. ASSUME NEW b \in Boots, Register(b)
      PROVE  ReadinessIndInv'
  <2>1. /\ phase' \in [Boots -> {"unknown", "registered", "active", "dead"}]
        /\ LiveBoots \subseteq LiveBoots'
        /\ UNCHANGED <<members, structure, envelopes, vouched>>
    BY <1>1 DEF Register, LiveBoots, Live, ReadinessIndInv
  <2>2. Known' = Known
    BY <2>1 DEF Known
  <2>3. /\ \A m \in Members : Backed(members'[m], LiveBoots', m \in vouched')
        /\ \A s \in Structures : StructureBacked(structure'[s], LiveBoots')
        /\ \A e \in Envelopes : EnvelopeBacked(envelopes'[e], LiveBoots')
    BY <2>1 DEF ReadinessIndInv, Backed, StructureBacked, EnvelopeBacked
  <2> QED BY <2>1, <2>2, <2>3 DEF ReadinessIndInv
<1>2. ASSUME NEW tok \in Token, MutateBy(tok)
      PROVE  ReadinessIndInv'
  BY <1>2, MemberHandlers, OtherHandlers DEF MutateBy
<1>3. CASE UNCHANGED readinessVars
  <2>1. LiveBoots' = LiveBoots /\ Known' = Known
    BY <1>3 DEF readinessVars, LiveBoots, Live, Known
  <2> QED BY <1>3, <2>1 DEF readinessVars, ReadinessIndInv
<1> QED BY <1>1, <1>2, <1>3, FenceStep, RestartStep, TickStep DEF ReadinessNext

\* ReadinessInv: no retired member is ever current, and every live observation that
\* stands unflagged was made by a process in standing, through every order of
\* publication, fencing, restart and revalidation.
THEOREM ReadinessCorrect == ReadinessSpec => []ReadinessInv
<1>1. ReadinessIndInv => ReadinessInv
  <2> SUFFICES ASSUME ReadinessIndInv
               PROVE  ReadinessInv
    OBVIOUS
  <2>1. ReadinessTypeOK
    BY DEF ReadinessIndInv, ReadinessTypeOK, RecordOK
  <2>2. RetiredIsNeverCurrent
    BY CurrentMeans, RecordFields DEF ReadinessIndInv, RetiredIsNeverCurrent, RecordOK
  <2>3. LiveFactsHaveLiveOwners
    BY DEF ReadinessIndInv, LiveFactsHaveLiveOwners, Backed, StructureBacked, EnvelopeBacked,
           LiveBoots
  <2> QED BY <2>1, <2>2, <2>3 DEF ReadinessInv
<1> QED BY <1>1, ReadinessInitInv, ReadinessStepInv, PTL DEF ReadinessSpec

\* CountedMembersHaveAuthority: no process that was fenced, or that a restart left
\* behind, keeps a member counting towards readiness by itself.
THEOREM DeadHoldNothingReady == ReadinessSpec => []CountedMembersHaveAuthority
<1>1. ReadinessIndInv => CountedMembersHaveAuthority
  BY CurrentMeans, RecordFields
  DEF ReadinessIndInv, CountedMembersHaveAuthority, Backed, LiveBoots, has_current_evidence
<1> QED BY <1>1, ReadinessInitInv, ReadinessStepInv, PTL DEF ReadinessSpec

-----------------------------------------------------------------------------
(* Queries *)

\* What derive_lifecycle calls Ready.
LEMMA ReadyMeans ==
    ASSUME NEW c
    PROVE  derive_lifecycle(c) = "Ready" <=>
              ~needs_revalidation /\ evaluate_readiness(c) /\ ~Degraded
  BY DEF derive_lifecycle

\* The members that qualify are finitely many.
LEMMA QualifyingAreFinite ==
    ASSUME ReadinessIndInv, NEW kind, NEW c
    PROVE  IsFiniteSet(Qualifying(kind, c))
<1>1. Qualifying(kind, c) \subseteq Known
  BY DEF Qualifying, has_current_evidence, Known
<1> QED BY <1>1, FS_Subset DEF ReadinessIndInv

\* Finitely many members are in finitely many failure domains, and fewer members
\* are in no more of them.
LEMMA DomainsOfFewer ==
    ASSUME NEW Q \in SUBSET Members, NEW R \in SUBSET Q, IsFiniteSet(Q)
    PROVE  LET fewer == Cardinality(UNION {DomainsOf[m] : m \in R})
               more == Cardinality(UNION {DomainsOf[m] : m \in Q})
           IN  fewer \in Nat /\ more \in Nat /\ fewer <= more
<1> DEFINE sets == {DomainsOf[m] : m \in Q}
           f == [m \in Q |-> DomainsOf[m]]
<1>1. f \in Surjection(Q, sets)
  BY DEF Surjection
<1>2. IsFiniteSet(sets)
  <2> HIDE DEF f, sets
  <2> QED BY <1>1, FS_Surjection
<1>3. \A T \in sets : IsFiniteSet(T)
  BY ReadinessAssumption
<1>4. IsFiniteSet(UNION sets)
  <2> HIDE DEF f, sets
  <2> QED BY <1>2, <1>3, FS_UNION
<1>5. UNION {DomainsOf[m] : m \in R} \subseteq UNION sets
  OBVIOUS
<1> QED BY <1>4, <1>5, FS_Subset, FS_CardinalityType

\* ReadySummaryIsClean: whenever lifecycle() says Ready, the counts of summary()
\* show nothing to revalidate and nothing unavailable or, where asked for, stale,
\* and as many members present as the contract wants nodes and accelerators.
THEOREM ReadyAgreesWithSummary == ReadinessSpec => []ReadySummaryIsClean
<1>1. ReadinessIndInv => ReadySummaryIsClean
  <2> SUFFICES ASSUME ReadinessIndInv, NEW c \in Contracts, derive_lifecycle(c) = "Ready"
               PROVE  /\ summary.revalidation_required = 0
                      /\ summary.unavailable = 0
                      /\ c.require_all_members_current => summary.stale = 0
                      /\ summary.present >= c.min_nodes + c.min_accelerators
    BY DEF ReadySummaryIsClean
  <2>0. ~needs_revalidation /\ evaluate_readiness(c) /\ ~Degraded
    BY ReadyMeans
  <2> DEFINE P == {m \in Members : members[m].lifecycle = "Present"}
             N == Qualifying("Node", c)
             A == Qualifying("Accelerator", c)
  <2>1. summary.revalidation_required = 0
    <3>1. {m \in Members : members[m].ev.reval} = {}
      BY <2>0 DEF needs_revalidation
    <3> QED BY <3>1, FS_EmptySet DEF summary
  <2>2. summary.unavailable = 0
    <3>1. {m \in Members : members[m].lifecycle = "Unavailable"} = {}
      BY <2>0 DEF Degraded, is_current_member
    <3> QED BY <3>1, FS_EmptySet DEF summary
  <2>3. c.require_all_members_current => summary.stale = 0
    BY <2>0, FS_EmptySet DEF evaluate_readiness, summary
  <2>4. summary.present >= c.min_nodes + c.min_accelerators
    <3>1. IsFiniteSet(P) /\ IsFiniteSet(N) /\ IsFiniteSet(A)
      <4>1. P \subseteq Known
        BY DEF Known
      <4> QED BY <4>1, QualifyingAreFinite, FS_Subset DEF ReadinessIndInv
    <3>2. N \cap A = {}
      BY DEF Qualifying
    <3>3. N \cup A \subseteq P
      BY DEF Qualifying, has_current_evidence
    <3>4. Cardinality(N) >= c.min_nodes /\ Cardinality(A) >= c.min_accelerators
      BY <2>0 DEF evaluate_readiness
    <3>5. c.min_nodes \in Nat /\ c.min_accelerators \in Nat
      BY ReadinessAssumption
    <3>6. summary.present = Cardinality(P)
      BY DEF summary
    <3> HIDE DEF P, N, A
    <3>7. Cardinality(N) \in Nat /\ Cardinality(A) \in Nat /\ Cardinality(P) \in Nat
      BY <3>1, FS_CardinalityType
    <3>8. Cardinality(N \cup A) = Cardinality(N) + Cardinality(A)
      BY <3>1, <3>2, <3>7, FS_Union, FS_EmptySet
    <3>9. Cardinality(N \cup A) <= Cardinality(P)
      BY <3>1, <3>3, FS_Subset
    <3> QED BY <3>4, <3>5, <3>6, <3>7, <3>8, <3>9
  <2> QED BY <2>1, <2>2, <2>3, <2>4
<1> QED BY <1>1, ReadinessInitInv, ReadinessStepInv, PTL DEF ReadinessSpec

\* AgingNeverHeals: time alone never brings the rack to Ready, unless something was
\* dated ahead or the bad news about a member ages out under a contract that does
\* not ask for health.
THEOREM TimeNeverHeals == ReadinessSpec => AgingNeverHeals
<1> DEFINE Heals ==
        Tick => \A c \in Contracts :
            \/ DatedAhead
            \/ ~c.require_member_health /\ Degraded
            \/ derive_lifecycle(c) = "Ready"
            \/ derive_lifecycle(c)' # "Ready"
<1>1. ReadinessIndInv /\ [ReadinessNext]_readinessVars => [Heals]_readinessVars
  <2> SUFFICES ASSUME ReadinessIndInv, Tick, NEW c \in Contracts, ~DatedAhead,
                      ~(~c.require_member_health /\ Degraded),
                      derive_lifecycle(c)' = "Ready"
               PROVE  derive_lifecycle(c) = "Ready"
    OBVIOUS
  <2>0. ~needs_revalidation' /\ evaluate_readiness(c)' /\ ~Degraded'
    BY DEF derive_lifecycle
  <2>1. phase' = phase /\ structure' = structure
    BY TickShape
  <2>2. ASSUME NEW m \in Members
        PROVE  /\ members'[m].lifecycle = members[m].lifecycle
               /\ members'[m].ev.prov = members[m].ev.prov
               /\ members'[m].ev.reval = members[m].ev.reval
               /\ members'[m].health.positive = members[m].health.positive
               /\ is_current(members'[m].ev) => is_current(members[m].ev)
               /\ is_current(members'[m].health.ev) => is_current(members[m].health.ev)
    <3>1. /\ members[m].ev \in EvidenceValue /\ members[m].health.ev \in EvidenceValue
          /\ members[m].health.ev.age >= 0
      BY RecordFields DEF ReadinessIndInv, RecordOK
    <3>2. members[m].ev.age >= 0
      BY <3>1 DEF DatedAhead, EvidenceValue, Ages
    <3> QED BY <3>1, <3>2, TickShape, AgedIsOlder
  <2>3. ASSUME NEW e \in Envelopes
        PROVE  /\ envelopes'[e].known => envelopes[e].known
               /\ is_current(envelopes'[e].ev) => is_current(envelopes[e].ev)
    <3>1. envelopes[e].ev \in EvidenceValue
      BY DEF ReadinessIndInv, EnvelopeRecord
    <3>2. envelopes[e].ev.age >= 0
      BY <3>1 DEF DatedAhead, EvidenceValue, Ages
    <3> QED BY <3>1, <3>2, TickShape, AgedIsOlder
  <2>4. ~needs_revalidation
    BY <2>0, <2>1, <2>2 DEF needs_revalidation
  <2>5. \A kind : Qualifying(kind, c)' \subseteq Qualifying(kind, c)
    BY <2>2 DEF Qualifying, has_current_evidence
  <2>6. evaluate_readiness(c)
    <3>1. ASSUME NEW kind
          PROVE  Cardinality(Qualifying(kind, c)') <= Cardinality(Qualifying(kind, c))
      BY <2>5, QualifyingAreFinite, FS_Subset
    <3>2. Cardinality(UNION {DomainsOf[m] : m \in Qualifying("Node", c)})
            >= c.min_distinct_failure_domains
      <4> DEFINE Q == Qualifying("Node", c)
                 R == Qualifying("Node", c)'
                 more == Cardinality(UNION {DomainsOf[m] : m \in Q})
                 fewer == Cardinality(UNION {DomainsOf[m] : m \in R})
      <4>1. IsFiniteSet(Q) /\ Q \in SUBSET Members /\ R \in SUBSET Q
        BY <2>5, QualifyingAreFinite DEF Qualifying
      <4>2. fewer >= c.min_distinct_failure_domains
        BY <2>0 DEF evaluate_readiness
      <4>3. fewer \in Nat /\ more \in Nat /\ fewer <= more
        <5> HIDE DEF Q, R
        <5> QED BY <4>1, DomainsOfFewer
      <4>4. c.min_distinct_failure_domains \in Nat
        BY ReadinessAssumption
      <4> HIDE DEF fewer, more
      <4>5. more >= c.min_distinct_failure_domains
        BY <4>2, <4>3, <4>4
      <4> QED BY <4>5 DEF more
    <3>3. /\ Cardinality(Qualifying("Node", c)) >= c.min_nodes
          /\ Cardinality(Qualifying("Accelerator", c)) >= c.min_accelerators
      <4> DEFINE Fewer(kind) == Cardinality(Qualifying(kind, c)')
                 More(kind) == Cardinality(Qualifying(kind, c))
      <4>1. Fewer("Node") >= c.min_nodes /\ Fewer("Accelerator") >= c.min_accelerators
        BY <2>0 DEF evaluate_readiness
      <4>2. \A kind : Fewer(kind) \in Nat /\ More(kind) \in Nat /\ Fewer(kind) <= More(kind)
        BY <2>5, <3>1, QualifyingAreFinite, FS_Subset, FS_CardinalityType
      <4>3. c.min_nodes \in Nat /\ c.min_accelerators \in Nat
        BY ReadinessAssumption
      <4> HIDE DEF Fewer, More
      <4>4. More("Node") >= c.min_nodes /\ More("Accelerator") >= c.min_accelerators
        BY <4>1, <4>2, <4>3
      <4> QED BY <4>4 DEF More
    <3>4. c.require_all_members_current => StaleMembers = {}
      BY <2>0, <2>2 DEF evaluate_readiness, StaleMembers, is_current_member
    <3>5. c.require_member_health =>
            \A m \in Members : is_current_member(m) => HealthIsCurrent(m)
      BY <2>0, <2>2 DEF evaluate_readiness, HealthIsCurrent, is_current_member
    <3>6. /\ \A s \in c.require_structure : structure[s].known
          /\ c.require_active_publisher => \E b \in Boots : phase[b] = "active"
      BY <2>0, <2>1 DEF evaluate_readiness
    <3>7. \A e \in c.require_envelopes : envelopes[e].known /\ is_current(envelopes[e].ev)
      BY <2>0, <2>3, ReadinessAssumption DEF evaluate_readiness
    <3> QED BY <3>2, <3>3, <3>4, <3>5, <3>6, <3>7 DEF evaluate_readiness
  <2>7. ~Degraded
    <3> SUFFICES ASSUME Degraded, c.require_member_health
                 PROVE  FALSE
      OBVIOUS
    <3>1. PICK m \in Members :
             /\ is_current_member(m)
             /\ \/ members[m].lifecycle = "Unavailable"
                \/ is_current(members[m].health.ev) /\ ~members[m].health.positive
      BY DEF Degraded
    <3>2. members'[m].lifecycle \in {"Present", "Unavailable"}
      BY <2>2, <3>1 DEF is_current_member
    <3>3. is_current(members'[m].health.ev)
      BY <2>0, <3>2 DEF evaluate_readiness, is_current_member, HealthIsCurrent
    <3> QED BY <2>0, <2>2, <3>1, <3>2, <3>3 DEF Degraded, is_current_member
  <2> QED BY <2>4, <2>6, <2>7, ReadyMeans
<1> QED BY <1>1, ReadinessInitInv, ReadinessStepInv, PTL DEF ReadinessSpec, AgingNeverHeals
=============================================================================
