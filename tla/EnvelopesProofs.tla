--------------------------- MODULE EnvelopesProofs ---------------------------
(***************************************************************************)
(* Theorems about Envelopes, for every set of processes, power domains and *)
(* zones, every quantity a request may give and every time-to-live.        *)
(*                                                                         *)
(* That a headroom rests on its inputs is preserved by every step as it    *)
(* stands.  That it is never fresher than both is not: a headroom that is  *)
(* stale today must not be one whose inputs expired before it.  What is    *)
(* preserved is where its date comes from, whether it is still fresh or    *)
(* not: a headroom with a lifetime was never dated ahead, and has the age  *)
(* and the lifetime of an unflagged input that stands beside it.           *)
(***************************************************************************)
EXTENDS Envelopes, TLAPS

\* A headroom h, the limit l and the load u it is derived from.
Supported(h, l, u) ==
    present(h) =>
        /\ present(l) /\ present(u)
        /\ l.unit = u.unit
        /\ h.value = l.value - u.value /\ h.value >= 0

\* Where the date of a headroom comes from.
DatedBy(ev, q) ==
    has_evidence(q.ev) /\ ~q.ev.reval /\ q.ev.ttl = ev.ttl /\ q.ev.age = ev.age

Dated(h, l, u) ==
    has_evidence(h.ev) =>
        /\ ~h.ev.durable
        /\ h.ev.ttl # 0 => h.ev.age >= 0 /\ (DatedBy(h.ev, l) \/ DatedBy(h.ev, u))

Derived(h, l, u) == Supported(h, l, u) /\ Dated(h, l, u)

SlotsDerived(slots) ==
    \A s \in Slots : Derived(slots[s].headroom, slots[s].limit, slots[s].draw)

ZonesDerived(zones) ==
    \A z \in DOMAIN zones :
       Derived(zones[z].thermal_headroom, zones[z].cooling_capacity,
               zones[z].design_thermal_limit)

\* LostObservationsAreGone, of a power envelope r and of a cooling envelope r, when ph
\* is the phase of the processes.
Alive(r, ph) ==
    r.known /\ ~r.durable /\ r.owner # None /\ ~r.reval => ph[r.owner] = "live"

SilentSlot(slot) == ~present(slot.draw) /\ ~present(slot.headroom)

PowerLost(r, ph) ==
    /\ Alive(r, ph)
    /\ r.known /\ ~r.durable /\ r.reval =>
          /\ SilentSlot(r.slots[Rack])
          /\ r.owner = None => \A s \in Slots : SilentSlot(r.slots[s])

CoolingLost(r, ph) ==
    /\ Alive(r, ph)
    /\ r.known /\ ~r.durable /\ r.reval =>
          \A z \in DOMAIN r.zones :
             ~r.zones[z].observed /\ ~present(r.zones[z].thermal_headroom)

\* The inductive invariant.
EnvelopesIndInv ==
    /\ EnvelopesTypeOK
    /\ SlotsDerived(power.slots)
    /\ ZonesDerived(cooling.zones)
    /\ LostObservationsAreGone

-----------------------------------------------------------------------------
(* Quantities *)

\* The smaller of two numbers.
LEMMA MinOfTwo ==
    ASSUME NEW a \in Int, NEW b \in Int
    PROVE  Min({a, b}) = IF a <= b THEN a ELSE b
<1> DEFINE m == IF a <= b THEN a ELSE b
<1>1. m \in {a, b} /\ \A y \in {a, b} : m <= y
  OBVIOUS
<1>2. \A x \in {a, b} : (\A y \in {a, b} : x <= y) => x = m
  OBVIOUS
<1> HIDE DEF m
<1>3. Min({a, b}) = m
  BY <1>1, <1>2 DEF Min
<1> QED BY <1>3 DEF m

\* What freshness_at calls fresh.
LEMMA CurrentMeans ==
    ASSUME NEW ev \in EvidenceValue
    PROVE  is_current(ev) <=>
             /\ ~ev.reval /\ has_evidence(ev)
             /\ \/ ev.durable /\ ev.ttl = 0
                \/ ev.ttl # 0 /\ ev.age \in 0..ev.ttl
  BY DEF is_current, freshness_at, EvidenceValue, has_evidence

\* The parts of a quantity.
LEMMA QuantityParts ==
    ASSUME NEW q \in Quantity
    PROVE  /\ q.value \in Int /\ q.unit \in Units /\ q.ev \in EvidenceValue
           /\ q.ev.prov \in Provenance /\ q.ev.age \in Int /\ q.ev.age \in -1..(Ttl + 1)
           /\ q.ev.ttl \in {0, Ttl} /\ q.ev.ttl \in Nat
           /\ q.ev.durable \in BOOLEAN /\ q.ev.reval \in BOOLEAN
  BY TtlAssumption DEF Quantity, EvidenceValue, Ages

\* An absent quantity is one, and nothing can be missing beside an absent headroom.
LEMMA NothingDerived ==
    /\ NoQuantity \in Quantity /\ ~present(NoQuantity) /\ ~has_evidence(NoQuantity.ev)
    /\ \A l, u : Derived(NoQuantity, l, u)
<1>1. NoEvidence \in EvidenceValue /\ ~has_evidence(NoEvidence)
  BY TtlAssumption DEF NoEvidence, EvidenceValue, Ages, Provenance, has_evidence
<1>2. NoQuantity \in Quantity
  BY <1>1 DEF NoQuantity, Quantity, Units
<1>3. NoQuantity.unit = "None" /\ NoQuantity.ev = NoEvidence
  BY DEF NoQuantity
<1> QED BY <1>1, <1>2, <1>3 DEF Derived, Supported, Dated, present

\* headroom_of gives a quantity that rests on its two arguments.
LEMMA HeadroomDerived ==
    ASSUME NEW l \in Quantity, NEW u \in Quantity
    PROVE  headroom_of(l, u) \in Quantity /\ Derived(headroom_of(l, u), l, u)
<1> DEFINE ok == /\ present(l) /\ present(u) /\ l.unit = u.unit
                 /\ is_current(l.ev) /\ is_current(u.ev)
                 /\ l.value >= u.value
           date == [prov |-> "Physical", age |-> Min({l.ev.age, u.ev.age}),
                    ttl |-> Min({l.ev.ttl, u.ev.ttl}), durable |-> FALSE, reval |-> FALSE]
           made == [value |-> l.value - u.value, unit |-> l.unit, ev |-> date]
<1>1. CASE ~ok
  <2>1. headroom_of(l, u) = NoQuantity
    BY <1>1 DEF headroom_of
  <2> QED BY <2>1, NothingDerived
<1>2. CASE ok
  <2>1. headroom_of(l, u) = made
    BY <1>2 DEF headroom_of
  <2>2. /\ l.value \in Int /\ u.value \in Int /\ l.unit \in Units
        /\ l.ev \in EvidenceValue /\ u.ev \in EvidenceValue
        /\ l.ev.age \in -1..(Ttl + 1) /\ u.ev.age \in -1..(Ttl + 1)
        /\ l.ev.age \in Int /\ u.ev.age \in Int
        /\ l.ev.ttl \in {0, Ttl} /\ u.ev.ttl \in {0, Ttl}
        /\ l.ev.ttl \in Nat /\ u.ev.ttl \in Nat
    BY QuantityParts
  <2>3. /\ date.age = IF l.ev.age <= u.ev.age THEN l.ev.age ELSE u.ev.age
        /\ date.ttl = IF l.ev.ttl <= u.ev.ttl THEN l.ev.ttl ELSE u.ev.ttl
    BY <2>2, MinOfTwo
  <2>4. date.prov = "Physical" /\ date.durable = FALSE /\ date.reval = FALSE
    OBVIOUS
  <2>5. date.age \in Ages /\ date.ttl \in {0, Ttl}
    BY <2>2, <2>3 DEF Ages
  <2>6. date \in EvidenceValue
    BY <2>5 DEF EvidenceValue, Provenance
  <2>7. made \in Quantity
    <3> HIDE DEF date
    <3> QED BY <2>2, <2>6 DEF Quantity
  <2>8. made.value = l.value - u.value /\ made.ev = date
    OBVIOUS
  <2>9. Supported(made, l, u)
    BY <1>2, <2>2, <2>8 DEF Supported
  <2>10. /\ has_evidence(l.ev) /\ ~l.ev.reval /\ (l.ev.ttl # 0 => l.ev.age >= 0)
         /\ has_evidence(u.ev) /\ ~u.ev.reval /\ (u.ev.ttl # 0 => u.ev.age >= 0)
    BY <1>2, <2>2, CurrentMeans
  <2>11. ASSUME date.ttl # 0
         PROVE  date.age >= 0 /\ (DatedBy(date, l) \/ DatedBy(date, u))
    <3>1. l.ev.ttl = Ttl /\ u.ev.ttl = Ttl /\ date.ttl = Ttl
      BY <2>2, <2>3, <2>11, TtlAssumption
    <3>2. l.ev.age >= 0 /\ u.ev.age >= 0
      BY <2>10, <3>1, TtlAssumption
    <3> HIDE DEF date
    <3> QED BY <2>2, <2>3, <2>10, <3>1, <3>2 DEF DatedBy
  <2> HIDE DEF date, made
  <2>12. Dated(made, l, u)
    BY <2>4, <2>8, <2>11 DEF Dated
  <2> QED BY <2>1, <2>7, <2>9, <2>12 DEF Derived
<1> QED BY <1>1, <1>2

\* One tick later: the value, the unit and all of the evidence but its age stay, and
\* what is not dated ahead and not current does not become so.
LEMMA OlderParts ==
    ASSUME NEW q \in Quantity
    PROVE  /\ Older(q) \in Quantity
           /\ Older(q).value = q.value /\ Older(q).unit = q.unit
           /\ Older(q).ev = Aged(q.ev)
           /\ Aged(q.ev).prov = q.ev.prov /\ Aged(q.ev).ttl = q.ev.ttl
           /\ Aged(q.ev).durable = q.ev.durable /\ Aged(q.ev).reval = q.ev.reval
           /\ Aged(q.ev).age = IF has_evidence(q.ev) /\ q.ev.ttl # 0 /\ q.ev.age <= Ttl
                               THEN q.ev.age + 1 ELSE q.ev.age
<1>1. /\ q.ev \in EvidenceValue /\ q.ev.age \in -1..(Ttl + 1)
  BY QuantityParts
<1>2. /\ Aged(q.ev) \in EvidenceValue
      /\ Aged(q.ev).prov = q.ev.prov /\ Aged(q.ev).ttl = q.ev.ttl
      /\ Aged(q.ev).durable = q.ev.durable /\ Aged(q.ev).reval = q.ev.reval
      /\ Aged(q.ev).age = IF has_evidence(q.ev) /\ q.ev.ttl # 0 /\ q.ev.age <= Ttl
                          THEN q.ev.age + 1 ELSE q.ev.age
  BY <1>1, TtlAssumption DEF Aged, EvidenceValue, Ages
<1>3. Older(q) = [q EXCEPT !.ev = Aged(q.ev)]
  BY DEF Older
<1>4. /\ Older(q) \in Quantity
      /\ Older(q).value = q.value /\ Older(q).unit = q.unit /\ Older(q).ev = Aged(q.ev)
  BY <1>2, <1>3 DEF Quantity
<1> QED BY <1>2, <1>4

\* Headroom and inputs age together.
LEMMA OlderDerived ==
    ASSUME NEW h \in Quantity, NEW l \in Quantity, NEW u \in Quantity, Derived(h, l, u)
    PROVE  /\ Derived(Older(h), Older(l), Older(u))
           /\ is_current(Older(h).ev) => is_current(h.ev)
<1>1. Supported(Older(h), Older(l), Older(u))
  BY OlderParts DEF Derived, Supported, present
<1>2. ASSUME NEW q \in Quantity, DatedBy(h.ev, q), has_evidence(h.ev)
      PROVE  DatedBy(Older(h).ev, Older(q))
  BY <1>2, OlderParts DEF DatedBy, has_evidence
<1>3. ASSUME has_evidence(h.ev), h.ev.ttl # 0
      PROVE  Older(h).ev.age >= 0
  <2>1. h.ev.age >= 0 /\ h.ev.age \in Int
    BY <1>3, QuantityParts DEF Derived, Dated
  <2> QED BY <2>1, OlderParts
<1>4. Dated(Older(h), Older(l), Older(u))
  <2>1. has_evidence(Older(h).ev) <=> has_evidence(h.ev)
    BY OlderParts DEF has_evidence
  <2>2. Older(h).ev.ttl = h.ev.ttl /\ Older(h).ev.durable = h.ev.durable
    BY OlderParts
  <2> QED BY <1>2, <1>3, <2>1, <2>2 DEF Derived, Dated
<1>5. ASSUME is_current(Older(h).ev)
      PROVE  is_current(h.ev)
  <2>1. h.ev \in EvidenceValue /\ Older(h).ev \in EvidenceValue
    BY OlderParts, QuantityParts
  <2>2. /\ ~Older(h).ev.reval /\ has_evidence(Older(h).ev)
        /\ \/ Older(h).ev.durable /\ Older(h).ev.ttl = 0
           \/ Older(h).ev.ttl # 0 /\ Older(h).ev.age \in 0..Older(h).ev.ttl
    BY <1>5, <2>1, CurrentMeans
  <2>3. ~h.ev.reval /\ has_evidence(h.ev) /\ h.ev.ttl # 0
    BY <2>2, OlderParts DEF has_evidence, Derived, Dated
  <2>4. h.ev.age >= 0 /\ h.ev.age \in Int /\ h.ev.ttl \in Nat
    BY <2>3, QuantityParts DEF Derived, Dated
  <2>5. h.ev.age <= Older(h).ev.age /\ Older(h).ev.ttl = h.ev.ttl /\ Older(h).ev.age <= h.ev.ttl
    BY <2>2, <2>3, <2>4, OlderParts
  <2>6. h.ev.age \in 0..h.ev.ttl
    BY <2>4, <2>5, OlderParts
  <2> QED BY <2>1, <2>3, <2>6, CurrentMeans
<1> QED BY <1>1, <1>4, <1>5 DEF Derived

\* A fresh headroom has a fresh input.
LEMMA DerivedFresh ==
    ASSUME NEW h \in Quantity, NEW l \in Quantity, NEW u \in Quantity, Derived(h, l, u),
           is_current(h.ev)
    PROVE  is_current(l.ev) \/ is_current(u.ev)
<1>1. h.ev \in EvidenceValue /\ l.ev \in EvidenceValue /\ u.ev \in EvidenceValue
  BY QuantityParts
<1>2. /\ has_evidence(h.ev)
      /\ \/ h.ev.durable /\ h.ev.ttl = 0
         \/ h.ev.ttl # 0 /\ h.ev.age \in 0..h.ev.ttl
  BY <1>1, CurrentMeans
<1>3. h.ev.ttl # 0 /\ h.ev.age \in 0..h.ev.ttl /\ (DatedBy(h.ev, l) \/ DatedBy(h.ev, u))
  BY <1>2 DEF Derived, Dated
<1> QED BY <1>1, <1>3, CurrentMeans DEF DatedBy

-----------------------------------------------------------------------------
(* Envelopes *)

SlotRecord == [limit : Quantity, draw : Quantity, headroom : Quantity]

\* The parts of a power envelope and of a cooling envelope of the zones zs.
LEMMA RecordParts ==
    /\ \A r \in PowerRecord :
          /\ r.known \in BOOLEAN /\ r.owner \in Owner /\ r.durable \in BOOLEAN
          /\ r.reval \in BOOLEAN /\ r.slots \in [Slots -> SlotRecord]
    /\ \A zs : \A r \in CoolingRecord(zs) :
          /\ r.known \in BOOLEAN /\ r.owner \in Owner /\ r.durable \in BOOLEAN
          /\ r.reval \in BOOLEAN /\ r.zones \in [zs -> ZoneRecord] /\ DOMAIN r.zones = zs
  BY DEF PowerRecord, CoolingRecord, SlotRecord

\* What the property says of both envelopes is what it says of each.
LEMMA LostOfEach ==
    LostObservationsAreGone <=> PowerLost(power, phase) /\ CoolingLost(cooling, phase)
  BY DEF LostObservationsAreGone, PowerLost, CoolingLost, Alive, SilentSlot

\* The same of the state after a step.
LEMMA LostOfEachAfter ==
    LostObservationsAreGone' <=> PowerLost(power', phase') /\ CoolingLost(cooling', phase')
  BY DEF LostObservationsAreGone, PowerLost, CoolingLost, Alive, SilentSlot

\* What a publication stores in the slots.
LEMMA PublishedSlots ==
    ASSUME NEW slots \in RequestSlots
    PROVE  /\ recompute_power_derived(slots) \in [Slots -> SlotRecord]
           /\ SlotsDerived(recompute_power_derived(slots))
<1>1. PICK slot \in PowerSlot : slots = [s \in Slots |-> slot]
  BY DEF RequestSlots
<1>2. slot.limit \in Quantity /\ slot.draw \in Quantity
  BY EnvelopeAssumption DEF PowerSlot
<1> DEFINE h == headroom_of(slot.limit, slot.draw)
           made == [limit |-> slot.limit, draw |-> slot.draw, headroom |-> h]
<1>3. h \in Quantity /\ Derived(h, slot.limit, slot.draw)
  BY <1>2, HeadroomDerived
<1>4. recompute_power_derived(slots) = [s \in Slots |-> made]
  BY <1>1 DEF recompute_power_derived
<1> HIDE DEF h
<1>5. made \in SlotRecord
  BY <1>2, <1>3 DEF SlotRecord
<1>6. made.headroom = h /\ made.limit = slot.limit /\ made.draw = slot.draw
  OBVIOUS
<1> HIDE DEF made
<1> QED BY <1>3, <1>4, <1>5, <1>6 DEF SlotsDerived

\* What a publication stores of the zones.
LEMMA PublishedZones ==
    ASSUME NEW zones \in RequestZones
    PROVE  /\ recompute_cooling_derived(zones) \in [DOMAIN zones -> ZoneRecord]
           /\ DOMAIN recompute_cooling_derived(zones) = DOMAIN zones
           /\ ZonesDerived(recompute_cooling_derived(zones))
<1>1. PICK zs \in SUBSET Zones : zones \in [zs -> CoolingZone]
  BY DEF RequestZones
<1>2. DOMAIN zones = zs
  BY <1>1
<1> DEFINE new == recompute_cooling_derived(zones)
<1>3. ASSUME NEW z \in zs
      PROVE  /\ new[z] \in ZoneRecord
             /\ Derived(new[z].thermal_headroom, new[z].cooling_capacity,
                        new[z].design_thermal_limit)
  <2>1. /\ zones[z].cooling_capacity \in Quantity /\ zones[z].design_thermal_limit \in Quantity
        /\ zones[z].observed \in BOOLEAN
    BY <1>1, <1>3, EnvelopeAssumption DEF CoolingZone
  <2> DEFINE h == headroom_of(zones[z].cooling_capacity, zones[z].design_thermal_limit)
             made == [cooling_capacity |-> zones[z].cooling_capacity,
                      design_thermal_limit |-> zones[z].design_thermal_limit,
                      observed |-> zones[z].observed, thermal_headroom |-> h]
  <2>2. h \in Quantity
        /\ Derived(h, zones[z].cooling_capacity, zones[z].design_thermal_limit)
    BY <2>1, HeadroomDerived
  <2>3. new[z] = made
    BY <1>2, <1>3 DEF recompute_cooling_derived
  <2> HIDE DEF h
  <2>4. made \in ZoneRecord
    BY <2>1, <2>2 DEF ZoneRecord
  <2>5. /\ made.thermal_headroom = h /\ made.cooling_capacity = zones[z].cooling_capacity
        /\ made.design_thermal_limit = zones[z].design_thermal_limit
    OBVIOUS
  <2> HIDE DEF made, new
  <2> QED BY <2>2, <2>3, <2>4, <2>5
<1>4. DOMAIN new = zs /\ new = [z \in zs |-> new[z]]
  BY <1>2 DEF recompute_cooling_derived
<1> HIDE DEF new
<1>5. new \in [zs -> ZoneRecord] /\ ZonesDerived(new)
  BY <1>3, <1>4 DEF ZonesDerived
<1> QED BY <1>2, <1>4, <1>5 DEF new

\* A slot without its draw and its headroom.
LEMMA SilencedParts ==
    ASSUME NEW slot \in SlotRecord
    PROVE  /\ Silenced(slot) \in SlotRecord
           /\ Silenced(slot).draw = NoQuantity /\ Silenced(slot).headroom = NoQuantity
           /\ Silenced(slot).limit = slot.limit
           /\ SilentSlot(Silenced(slot))
           /\ Derived(Silenced(slot).headroom, Silenced(slot).limit, Silenced(slot).draw)
           /\ ~is_current(Silenced(slot).headroom.ev)
<1>1. NoQuantity \in Quantity /\ NoQuantity.ev = NoEvidence /\ NoEvidence \in EvidenceValue
  BY NothingDerived, QuantityParts DEF NoQuantity
<1>2. /\ Silenced(slot) \in SlotRecord
      /\ Silenced(slot).draw = NoQuantity /\ Silenced(slot).headroom = NoQuantity
      /\ Silenced(slot).limit = slot.limit
  BY <1>1 DEF Silenced, SlotRecord
<1>3. ~is_current(NoQuantity.ev)
  BY <1>1, NothingDerived, CurrentMeans
<1> QED BY <1>2, <1>3, NothingDerived DEF SilentSlot

\* Zones without their temperature and their headroom.
LEMMA SilencedZonesParts ==
    ASSUME NEW zs, NEW zones \in [zs -> ZoneRecord]
    PROVE  /\ SilencedZones(zones) \in [zs -> ZoneRecord]
           /\ DOMAIN SilencedZones(zones) = zs
           /\ ZonesDerived(SilencedZones(zones))
           /\ \A z \in zs : /\ ~SilencedZones(zones)[z].observed
                            /\ ~present(SilencedZones(zones)[z].thermal_headroom)
                            /\ ~is_current(SilencedZones(zones)[z].thermal_headroom.ev)
<1> DEFINE new == SilencedZones(zones)
<1>1. NoQuantity \in Quantity /\ NoQuantity.ev \in EvidenceValue
  BY NothingDerived, QuantityParts
<1>2. ~is_current(NoQuantity.ev)
  BY <1>1, NothingDerived, CurrentMeans
<1>3. DOMAIN new = zs /\ new = [z \in zs |-> new[z]]
  BY DEF SilencedZones
<1>4. ASSUME NEW z \in zs
      PROVE  /\ new[z] \in ZoneRecord
             /\ new[z].observed = FALSE /\ new[z].thermal_headroom = NoQuantity
  <2>1. new[z] = [zones[z] EXCEPT !.observed = FALSE, !.thermal_headroom = NoQuantity]
    BY <1>4 DEF SilencedZones
  <2>2. zones[z] \in ZoneRecord
    BY <1>4
  <2> HIDE DEF new
  <2> QED BY <1>1, <2>1, <2>2 DEF ZoneRecord
<1> HIDE DEF new
<1>5. new \in [zs -> ZoneRecord] /\ ZonesDerived(new)
  BY <1>3, <1>4, NothingDerived DEF ZonesDerived
<1> QED BY <1>2, <1>3, <1>4, <1>5, NothingDerived DEF new

\* What fence_publisher leaves of the power envelope.
LEMMA FencedPowerParts ==
    ASSUME NEW b \in Boots, power \in PowerRecord, SlotsDerived(power.slots),
           PowerLost(power, phase), phase \in [Boots -> {"unknown", "live", "dead"}]
    PROVE  /\ FencedPower(b) \in PowerRecord
           /\ SlotsDerived(FencedPower(b).slots)
           /\ PowerLost(FencedPower(b), [phase EXCEPT ![b] = "dead"])
           /\ \A s \in Slots : is_current(FencedPower(b).slots[s].headroom.ev)
                                 => is_current(power.slots[s].headroom.ev)
<1> DEFINE new == FencedPower(b)
<1>1. /\ power.known \in BOOLEAN /\ power.owner \in Owner /\ power.durable \in BOOLEAN
      /\ power.reval \in BOOLEAN /\ power.slots \in [Slots -> SlotRecord] /\ Rack \in Slots
  BY RecordParts DEF Slots
<1>2. CASE power.owner = b /\ ~power.durable
  <2> DEFINE sl == [power.slots EXCEPT ![Rack] = Silenced(power.slots[Rack])]
  <2>1. power.slots[Rack] \in SlotRecord
    BY <1>1
  <2>2. /\ new \in PowerRecord /\ new.slots = sl
        /\ new.known = power.known /\ new.owner = power.owner /\ new.durable = power.durable
        /\ new.reval = TRUE
    BY <1>1, <1>2, <2>1, SilencedParts DEF FencedPower, PowerRecord, SlotRecord
  <2>3. /\ sl[Rack] = Silenced(power.slots[Rack])
        /\ \A s \in Slots : s # Rack => sl[s] = power.slots[s]
    BY <1>1
  <2> HIDE DEF new, sl
  <2>4. SlotsDerived(new.slots)
    BY <2>1, <2>2, <2>3, SilencedParts DEF SlotsDerived
  <2>5. \A s \in Slots : is_current(new.slots[s].headroom.ev)
                         => is_current(power.slots[s].headroom.ev)
    BY <2>1, <2>2, <2>3, SilencedParts
  <2>6. new.owner # None /\ SilentSlot(new.slots[Rack])
    BY <1>2, <2>1, <2>2, <2>3, SilencedParts, EnvelopeAssumption
  <2>7. PowerLost(new, [phase EXCEPT ![b] = "dead"])
    BY <2>2, <2>6 DEF PowerLost, Alive
  <2> QED BY <2>2, <2>4, <2>5, <2>7 DEF new
<1>3. CASE ~(power.owner = b /\ ~power.durable)
  <2>1. new = power
    BY <1>3 DEF FencedPower
  <2>2. Alive(power, [phase EXCEPT ![b] = "dead"])
    BY <1>1, <1>3 DEF PowerLost, Alive, Owner
  <2>3. PowerLost(power, [phase EXCEPT ![b] = "dead"])
    BY <2>2 DEF PowerLost
  <2> QED BY <2>1, <2>3
<1> QED BY <1>2, <1>3

\* What fence_publisher leaves of the cooling envelope.
LEMMA FencedCoolingParts ==
    ASSUME NEW b \in Boots, NEW zs, cooling \in CoolingRecord(zs), ZonesDerived(cooling.zones),
           CoolingLost(cooling, phase), phase \in [Boots -> {"unknown", "live", "dead"}]
    PROVE  /\ FencedCooling(b) \in CoolingRecord(zs)
           /\ ZonesDerived(FencedCooling(b).zones)
           /\ CoolingLost(FencedCooling(b), [phase EXCEPT ![b] = "dead"])
           /\ \A z \in zs : is_current(FencedCooling(b).zones[z].thermal_headroom.ev)
                              => is_current(cooling.zones[z].thermal_headroom.ev)
<1> DEFINE new == FencedCooling(b)
<1>1. /\ cooling.known \in BOOLEAN /\ cooling.owner \in Owner /\ cooling.durable \in BOOLEAN
      /\ cooling.reval \in BOOLEAN /\ cooling.zones \in [zs -> ZoneRecord]
      /\ DOMAIN cooling.zones = zs
  BY RecordParts
<1>2. CASE cooling.owner = b /\ ~cooling.durable
  <2>1. /\ new \in CoolingRecord(zs) /\ new.zones = SilencedZones(cooling.zones)
        /\ new.known = cooling.known /\ new.owner = cooling.owner
        /\ new.durable = cooling.durable /\ new.reval = TRUE
    BY <1>1, <1>2, SilencedZonesParts DEF FencedCooling, CoolingRecord
  <2> HIDE DEF new
  <2>2. ZonesDerived(new.zones)
    BY <1>1, <2>1, SilencedZonesParts
  <2>3. /\ DOMAIN new.zones = zs
        /\ \A z \in zs : ~new.zones[z].observed /\ ~present(new.zones[z].thermal_headroom)
                        /\ ~is_current(new.zones[z].thermal_headroom.ev)
    BY <1>1, <2>1, SilencedZonesParts
  <2>4. CoolingLost(new, [phase EXCEPT ![b] = "dead"])
    BY <2>1, <2>3 DEF CoolingLost, Alive
  <2> QED BY <2>1, <2>2, <2>3, <2>4 DEF new
<1>3. CASE ~(cooling.owner = b /\ ~cooling.durable)
  <2>1. new = cooling
    BY <1>3 DEF FencedCooling
  <2>2. Alive(cooling, [phase EXCEPT ![b] = "dead"])
    BY <1>1, <1>3 DEF CoolingLost, Alive, Owner
  <2>3. CoolingLost(cooling, [phase EXCEPT ![b] = "dead"])
    BY <2>2 DEF CoolingLost
  <2> QED BY <2>1, <2>3
<1> QED BY <1>2, <1>3

\* What apply_recovery_policy leaves of the power envelope: nobody owns it.
LEMMA RecoveredPowerParts ==
    ASSUME power \in PowerRecord, SlotsDerived(power.slots), PowerLost(power, phase), NEW ph
    PROVE  /\ RecoveredPower \in PowerRecord
           /\ SlotsDerived(RecoveredPower.slots)
           /\ PowerLost(RecoveredPower, ph)
           /\ \A s \in Slots : is_current(RecoveredPower.slots[s].headroom.ev)
                                 => is_current(power.slots[s].headroom.ev)
<1> DEFINE new == RecoveredPower
           all == [s \in Slots |-> Silenced(power.slots[s])]
           sl == IF power.durable THEN power.slots ELSE all
<1>1. /\ power.known \in BOOLEAN /\ power.owner \in Owner /\ power.durable \in BOOLEAN
      /\ power.reval \in BOOLEAN /\ power.slots \in [Slots -> SlotRecord] /\ Rack \in Slots
  BY RecordParts DEF Slots
<1>2. /\ all \in [Slots -> SlotRecord]
      /\ \A s \in Slots : all[s] = Silenced(power.slots[s]) /\ power.slots[s] \in SlotRecord
  BY <1>1, SilencedParts
<1>3. sl \in [Slots -> SlotRecord]
  BY <1>1, <1>2
<1>4. None \in Owner /\ (power.reval \/ ~power.durable \/ power.owner # None) \in BOOLEAN
  BY DEF Owner
<1>5. new = [power EXCEPT !.reval = power.reval \/ ~power.durable \/ power.owner # None,
                          !.owner = None, !.slots = sl]
  BY DEF RecoveredPower
<1> HIDE DEF new, all, sl
<1>6. /\ new \in PowerRecord /\ new.slots = sl
      /\ new.known = power.known /\ new.owner = None /\ new.durable = power.durable
  BY <1>1, <1>3, <1>4, <1>5 DEF PowerRecord, SlotRecord
<1>7. CASE power.durable
  <2>1. new.slots = power.slots
    BY <1>6, <1>7 DEF sl
  <2> QED BY <1>6, <1>7, <2>1 DEF PowerLost, Alive, new
<1>8. CASE ~power.durable
  <2>1. \A s \in Slots : new.slots[s] = Silenced(power.slots[s]) /\ power.slots[s] \in SlotRecord
    BY <1>2, <1>6, <1>8 DEF sl
  <2>2. SlotsDerived(new.slots)
    BY <2>1, SilencedParts DEF SlotsDerived
  <2>3. \A s \in Slots : SilentSlot(new.slots[s]) /\ ~is_current(new.slots[s].headroom.ev)
    BY <2>1, SilencedParts
  <2>4. PowerLost(new, ph)
    BY <1>1, <1>6, <2>3 DEF PowerLost, Alive
  <2> QED BY <1>6, <2>2, <2>3, <2>4 DEF new
<1> QED BY <1>7, <1>8

\* What apply_recovery_policy leaves of the cooling envelope.
LEMMA RecoveredCoolingParts ==
    ASSUME NEW zs, cooling \in CoolingRecord(zs), ZonesDerived(cooling.zones),
           CoolingLost(cooling, phase), NEW ph
    PROVE  /\ RecoveredCooling \in CoolingRecord(zs)
           /\ ZonesDerived(RecoveredCooling.zones)
           /\ CoolingLost(RecoveredCooling, ph)
           /\ \A z \in zs : is_current(RecoveredCooling.zones[z].thermal_headroom.ev)
                              => is_current(cooling.zones[z].thermal_headroom.ev)
<1> DEFINE new == RecoveredCooling
           silenced == SilencedZones(cooling.zones)
           zo == IF cooling.durable THEN cooling.zones ELSE silenced
<1>1. /\ cooling.known \in BOOLEAN /\ cooling.owner \in Owner /\ cooling.durable \in BOOLEAN
      /\ cooling.reval \in BOOLEAN /\ cooling.zones \in [zs -> ZoneRecord]
      /\ DOMAIN cooling.zones = zs
  BY RecordParts
<1>2. /\ silenced \in [zs -> ZoneRecord] /\ DOMAIN silenced = zs /\ ZonesDerived(silenced)
      /\ \A z \in zs : ~silenced[z].observed /\ ~present(silenced[z].thermal_headroom)
                      /\ ~is_current(silenced[z].thermal_headroom.ev)
  BY <1>1, SilencedZonesParts
<1>3. None \in Owner /\ (cooling.reval \/ ~cooling.durable \/ cooling.owner # None) \in BOOLEAN
  BY DEF Owner
<1>4. new = [cooling EXCEPT !.reval = cooling.reval \/ ~cooling.durable \/ cooling.owner # None,
                            !.owner = None, !.zones = zo]
  BY DEF RecoveredCooling
<1>5. zo \in [zs -> ZoneRecord]
  BY <1>1, <1>2
<1> HIDE DEF new, silenced, zo
<1>6. /\ new \in CoolingRecord(zs) /\ new.zones = zo
      /\ new.known = cooling.known /\ new.owner = None /\ new.durable = cooling.durable
  BY <1>1, <1>3, <1>4, <1>5 DEF CoolingRecord
<1>7. CASE cooling.durable
  <2>1. new.zones = cooling.zones
    BY <1>6, <1>7 DEF zo
  <2> QED BY <1>6, <1>7, <2>1 DEF CoolingLost, Alive, new
<1>8. CASE ~cooling.durable
  <2>1. new.zones = silenced
    BY <1>6, <1>8 DEF zo
  <2>2. CoolingLost(new, ph)
    BY <1>2, <1>6, <2>1 DEF CoolingLost, Alive
  <2> QED BY <1>2, <1>6, <2>1, <2>2 DEF new
<1> QED BY <1>7, <1>8

\* Time brings no headroom into force and no observation back.
LEMMA OlderSlotsParts ==
    ASSUME NEW slots \in [Slots -> SlotRecord], SlotsDerived(slots)
    PROVE  /\ OlderSlots(slots) \in [Slots -> SlotRecord]
           /\ SlotsDerived(OlderSlots(slots))
           /\ \A s \in Slots :
                 /\ SilentSlot(slots[s]) => SilentSlot(OlderSlots(slots)[s])
                 /\ is_current(OlderSlots(slots)[s].headroom.ev)
                      => is_current(slots[s].headroom.ev)
<1> DEFINE new == OlderSlots(slots)
<1>1. DOMAIN new = Slots /\ new = [s \in Slots |-> new[s]]
  BY DEF OlderSlots
<1>2. ASSUME NEW s \in Slots
      PROVE  /\ new[s] \in SlotRecord
             /\ Derived(new[s].headroom, new[s].limit, new[s].draw)
             /\ SilentSlot(slots[s]) => SilentSlot(new[s])
             /\ is_current(new[s].headroom.ev) => is_current(slots[s].headroom.ev)
  <2> DEFINE l == slots[s].limit  u == slots[s].draw  h == slots[s].headroom
  <2>1. l \in Quantity /\ u \in Quantity /\ h \in Quantity
    BY <1>2 DEF SlotRecord
  <2>2. new[s] = [limit |-> Older(l), draw |-> Older(u), headroom |-> Older(h)]
    BY <1>2 DEF OlderSlots
  <2>3. /\ Older(l) \in Quantity /\ Older(u) \in Quantity /\ Older(h) \in Quantity
        /\ Older(u).unit = u.unit /\ Older(h).unit = h.unit
    BY <2>1, OlderParts
  <2>4. Derived(h, l, u)
    BY <1>2 DEF SlotsDerived
  <2>5. /\ Derived(Older(h), Older(l), Older(u))
        /\ is_current(Older(h).ev) => is_current(h.ev)
    BY <2>1, <2>4, OlderDerived
  <2>6. SilentSlot(slots[s]) <=> ~present(u) /\ ~present(h)
    BY DEF SilentSlot
  <2> HIDE DEF new, l, u, h
  <2>7. new[s].limit = Older(l) /\ new[s].draw = Older(u) /\ new[s].headroom = Older(h)
    BY <2>2
  <2>8. new[s] \in SlotRecord
    BY <2>2, <2>3 DEF SlotRecord
  <2>9. SilentSlot(slots[s]) => SilentSlot(new[s])
    BY <2>3, <2>6, <2>7 DEF SilentSlot, present
  <2> QED BY <2>5, <2>7, <2>8, <2>9 DEF h
<1> HIDE DEF new
<1> QED BY <1>1, <1>2 DEF SlotsDerived, new

\* The same of the zones.
LEMMA OlderZonesParts ==
    ASSUME NEW zs, NEW zones \in [zs -> ZoneRecord], ZonesDerived(zones)
    PROVE  /\ OlderZones(zones) \in [zs -> ZoneRecord]
           /\ DOMAIN OlderZones(zones) = zs
           /\ ZonesDerived(OlderZones(zones))
           /\ \A z \in zs :
                 /\ OlderZones(zones)[z].observed = zones[z].observed
                 /\ OlderZones(zones)[z].thermal_headroom.unit = zones[z].thermal_headroom.unit
                 /\ is_current(OlderZones(zones)[z].thermal_headroom.ev)
                      => is_current(zones[z].thermal_headroom.ev)
<1> DEFINE new == OlderZones(zones)
<1>1. DOMAIN new = zs /\ new = [z \in zs |-> new[z]]
  BY DEF OlderZones
<1>2. ASSUME NEW z \in zs
      PROVE  /\ new[z] \in ZoneRecord
             /\ Derived(new[z].thermal_headroom, new[z].cooling_capacity,
                        new[z].design_thermal_limit)
             /\ new[z].observed = zones[z].observed
             /\ new[z].thermal_headroom.unit = zones[z].thermal_headroom.unit
             /\ is_current(new[z].thermal_headroom.ev)
                  => is_current(zones[z].thermal_headroom.ev)
  <2> DEFINE l == zones[z].cooling_capacity  u == zones[z].design_thermal_limit
             h == zones[z].thermal_headroom
  <2>1. l \in Quantity /\ u \in Quantity /\ h \in Quantity /\ zones[z] \in ZoneRecord
    BY <1>2 DEF ZoneRecord
  <2>2. new[z] = [zones[z] EXCEPT !.cooling_capacity = Older(l), !.design_thermal_limit = Older(u),
                                  !.thermal_headroom = Older(h)]
    BY <1>2 DEF OlderZones
  <2>3. /\ Older(l) \in Quantity /\ Older(u) \in Quantity /\ Older(h) \in Quantity
        /\ Older(h).unit = h.unit
    BY <2>1, OlderParts
  <2>4. Derived(h, l, u)
    BY <1>2 DEF ZonesDerived
  <2>5. /\ Derived(Older(h), Older(l), Older(u))
        /\ is_current(Older(h).ev) => is_current(h.ev)
    BY <2>1, <2>4, OlderDerived
  <2> HIDE DEF new, l, u, h
  <2>6. /\ new[z] \in ZoneRecord
        /\ new[z].cooling_capacity = Older(l) /\ new[z].design_thermal_limit = Older(u)
        /\ new[z].thermal_headroom = Older(h) /\ new[z].observed = zones[z].observed
    BY <2>1, <2>2, <2>3 DEF ZoneRecord
  <2> QED BY <2>3, <2>5, <2>6 DEF h
<1> HIDE DEF new
<1> QED BY <1>1, <1>2 DEF ZonesDerived, new

-----------------------------------------------------------------------------
(* The invariant and the steps *)

\* What the invariant is about, part by part.
LEMMA IndParts ==
    EnvelopesIndInv <=>
        /\ phase \in [Boots -> {"unknown", "live", "dead"}]
        /\ coolingDomains \subseteq Zones
        /\ generations \in [power : 0..MaxGen, cooling : 0..MaxGen, constraints : 0..MaxGen]
        /\ power \in PowerRecord /\ SlotsDerived(power.slots) /\ PowerLost(power, phase)
        /\ cooling \in CoolingRecord(DOMAIN cooling.zones)
        /\ DOMAIN cooling.zones \subseteq coolingDomains
        /\ ZonesDerived(cooling.zones) /\ CoolingLost(cooling, phase)
  BY LostOfEach DEF EnvelopesIndInv, EnvelopesTypeOK

\* The same of the state after a step.
LEMMA IndPartsAfter ==
    EnvelopesIndInv' <=>
        /\ phase' \in [Boots -> {"unknown", "live", "dead"}]
        /\ coolingDomains' \subseteq Zones
        /\ generations' \in [power : 0..MaxGen, cooling : 0..MaxGen, constraints : 0..MaxGen]
        /\ power' \in PowerRecord /\ SlotsDerived(power'.slots) /\ PowerLost(power', phase')
        /\ cooling' \in CoolingRecord(DOMAIN cooling'.zones)
        /\ DOMAIN cooling'.zones \subseteq coolingDomains'
        /\ ZonesDerived(cooling'.zones) /\ CoolingLost(cooling', phase')
  BY LostOfEachAfter DEF EnvelopesIndInv, EnvelopesTypeOK, SlotsDerived, ZonesDerived

\* What HeadroomNeverRevives says of a step.
NoRevival ==
    /\ \A s \in Slots :
          is_current(power.slots[s].headroom.ev)' =>
             \/ is_current(power.slots[s].headroom.ev)
             \/ generations.power' > generations.power
    /\ \A z \in DOMAIN cooling.zones' :
          is_current(cooling.zones[z].thermal_headroom.ev)' =>
             \/ z \in DOMAIN cooling.zones /\ is_current(cooling.zones[z].thermal_headroom.ev)
             \/ generations.cooling' > generations.cooling

\* A step that changes neither envelope and fences nobody.
LEMMA NothingPublished ==
    ASSUME EnvelopesIndInv, UNCHANGED <<power, cooling, generations>>,
           phase' \in [Boots -> {"unknown", "live", "dead"}],
           \A b \in Boots : phase[b] = "live" => phase'[b] = "live",
           coolingDomains \subseteq coolingDomains', coolingDomains' \subseteq Zones
    PROVE  EnvelopesIndInv' /\ NoRevival
<1>1. power.owner \in Boots \cup {None} /\ cooling.owner \in Boots \cup {None}
  BY IndParts, RecordParts DEF Owner
<1>2. Alive(power, phase') /\ Alive(cooling, phase')
  BY <1>1, IndParts DEF Alive, PowerLost, CoolingLost
<1>3. PowerLost(power, phase') /\ CoolingLost(cooling, phase')
  BY <1>2, IndParts DEF PowerLost, CoolingLost
<1>4. EnvelopesIndInv'
  BY <1>3, IndParts, IndPartsAfter
<1>5. NoRevival
  BY DEF NoRevival
<1> QED BY <1>4, <1>5

\* A new process.
LEMMA RegisterInv ==
    ASSUME EnvelopesIndInv, NEW b \in Boots, Register(b)
    PROVE  EnvelopesIndInv' /\ NoRevival
<1>1. phase' = [phase EXCEPT ![b] = "live"] /\ phase \in [Boots -> {"unknown", "live", "dead"}]
  BY IndParts DEF Register
<1>2. /\ phase' \in [Boots -> {"unknown", "live", "dead"}]
      /\ \A c \in Boots : phase[c] = "live" => phase'[c] = "live"
  BY <1>1
<1>3. UNCHANGED <<coolingDomains, power, cooling, generations>> /\ coolingDomains \subseteq Zones
  BY IndParts DEF Register
<1> QED BY <1>2, <1>3, NothingPublished

\* A member record of a cooling domain.
LEMMA PublishCoolingDomainInv ==
    ASSUME EnvelopesIndInv, NEW z \in Zones, PublishCoolingDomain(z)
    PROVE  EnvelopesIndInv' /\ NoRevival
<1>1. /\ UNCHANGED <<power, cooling, generations>> /\ phase' = phase
      /\ coolingDomains \subseteq coolingDomains' /\ coolingDomains' \subseteq Zones
  BY IndParts DEF PublishCoolingDomain
<1>2. /\ phase' \in [Boots -> {"unknown", "live", "dead"}]
      /\ \A c \in Boots : phase[c] = "live" => phase'[c] = "live"
  BY <1>1, IndParts
<1> QED BY <1>1, <1>2, NothingPublished

\* publish_power_envelope: the counter moves, and what is stored is not flagged and
\* belongs to a live process or to the operator.
LEMMA PublishPowerInv ==
    ASSUME EnvelopesIndInv, NEW tok \in Token, NEW durable \in BOOLEAN, NEW basis,
           NEW slots \in RequestSlots, PublishPowerEnvelope(tok, slots, durable, basis)
    PROVE  EnvelopesIndInv' /\ NoRevival
<1> DEFINE sl == recompute_power_derived(slots)
<1>1. sl \in [Slots -> SlotRecord] /\ SlotsDerived(sl)
  BY PublishedSlots
<1>2. tok \in Owner /\ (tok # None => phase[tok] = "live")
  BY DEF Token, Owner
<1>3. /\ power' = [known |-> TRUE, owner |-> tok, durable |-> durable, reval |-> FALSE, slots |-> sl]
      /\ phase' = phase /\ coolingDomains' = coolingDomains /\ cooling' = cooling
  BY DEF PublishPowerEnvelope
<1>4. generations' \in [power : 0..MaxGen, cooling : 0..MaxGen, constraints : 0..MaxGen]
      /\ generations.power' > generations.power
  <2>1. /\ generations' = [generations EXCEPT !.power = generations.power + 1,
                                              !.constraints = Next1(generations.constraints)]
        /\ generations.power < MaxGen
    BY DEF PublishPowerEnvelope, MayReplace
  <2>2. generations \in [power : 0..MaxGen, cooling : 0..MaxGen, constraints : 0..MaxGen]
    BY IndParts
  <2>3. \A g \in 0..MaxGen : Next1(g) \in 0..MaxGen
    BY MinOfTwo, EnvelopeAssumption DEF Next1
  <2>4. generations.power + 1 \in 0..MaxGen /\ generations.power \in Int
    BY <2>1, <2>2, EnvelopeAssumption
  <2>5. Next1(generations.constraints) \in 0..MaxGen
    BY <2>2, <2>3
  <2>6. /\ generations' \in [power : 0..MaxGen, cooling : 0..MaxGen, constraints : 0..MaxGen]
        /\ generations'.power = generations.power + 1
    BY <2>1, <2>2, <2>4, <2>5
  <2> QED BY <2>4, <2>6
<1> HIDE DEF sl
<1>5. /\ power' \in PowerRecord /\ power'.slots = sl
      /\ power'.owner = tok /\ power'.reval = FALSE
  BY <1>1, <1>2, <1>3 DEF PowerRecord, SlotRecord
<1>6. PowerLost(power', phase')
  BY <1>2, <1>3, <1>5 DEF PowerLost, Alive
<1>7. EnvelopesIndInv'
  BY <1>1, <1>3, <1>4, <1>5, <1>6, IndParts, IndPartsAfter
<1>8. NoRevival
  BY <1>3, <1>4 DEF NoRevival
<1> QED BY <1>7, <1>8

\* publish_cooling_envelope.
LEMMA PublishCoolingInv ==
    ASSUME EnvelopesIndInv, NEW tok \in Token, NEW durable \in BOOLEAN, NEW basis,
           NEW zones \in RequestZones, PublishCoolingEnvelope(tok, zones, durable, basis)
    PROVE  EnvelopesIndInv' /\ NoRevival
<1> DEFINE zo == recompute_cooling_derived(zones)
<1>1. zo \in [DOMAIN zones -> ZoneRecord] /\ DOMAIN zo = DOMAIN zones /\ ZonesDerived(zo)
  BY PublishedZones
<1>2. tok \in Owner /\ (tok # None => phase[tok] = "live")
  BY DEF Token, Owner
<1>3. /\ cooling' = [known |-> TRUE, owner |-> tok, durable |-> durable, reval |-> FALSE, zones |-> zo]
      /\ phase' = phase /\ coolingDomains' = coolingDomains /\ power' = power
      /\ DOMAIN zones \subseteq coolingDomains
  BY DEF PublishCoolingEnvelope
<1>4. generations' \in [power : 0..MaxGen, cooling : 0..MaxGen, constraints : 0..MaxGen]
      /\ generations.cooling' > generations.cooling
  <2>1. /\ generations' = [generations EXCEPT !.cooling = generations.cooling + 1,
                                              !.constraints = Next1(generations.constraints)]
        /\ generations.cooling < MaxGen
    BY DEF PublishCoolingEnvelope, MayReplace
  <2>2. generations \in [power : 0..MaxGen, cooling : 0..MaxGen, constraints : 0..MaxGen]
    BY IndParts
  <2>3. \A g \in 0..MaxGen : Next1(g) \in 0..MaxGen
    BY MinOfTwo, EnvelopeAssumption DEF Next1
  <2>4. generations.cooling + 1 \in 0..MaxGen /\ generations.cooling \in Int
    BY <2>1, <2>2, EnvelopeAssumption
  <2>5. Next1(generations.constraints) \in 0..MaxGen
    BY <2>2, <2>3
  <2>6. /\ generations' \in [power : 0..MaxGen, cooling : 0..MaxGen, constraints : 0..MaxGen]
        /\ generations'.cooling = generations.cooling + 1
    BY <2>1, <2>2, <2>4, <2>5
  <2> QED BY <2>4, <2>6
<1> HIDE DEF zo
<1>5. /\ cooling' \in CoolingRecord(DOMAIN zones) /\ cooling'.zones = zo
      /\ cooling'.owner = tok /\ cooling'.reval = FALSE
  BY <1>1, <1>2, <1>3 DEF CoolingRecord
<1>6. CoolingLost(cooling', phase')
  BY <1>2, <1>3, <1>5 DEF CoolingLost, Alive
<1>7. EnvelopesIndInv'
  BY <1>1, <1>3, <1>4, <1>5, <1>6, IndParts, IndPartsAfter
<1>8. NoRevival
  BY <1>3, <1>4 DEF NoRevival
<1> QED BY <1>7, <1>8

\* fence_publisher.
LEMMA FenceInv ==
    ASSUME EnvelopesIndInv, NEW b \in Boots, Fence(b)
    PROVE  EnvelopesIndInv' /\ NoRevival
<1> DEFINE zs == DOMAIN cooling.zones
<1>1. /\ phase' = [phase EXCEPT ![b] = "dead"] /\ power' = FencedPower(b)
      /\ cooling' = FencedCooling(b)
      /\ coolingDomains' = coolingDomains /\ generations' = generations
  BY DEF Fence
<1>2. /\ power' \in PowerRecord /\ SlotsDerived(power'.slots) /\ PowerLost(power', phase')
      /\ \A s \in Slots : is_current(power'.slots[s].headroom.ev)
                          => is_current(power.slots[s].headroom.ev)
  BY <1>1, FencedPowerParts, IndParts
<1>3. /\ cooling' \in CoolingRecord(zs) /\ ZonesDerived(cooling'.zones)
      /\ CoolingLost(cooling', phase')
      /\ \A z \in zs : is_current(cooling'.zones[z].thermal_headroom.ev)
                       => is_current(cooling.zones[z].thermal_headroom.ev)
  BY <1>1, FencedCoolingParts, IndParts
<1>4. DOMAIN cooling'.zones = zs
  BY <1>3, RecordParts
<1>5. phase' \in [Boots -> {"unknown", "live", "dead"}]
  BY <1>1, IndParts
<1> HIDE DEF zs
<1>6. EnvelopesIndInv'
  BY <1>1, <1>2, <1>3, <1>4, <1>5, IndParts, IndPartsAfter DEF zs
<1>7. NoRevival
  BY <1>2, <1>3, <1>4 DEF NoRevival, zs
<1> QED BY <1>6, <1>7

\* A restart.
LEMMA RestartInv ==
    ASSUME EnvelopesIndInv, Restart
    PROVE  EnvelopesIndInv' /\ NoRevival
<1> DEFINE zs == DOMAIN cooling.zones
<1>1. /\ phase' = [b \in Boots |-> IF phase[b] = "unknown" THEN "unknown" ELSE "dead"]
      /\ power' = RecoveredPower /\ cooling' = RecoveredCooling
      /\ coolingDomains' = coolingDomains /\ generations' = generations
  BY DEF Restart
<1>2. /\ power' \in PowerRecord /\ SlotsDerived(power'.slots) /\ PowerLost(power', phase')
      /\ \A s \in Slots : is_current(power'.slots[s].headroom.ev)
                          => is_current(power.slots[s].headroom.ev)
  BY <1>1, RecoveredPowerParts, IndParts
<1>3. /\ cooling' \in CoolingRecord(zs) /\ ZonesDerived(cooling'.zones)
      /\ CoolingLost(cooling', phase')
      /\ \A z \in zs : is_current(cooling'.zones[z].thermal_headroom.ev)
                       => is_current(cooling.zones[z].thermal_headroom.ev)
  BY <1>1, RecoveredCoolingParts, IndParts
<1>4. DOMAIN cooling'.zones = zs
  BY <1>3, RecordParts
<1>5. phase' \in [Boots -> {"unknown", "live", "dead"}]
  BY <1>1
<1> HIDE DEF zs
<1>6. EnvelopesIndInv'
  BY <1>1, <1>2, <1>3, <1>4, <1>5, IndParts, IndPartsAfter DEF zs
<1>7. NoRevival
  BY <1>2, <1>3, <1>4 DEF NoRevival, zs
<1> QED BY <1>6, <1>7

\* The clock.
LEMMA TickInv ==
    ASSUME EnvelopesIndInv, Tick
    PROVE  EnvelopesIndInv' /\ NoRevival
<1> DEFINE zs == DOMAIN cooling.zones
           sl == OlderSlots(power.slots)
           zo == OlderZones(cooling.zones)
<1>1. /\ power' = [power EXCEPT !.slots = sl] /\ cooling' = [cooling EXCEPT !.zones = zo]
      /\ phase' = phase /\ coolingDomains' = coolingDomains /\ generations' = generations
  BY DEF Tick
<1>2. power \in PowerRecord /\ power.slots \in [Slots -> SlotRecord] /\ Rack \in Slots
  BY IndParts, RecordParts DEF Slots
<1>3. cooling \in CoolingRecord(zs) /\ cooling.zones \in [zs -> ZoneRecord]
  BY IndParts, RecordParts
<1>4. /\ sl \in [Slots -> SlotRecord] /\ SlotsDerived(sl)
      /\ \A s \in Slots :
            /\ SilentSlot(power.slots[s]) => SilentSlot(sl[s])
            /\ is_current(sl[s].headroom.ev) => is_current(power.slots[s].headroom.ev)
  BY <1>2, OlderSlotsParts, IndParts
<1>5. /\ zo \in [zs -> ZoneRecord] /\ DOMAIN zo = zs /\ ZonesDerived(zo)
      /\ \A z \in zs :
            /\ zo[z].observed = cooling.zones[z].observed
            /\ zo[z].thermal_headroom.unit = cooling.zones[z].thermal_headroom.unit
            /\ is_current(zo[z].thermal_headroom.ev)
                 => is_current(cooling.zones[z].thermal_headroom.ev)
  BY <1>3, OlderZonesParts, IndParts
<1> HIDE DEF sl, zo, zs
<1>6. /\ power' \in PowerRecord /\ power'.slots = sl
      /\ power'.known = power.known /\ power'.owner = power.owner
      /\ power'.durable = power.durable /\ power'.reval = power.reval
  BY <1>1, <1>2, <1>4 DEF PowerRecord, SlotRecord
<1>7. /\ cooling' \in CoolingRecord(zs) /\ cooling'.zones = zo
      /\ cooling'.known = cooling.known /\ cooling'.owner = cooling.owner
      /\ cooling'.durable = cooling.durable /\ cooling'.reval = cooling.reval
  BY <1>1, <1>3, <1>5 DEF CoolingRecord
<1>8. PowerLost(power', phase')
  BY <1>1, <1>2, <1>4, <1>6, IndParts DEF PowerLost, Alive
<1>9. CoolingLost(cooling', phase')
  <2>1. Alive(cooling', phase')
    BY <1>1, <1>7, IndParts DEF CoolingLost, Alive
  <2>2. ASSUME cooling'.known /\ ~cooling'.durable /\ cooling'.reval, NEW z \in zs
        PROVE  ~zo[z].observed /\ ~present(zo[z].thermal_headroom)
    BY <1>5, <1>7, <2>2, IndParts DEF CoolingLost, present, zs
  <2> QED BY <1>5, <1>7, <2>1, <2>2 DEF CoolingLost
<1>10. EnvelopesIndInv'
  BY <1>1, <1>4, <1>5, <1>6, <1>7, <1>8, <1>9, IndParts, IndPartsAfter DEF zs
<1>11. NoRevival
  BY <1>4, <1>5, <1>6, <1>7 DEF NoRevival, zs
<1> QED BY <1>10, <1>11

-----------------------------------------------------------------------------
(* The theorems *)

\* A coordinator with neither envelope satisfies the invariant.
THEOREM EnvelopesInitInv == EnvelopesInit => EnvelopesIndInv
<1> SUFFICES ASSUME EnvelopesInit PROVE EnvelopesIndInv
  OBVIOUS
<1> DEFINE empty == [limit |-> NoQuantity, draw |-> NoQuantity, headroom |-> NoQuantity]
           sl == [s \in Slots |-> empty]
           zo == [z \in {} |-> {}]
<1>1. /\ phase = [b \in Boots |-> "unknown"] /\ coolingDomains = {}
      /\ power = [known |-> FALSE, owner |-> None, durable |-> TRUE, reval |-> FALSE, slots |-> sl]
      /\ cooling = [known |-> FALSE, owner |-> None, durable |-> TRUE, reval |-> FALSE, zones |-> zo]
      /\ generations = [power |-> 0, cooling |-> 0, constraints |-> 0]
  BY DEF EnvelopesInit, NoPower, NoCooling
<1>2. empty \in SlotRecord /\ empty.headroom = NoQuantity
  BY NothingDerived DEF SlotRecord
<1> HIDE DEF empty
<1>3. sl \in [Slots -> SlotRecord] /\ SlotsDerived(sl)
  BY <1>2, NothingDerived DEF SlotsDerived
<1>4. zo \in [{} -> ZoneRecord] /\ DOMAIN zo = {} /\ ZonesDerived(zo)
  BY DEF ZonesDerived
<1>5. None \in Owner
  BY DEF Owner
<1> HIDE DEF sl, zo
<1>6. power \in PowerRecord /\ power.slots = sl /\ ~power.known
  BY <1>1, <1>3, <1>5 DEF PowerRecord, SlotRecord
<1>7. cooling \in CoolingRecord({}) /\ cooling.zones = zo /\ ~cooling.known
  BY <1>1, <1>4, <1>5 DEF CoolingRecord
<1>8. PowerLost(power, phase) /\ CoolingLost(cooling, phase)
  BY <1>6, <1>7 DEF PowerLost, CoolingLost, Alive
<1>9. generations \in [power : 0..MaxGen, cooling : 0..MaxGen, constraints : 0..MaxGen]
  <2>1. 0 \in 0..MaxGen
    BY EnvelopeAssumption
  <2> QED BY <1>1, <2>1
<1>10. phase \in [Boots -> {"unknown", "live", "dead"}] /\ coolingDomains \subseteq Zones
  BY <1>1
<1> QED BY <1>1, <1>3, <1>4, <1>6, <1>7, <1>8, <1>9, <1>10, IndParts

\* Every step preserves the invariant, and brings no headroom back.
THEOREM EnvelopesStepInv ==
    EnvelopesIndInv /\ [EnvelopesNext]_envelopeVars
        => EnvelopesIndInv' /\ [NoRevival]_envelopeVars
<1> SUFFICES ASSUME EnvelopesIndInv, [EnvelopesNext]_envelopeVars
             PROVE  EnvelopesIndInv' /\ [NoRevival]_envelopeVars
  OBVIOUS
<1>1. ASSUME NEW b \in Boots, Register(b) PROVE EnvelopesIndInv' /\ NoRevival
  BY <1>1, RegisterInv
<1>2. ASSUME NEW b \in Boots, Fence(b) PROVE EnvelopesIndInv' /\ NoRevival
  BY <1>2, FenceInv
<1>3. ASSUME NEW z \in Zones, PublishCoolingDomain(z) PROVE EnvelopesIndInv' /\ NoRevival
  BY <1>3, PublishCoolingDomainInv
<1>4. ASSUME NEW tok \in Token, NEW durable \in BOOLEAN, NEW basis \in {0, 1},
             NEW slots \in RequestSlots, PublishPowerEnvelope(tok, slots, durable, basis)
      PROVE  EnvelopesIndInv' /\ NoRevival
  BY <1>4, PublishPowerInv
<1>5. ASSUME NEW tok \in Token, NEW durable \in BOOLEAN, NEW basis \in {0, 1},
             NEW zones \in RequestZones, PublishCoolingEnvelope(tok, zones, durable, basis)
      PROVE  EnvelopesIndInv' /\ NoRevival
  BY <1>5, PublishCoolingInv
<1>6. ASSUME Restart PROVE EnvelopesIndInv' /\ NoRevival
  BY <1>6, RestartInv
<1>7. ASSUME Tick PROVE EnvelopesIndInv' /\ NoRevival
  BY <1>7, TickInv
<1>8. ASSUME UNCHANGED envelopeVars PROVE EnvelopesIndInv'
  BY <1>8, IndParts, IndPartsAfter DEF envelopeVars
<1> QED BY <1>1, <1>2, <1>3, <1>4, <1>5, <1>6, <1>7, <1>8 DEF EnvelopesNext

\* A headroom, its limit and its load, wherever it stands.
LEMMA DerivationParts ==
    ASSUME EnvelopesIndInv, NEW d \in Derivations
    PROVE  d[1] \in Quantity /\ d[2] \in Quantity /\ d[3] \in Quantity
           /\ Derived(d[1], d[2], d[3])
<1>1. /\ power.slots \in [Slots -> SlotRecord]
      /\ cooling.zones \in [DOMAIN cooling.zones -> ZoneRecord]
      /\ SlotsDerived(power.slots) /\ ZonesDerived(cooling.zones)
  BY IndParts, RecordParts
<1>2. CASE \E s \in Slots :
             d = <<power.slots[s].headroom, power.slots[s].limit, power.slots[s].draw>>
  BY <1>1, <1>2 DEF SlotsDerived, SlotRecord
<1>3. CASE \E z \in DOMAIN cooling.zones :
             d = <<cooling.zones[z].thermal_headroom, cooling.zones[z].cooling_capacity,
                   cooling.zones[z].design_thermal_limit>>
  BY <1>1, <1>3 DEF ZonesDerived, ZoneRecord
<1> QED BY <1>2, <1>3 DEF Derivations

\* What the runs check of a state follows from the invariant.
LEMMA IndInvImplies ==
    EnvelopesIndInv => EnvelopesInv /\ FreshHeadroomHasFreshInput
<1> SUFFICES ASSUME EnvelopesIndInv PROVE EnvelopesInv /\ FreshHeadroomHasFreshInput
  OBVIOUS
<1>1. HeadroomIsSupported
  BY DerivationParts DEF HeadroomIsSupported, Derived, Supported
<1>2. FreshHeadroomHasFreshInput
  BY DerivationParts, DerivedFresh DEF FreshHeadroomHasFreshInput
<1> QED BY <1>1, <1>2 DEF EnvelopesInv, EnvelopesIndInv

\* Wherever publish_power_envelope, publish_cooling_envelope, fence_publisher and
\* apply_recovery_policy leave a headroom, the limit and the load it is the difference
\* of stand beside it in one unit, and an ephemeral envelope of a process that is gone
\* holds none of its observations.
THEOREM EnvelopesCorrect == EnvelopesSpec => []EnvelopesInv
<1>1. EnvelopesInit => EnvelopesIndInv
  BY EnvelopesInitInv
<1>2. EnvelopesIndInv /\ [EnvelopesNext]_envelopeVars => EnvelopesIndInv'
  BY EnvelopesStepInv
<1>3. EnvelopesIndInv => EnvelopesInv
  BY IndInvImplies
<1> QED BY <1>1, <1>2, <1>3, PTL DEF EnvelopesSpec

\* The evidence headroom_of gives a headroom expires no later than that of both inputs:
\* one that reads as current has an input that does, whatever the quantities of the
\* requests, the time-to-live, and what is fenced or restarted in between.
THEOREM FreshHeadroomFounded == EnvelopesSpec => []FreshHeadroomHasFreshInput
<1>1. EnvelopesInit => EnvelopesIndInv
  BY EnvelopesInitInv
<1>2. EnvelopesIndInv /\ [EnvelopesNext]_envelopeVars => EnvelopesIndInv'
  BY EnvelopesStepInv
<1>3. EnvelopesIndInv => FreshHeadroomHasFreshInput
  BY IndInvImplies
<1> QED BY <1>1, <1>2, <1>3, PTL DEF EnvelopesSpec

\* A headroom that has expired, or was taken away by a fence or a restart, is current
\* again only once a publication has moved the generation of its envelope.
THEOREM HeadroomStaysDown == EnvelopesSpec => HeadroomNeverRevives
<1>1. EnvelopesInit => EnvelopesIndInv
  BY EnvelopesInitInv
<1>2. EnvelopesIndInv /\ [EnvelopesNext]_envelopeVars
        => EnvelopesIndInv' /\ [NoRevival]_envelopeVars
  BY EnvelopesStepInv
<1>3. EnvelopesSpec => [][NoRevival]_envelopeVars
  BY <1>1, <1>2, PTL DEF EnvelopesSpec
<1> QED BY <1>3 DEF HeadroomNeverRevives, NoRevival
=============================================================================
