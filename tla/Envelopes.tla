------------------------------ MODULE Envelopes ------------------------------
(***************************************************************************)
(* The power and the cooling envelope: quantities with a unit and a        *)
(* lifetime, the headroom derived from them, and what fencing and a        *)
(* restart leave of both.                                                  *)
(*                                                                         *)
(* An optional quantity that is absent is NoQuantity, the one without a    *)
(* unit.  Of a cooling zone's temperature and throttling only whether      *)
(* they are there is kept.  A record's generation is the counter's, which  *)
(* both publications set together.  The evidence of an envelope as a whole *)
(* is in Readiness, faults of the file are in Recovery.                    *)
(***************************************************************************)
EXTENDS Evidence, FiniteSetsExt

CONSTANTS
    Boots,          \* boot identities
    PowerDomains,   \* domains with a budget in the power envelope
    Zones,          \* cooling domains
    Limits,         \* quantities a request may give as a limit or a capacity
    Draws,          \* quantities a request may give as a draw or a thermal load
    Rack,           \* the slot of the rack's own limit and draw
    None,           \* the operator, and the absence of an owner
    MaxGen          \* the largest value of a generation counter

Units == {"None", "Watts", "Amperes"}
Quantity == [value : Int, unit : Units, ev : EvidenceValue]
NoQuantity == [value |-> 0, unit |-> "None", ev |-> NoEvidence]

ASSUME EnvelopeAssumption ==
    /\ None \notin Boots
    /\ Rack \notin PowerDomains
    /\ MaxGen \in Nat \ {0}
    /\ Limits \cup Draws \subseteq Quantity

VARIABLES
    phase,          \* phase[b]: "unknown", "live" or "dead"
    coolingDomains, \* the zones with a member record
    power,          \* the power envelope
    cooling,        \* the cooling envelope
    generations     \* generations.power, .cooling and .constraints

envelopeVars == <<phase, coolingDomains, power, cooling, generations>>

Owner == Boots \cup {None}
Slots == {Rack} \cup PowerDomains

present(q) == q.unit # "None"

\* What a request says of a domain or of a zone; a zone's temperature comes with it.
PowerSlot == [limit : Limits, draw : Draws]
CoolingZone == [cooling_capacity : Limits, design_thermal_limit : Draws, observed : {TRUE}]

NoPower ==
    [known |-> FALSE, owner |-> None, durable |-> TRUE, reval |-> FALSE,
     slots |-> [s \in Slots |-> [limit |-> NoQuantity, draw |-> NoQuantity,
                                 headroom |-> NoQuantity]]]

NoCooling ==
    [known |-> FALSE, owner |-> None, durable |-> TRUE, reval |-> FALSE,
     zones |-> [z \in {} |-> {}]]

EnvelopesInit ==
    /\ phase = [b \in Boots |-> "unknown"]
    /\ coolingDomains = {}
    /\ power = NoPower
    /\ cooling = NoCooling
    /\ generations = [power |-> 0, cooling |-> 0, constraints |-> 0]

-----------------------------------------------------------------------------
(* Quantities *)

\* A quantity that may be stored: in its unit, not negative, with valid evidence.
validate_quantity(q, unit) ==
    present(q) => q.unit = unit /\ q.value >= 0 /\ validate_evidence(q.ev)

\* Mutated form of headroom_of: it is dated when it is derived.
headroom_dated_now(total, used) ==
    IF /\ present(total) /\ present(used) /\ total.unit = used.unit
       /\ is_current(total.ev) /\ is_current(used.ev)
       /\ total.value >= used.value
    THEN [value |-> total.value - used.value, unit |-> total.unit,
          ev |-> [prov |-> "Physical", age |-> 0,
                  ttl |-> Min({total.ev.ttl, used.ev.ttl}), durable |-> FALSE, reval |-> FALSE]]
    ELSE NoQuantity

\* Mutated form of headroom_of: the inputs need not be current.
headroom_of_any(total, used) ==
    IF present(total) /\ present(used) /\ total.unit = used.unit /\ total.value >= used.value
    THEN [value |-> total.value - used.value, unit |-> total.unit,
          ev |-> [prov |-> "Physical", age |-> Min({total.ev.age, used.ev.age}),
                  ttl |-> Min({total.ev.ttl, used.ev.ttl}), durable |-> FALSE, reval |-> FALSE]]
    ELSE NoQuantity

\* Derived only when both inputs are there, comparable and current, and not when
\* it would be negative: observed with the younger input (the lower age), with the
\* shorter time-to-live, ephemeral whatever the inputs are.
headroom_of(total, used) ==
    IF /\ present(total) /\ present(used) /\ total.unit = used.unit
       /\ is_current(total.ev) /\ is_current(used.ev)
       /\ total.value >= used.value
    THEN [value |-> total.value - used.value, unit |-> total.unit,
          ev |-> [prov |-> "Physical", age |-> Min({total.ev.age, used.ev.age}),
                  ttl |-> Min({total.ev.ttl, used.ev.ttl}), durable |-> FALSE, reval |-> FALSE]]
    ELSE NoQuantity

recompute_power_derived(slots) ==
    [s \in Slots |-> [limit |-> slots[s].limit, draw |-> slots[s].draw,
                      headroom |-> headroom_of(slots[s].limit, slots[s].draw)]]

recompute_cooling_derived(zones) ==
    [z \in DOMAIN zones |->
        [cooling_capacity |-> zones[z].cooling_capacity,
         design_thermal_limit |-> zones[z].design_thermal_limit,
         observed |-> zones[z].observed,
         thermal_headroom |-> headroom_of(zones[z].cooling_capacity,
                                          zones[z].design_thermal_limit)]]

-----------------------------------------------------------------------------
(* Handlers *)

Token == {b \in Boots : phase[b] = "live"} \cup {None}

Next1(g) == Min({g + 1, MaxGen})

\* The generation checks of both publications.  basis is the older of the generation
\* the request expects and the one its record carries, 0 when it gives neither; one
\* ahead of the counter passes.
MayReplace(known, gen, basis) ==
    /\ known => basis = 0 \/ basis >= gen
    /\ gen < MaxGen

\* publish_power_envelope: the rack's limit is in Watts, its draw in any unit,
\* budgets are stored as they come.  Nobody asks who published the last one.
PublishPowerEnvelope(tok, slots, durable, basis) ==
    /\ validate_quantity(slots[Rack].limit, "Watts")
    /\ validate_quantity(slots[Rack].draw, slots[Rack].draw.unit)
    /\ MayReplace(power.known, generations.power, basis)
    /\ power' = [known |-> TRUE, owner |-> tok, durable |-> durable, reval |-> FALSE,
                 slots |-> recompute_power_derived(slots)]
    /\ generations' = [generations EXCEPT !.power = @ + 1, !.constraints = Next1(@)]
    /\ UNCHANGED <<phase, coolingDomains, cooling>>

\* publish_cooling_envelope: of zones that have a member record.
PublishCoolingEnvelope(tok, zones, durable, basis) ==
    /\ DOMAIN zones \subseteq coolingDomains
    /\ \A z \in DOMAIN zones :
         /\ validate_quantity(zones[z].cooling_capacity, "Watts")
         /\ validate_quantity(zones[z].design_thermal_limit, "Watts")
    /\ MayReplace(cooling.known, generations.cooling, basis)
    /\ cooling' = [known |-> TRUE, owner |-> tok, durable |-> durable, reval |-> FALSE,
                   zones |-> recompute_cooling_derived(zones)]
    /\ generations' = [generations EXCEPT !.cooling = @ + 1, !.constraints = Next1(@)]
    /\ UNCHANGED <<phase, coolingDomains, power>>

\* publish_member of a cooling domain; member records are never erased.
PublishCoolingDomain(z) ==
    /\ coolingDomains' = coolingDomains \cup {z}
    /\ UNCHANGED <<phase, power, cooling, generations>>

Register(b) ==
    /\ phase[b] = "unknown"
    /\ phase' = [phase EXCEPT ![b] = "live"]
    /\ UNCHANGED <<coolingDomains, power, cooling, generations>>

-----------------------------------------------------------------------------
(* Fencing, restart, time *)

Silenced(slot) == [slot EXCEPT !.draw = NoQuantity, !.headroom = NoQuantity]

SilencedZones(zones) ==
    [z \in DOMAIN zones |->
        [zones[z] EXCEPT !.observed = FALSE, !.thermal_headroom = NoQuantity]]

\* Mutated form of FencedPower: the draw goes and what was derived from it stays.
FencedDrawOnly(b) ==
    IF power.owner = b /\ ~power.durable
    THEN [power EXCEPT !.reval = TRUE, !.slots[Rack].draw = NoQuantity]
    ELSE power

\* An ephemeral envelope of b is flagged; the rack's draw and headroom go, the
\* budgets of the domains stay.
FencedPower(b) ==
    IF power.owner = b /\ ~power.durable
    THEN [power EXCEPT !.reval = TRUE, !.slots[Rack] = Silenced(@)]
    ELSE power

FencedCooling(b) ==
    IF cooling.owner = b /\ ~cooling.durable
    THEN [cooling EXCEPT !.reval = TRUE, !.zones = SilencedZones(@)]
    ELSE cooling

\* fence_publisher.
Fence(b) ==
    /\ phase[b] = "live"
    /\ phase' = [phase EXCEPT ![b] = "dead"]
    /\ power' = FencedPower(b)
    /\ cooling' = FencedCooling(b)
    /\ UNCHANGED <<coolingDomains, generations>>

\* apply_recovery_policy: what is ephemeral or was owned is flagged, owners are
\* forgotten, an ephemeral envelope loses its observations, budgets included.
RecoveredPower ==
    [power EXCEPT !.reval = @ \/ ~power.durable \/ power.owner # None, !.owner = None,
                  !.slots = IF power.durable THEN @ ELSE [s \in Slots |-> Silenced(@[s])]]

RecoveredCooling ==
    [cooling EXCEPT !.reval = @ \/ ~cooling.durable \/ cooling.owner # None, !.owner = None,
                    !.zones = IF cooling.durable THEN @ ELSE SilencedZones(@)]

\* A coordinator that loads this state.
Restart ==
    /\ phase' = [b \in Boots |-> IF phase[b] = "unknown" THEN "unknown" ELSE "dead"]
    /\ power' = RecoveredPower
    /\ cooling' = RecoveredCooling
    /\ UNCHANGED <<coolingDomains, generations>>

Older(q) == [q EXCEPT !.ev = Aged(@)]

OlderSlots(slots) ==
    [s \in Slots |-> [limit |-> Older(slots[s].limit), draw |-> Older(slots[s].draw),
                      headroom |-> Older(slots[s].headroom)]]

OlderZones(zones) ==
    [z \in DOMAIN zones |->
        [zones[z] EXCEPT !.cooling_capacity = Older(@), !.design_thermal_limit = Older(@),
                         !.thermal_headroom = Older(@)]]

Tick ==
    /\ power' = [power EXCEPT !.slots = OlderSlots(@)]
    /\ cooling' = [cooling EXCEPT !.zones = OlderZones(@)]
    /\ UNCHANGED <<phase, coolingDomains, generations>>

-----------------------------------------------------------------------------
(* Specification *)

\* Every combination for the rack; the budgets of the domains follow it.
RequestSlots == {[s \in Slots |-> slot] : slot \in PowerSlot}

RequestZones == UNION {[zs -> CoolingZone] : zs \in SUBSET Zones}

EnvelopesNext ==
    \/ \E b \in Boots : Register(b) \/ Fence(b)
    \/ \E z \in Zones : PublishCoolingDomain(z)
    \/ \E tok \in Token, durable \in BOOLEAN, basis \in {0, 1} :
         \/ \E slots \in RequestSlots :
               PublishPowerEnvelope(tok, slots, durable, basis)
         \/ \E zones \in RequestZones :
               PublishCoolingEnvelope(tok, zones, durable, basis)
    \/ Restart
    \/ Tick

EnvelopesSpec == EnvelopesInit /\ [][EnvelopesNext]_envelopeVars

-----------------------------------------------------------------------------
(* Properties *)

PowerRecord ==
    [known : BOOLEAN, owner : Owner, durable : BOOLEAN, reval : BOOLEAN,
     slots : [Slots -> [limit : Quantity, draw : Quantity, headroom : Quantity]]]

ZoneRecord ==
    [cooling_capacity : Quantity, design_thermal_limit : Quantity, observed : BOOLEAN,
     thermal_headroom : Quantity]

\* A cooling envelope of the zones zs.
CoolingRecord(zs) ==
    [known : BOOLEAN, owner : Owner, durable : BOOLEAN, reval : BOOLEAN,
     zones : [zs -> ZoneRecord]]

\* Records keep their shape, and the counters stay within their range.
EnvelopesTypeOK ==
    /\ phase \in [Boots -> {"unknown", "live", "dead"}]
    /\ coolingDomains \subseteq Zones
    /\ power \in PowerRecord
    /\ cooling \in CoolingRecord(DOMAIN cooling.zones)
    /\ DOMAIN cooling.zones \subseteq coolingDomains
    /\ generations \in [power : 0..MaxGen, cooling : 0..MaxGen, constraints : 0..MaxGen]

\* A headroom and the two quantities it is derived from.
Derivations ==
    {<<power.slots[s].headroom, power.slots[s].limit, power.slots[s].draw>> : s \in Slots} \cup
    {<<cooling.zones[z].thermal_headroom, cooling.zones[z].cooling_capacity,
       cooling.zones[z].design_thermal_limit>> : z \in DOMAIN cooling.zones}

\* What check_invariants demands of a headroom, and more: wherever one stands, both
\* inputs still stand beside it in the same unit, and it is what is left of the one
\* by the other.  Fencing and recovery, which take inputs away, leave no orphan.
HeadroomIsSupported ==
    \A d \in Derivations :
        present(d[1]) =>
            /\ present(d[2]) /\ present(d[3])
            /\ d[2].unit = d[3].unit
            /\ d[1].value = d[2].value - d[3].value /\ d[1].value >= 0

\* A headroom that reads as current has an input that does, so that it never
\* outlives both.  It may outlive the older of the two.
FreshHeadroomHasFreshInput ==
    \A d \in Derivations : is_current(d[1].ev) => is_current(d[2].ev) \/ is_current(d[3].ev)

\* What a process observed goes with it: an ephemeral envelope whose owner is dead
\* is flagged, and a flagged one has no draw of the rack, no temperature and no
\* headroom; once recovered from the file, none in its budgets either.
LostObservationsAreGone ==
    LET gone(r) == r.known /\ ~r.durable
        silent(s) == ~present(power.slots[s].draw) /\ ~present(power.slots[s].headroom)
    IN
    /\ \A r \in {power, cooling} :
          gone(r) /\ r.owner # None /\ ~r.reval => phase[r.owner] = "live"
    /\ gone(power) /\ power.reval =>
          /\ silent(Rack)
          /\ power.owner = None => \A s \in Slots : silent(s)
    /\ gone(cooling) /\ cooling.reval =>
          \A z \in DOMAIN cooling.zones :
             ~cooling.zones[z].observed /\ ~present(cooling.zones[z].thermal_headroom)

\* Headroom rests on a limit and an observation that are there, and nothing observed by
\* a process that is gone is left behind.
EnvelopesInv ==
    /\ EnvelopesTypeOK
    /\ HeadroomIsSupported
    /\ LostObservationsAreGone

\* A headroom that is not current becomes current by a publication alone: the clock
\* never brings one into force, because an input dated ahead yields none.
HeadroomNeverRevives ==
    [][/\ \A s \in Slots :
             is_current(power.slots[s].headroom.ev)' =>
                \/ is_current(power.slots[s].headroom.ev)
                \/ generations.power' > generations.power
       /\ \A z \in DOMAIN cooling.zones' :
             is_current(cooling.zones[z].thermal_headroom.ev)' =>
                \/ z \in DOMAIN cooling.zones /\ is_current(cooling.zones[z].thermal_headroom.ev)
                \/ generations.cooling' > generations.cooling]_envelopeVars
=============================================================================
